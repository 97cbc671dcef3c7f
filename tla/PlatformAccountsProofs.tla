---------------------- MODULE PlatformAccountsProofs ----------------------
(***************************************************************************)
(* Theorems on PlatformAccounts, for any users, identities, workers and    *)
(* seeded accounts, and any bounds.                                        *)
(***************************************************************************)
EXTENDS PlatformAccounts, TLAPS

\* What a request keeps true of its account, however old its copy is: the
\* account exists unless a sign-in is about to create it, whoever asked for an
\* administrator role is a super admin, and whoever is let in was admitted.
KeepsTrue(d, existing, admitted) ==
  /\ d.op \in {"status", "role", "refresh", "claims"} => d.target \in existing
  /\ d.op = "entra" /\ d.loaded # NoAccount => d.target \in existing
  /\ d.op = "role" =>
       /\ d.to \in Roles
       /\ {d.loaded.role, d.to} \cap AdminRoles # {} => d.by = "SUPER_ADMIN"
  /\ d.op \in {"entra", "refresh", "claims"} /\ d.loaded.active => d.target \in admitted

Admitted == approved \cup DOMAIN Seed

\* The edits that take an active super admin out of office.
TakesOut(d) ==
  /\ d.loaded.role = "SUPER_ADMIN"
  /\ d.to # (IF d.op = "status" THEN "on" ELSE "SUPER_ADMIN")

\* The super admins an edit has counted: others than its own, and some if it
\* needs them.
CountsOn(d, supers) ==
  d.op \in {"status", "role"} =>
    /\ d.others \subseteq supers \ {d.target}
    /\ TakesOut(d) => d.others # {}

\* Unless two requests crossed, whom a pending edit counts on is in office.
CountsHold ==
  crossed \/ (ActiveSupers # {} /\ \A w \in Workers : CountsOn(desk[w], ActiveSupers))

\* The inductive invariant of the accounts.
AccountsInv ==
  /\ AccountsTypeOK
  /\ \A w \in Workers : KeepsTrue(desk[w], Existing, Admitted)
  /\ AdmissionByAdministrators
  /\ CountsHold

Desk == Edit \cup SignIn \cup Issue \cup {Idle}

-----------------------------------------------------------------------------
\* Types

\* An account that exists is a row of the table.
LEMMA ExistingAccount ==
  ASSUME AccountsTypeOK, NEW u \in Users, u \in Existing \/ acct[u].active
  PROVE  acct[u] \in Account /\ u \in Existing
  BY DEF AccountsTypeOK, Existing, NoAccount

\* What a request holds, by what it is.
LEMMA DeskType ==
  ASSUME NEW d \in Desk
  PROVE  /\ d.op \in {"status", "role"} => d \in Edit
         /\ d.op = "entra" => d \in SignIn
         /\ d.op \in {"refresh", "claims"} => d \in Issue
<1>1. d \in Edit => d.op \in {"status", "role"}
  BY DEF Edit
<1>2. d \in SignIn => d.op = "entra"
  BY DEF SignIn
<1>3. d \in Issue => d.op \in {"refresh", "claims"}
  BY DEF Issue
<1>4. d = Idle => d.op = "idle"
  BY DEF Idle
<1> QED  BY <1>1, <1>2, <1>3, <1>4 DEF Desk

\* What an UPDATE leaves in the row: where the copy equals what was loaded,
\* the value that is there by now.
LEMMA WrittenAccount ==
  ASSUME NEW now \in Account, NEW loaded \in Account, NEW copy \in Account
  PROVE  /\ Written(now, loaded, copy) \in Account
         /\ Written(now, loaded, copy).role = IF copy.role # loaded.role THEN copy.role ELSE now.role
         /\ Written(now, loaded, copy).active =
              IF copy.active # loaded.active THEN copy.active ELSE now.active
  BY DEF Written, Account

\* What an edit makes of its copy: one column, as asked.
LEMMA EditedAccount ==
  ASSUME NEW d \in Edit, d.loaded \in Account, d.op = "role" => d.to \in Roles
  PROVE  /\ Edited(d) \in Account
         /\ d.op = "status" => Edited(d).role = d.loaded.role /\ Edited(d).active = (d.to = "on")
         /\ d.op = "role" => Edited(d).role = d.to /\ Edited(d).active = d.loaded.active
  BY DEF Edited, Edit, Account

\* Idle workers claim nothing.
LEMMA IdleIsTrue ==
  ASSUME NEW existing, NEW admitted, NEW supers
  PROVE  Idle \in Desk /\ KeepsTrue(Idle, existing, admitted) /\ CountsOn(Idle, supers)
  BY DEF Idle, Desk, KeepsTrue, CountsOn

-----------------------------------------------------------------------------
\* The two kinds of steps of a worker

\* A step that leaves the accounts alone: the worker turns to d, and sessions
\* begin only for those who were admitted.
LEMMA DeskStep ==
  ASSUME AccountsInv, NEW w \in Workers, NEW d \in Desk,
         desk' = [desk EXCEPT ![w] = d],
         UNCHANGED <<mode, acct, approved, crossed>>,
         edits' \in Nat, sessions' \subseteq Session,
         \A s \in sessions' \ sessions : s.active => s.user \in Admitted,
         KeepsTrue(d, Existing, Admitted),
         crossed \/ CountsOn(d, ActiveSupers)
  PROVE  AccountsInv'
<1>1. desk \in [Workers -> Desk]
  BY DEF AccountsInv, AccountsTypeOK, Desk
<1>2. \A v \in Workers : desk'[v] = IF v = w THEN d ELSE desk[v]
  BY <1>1
<1>3. Existing' = Existing /\ ActiveSupers' = ActiveSupers /\ Admitted' = Admitted
  BY DEF Existing, ActiveSupers, Admitted
<1>4. AccountsTypeOK'
  BY <1>1 DEF AccountsInv, AccountsTypeOK, Desk
<1>5. \A v \in Workers : KeepsTrue(desk'[v], Existing, Admitted)
  BY <1>2 DEF AccountsInv
<1>6. AdmissionByAdministrators'
  BY <1>3 DEF AccountsInv, AdmissionByAdministrators, Admitted
<1>7. CountsHold'
  BY <1>2, <1>3 DEF AccountsInv, CountsHold
<1> QED  BY <1>3, <1>4, <1>5, <1>6, <1>7 DEF AccountsInv

\* A step that writes one account: nobody is deleted, whoever is active now was
\* admitted, and whom the others count on stays in office.
LEMMA AccountStep ==
  ASSUME AccountsInv, NEW w \in Workers, NEW d \in Desk, NEW u \in Users, NEW row \in Account,
         desk' = [desk EXCEPT ![w] = d],
         acct' = [acct EXCEPT ![u] = row],
         UNCHANGED <<mode, sessions, edits>>,
         approved \subseteq approved', approved' \subseteq Users, crossed' \in BOOLEAN,
         KeepsTrue(d, Existing \cup {u}, Admitted'), d.op \notin {"status", "role"},
         row.active => u \in Admitted',
         \/ crossed'
         \/ /\ ~crossed /\ ActiveSupers' # {}
            /\ \A v \in Workers \ {w} :
                 desk[v].op \in {"status", "role"} => desk[v].others \subseteq ActiveSupers'
  PROVE  AccountsInv'
<1>1. desk \in [Workers -> Desk] /\ acct \in [Users -> Account \cup {NoAccount}]
  BY DEF AccountsInv, AccountsTypeOK, Desk
<1>2. /\ \A v \in Workers : desk'[v] = IF v = w THEN d ELSE desk[v]
      /\ \A x \in Users : acct'[x] = IF x = u THEN row ELSE acct[x]
  BY <1>1
<1>3. row # NoAccount
  BY DEF Account, NoAccount, Roles
<1>4. Existing' = Existing \cup {u} /\ Admitted \subseteq Admitted'
  BY <1>2, <1>3 DEF Existing, Admitted
<1>5. AccountsTypeOK'
  BY <1>1 DEF AccountsInv, AccountsTypeOK, Desk
<1>6. \A v \in Workers : KeepsTrue(desk'[v], Existing', Admitted')
  <2> TAKE v \in Workers
  <2>1. v # w => KeepsTrue(desk[v], Existing, Admitted)
    BY DEF AccountsInv
  <2> QED  BY <1>2, <1>4, <2>1 DEF KeepsTrue
<1>7. AdmissionByAdministrators'
  <2>1. \A x \in Existing' \ DOMAIN Seed : acct'[x].active => x \in approved'
    BY <1>2, <1>4 DEF AccountsInv, AdmissionByAdministrators, Admitted, Existing
  <2>2. \A s \in sessions : s.active => s.user \in approved' \cup DOMAIN Seed
    BY DEF AccountsInv, AdmissionByAdministrators
  <2> QED  BY <2>1, <2>2 DEF AdmissionByAdministrators
<1>8. CountsHold'
  <2> SUFFICES ASSUME ~crossed' PROVE \A v \in Workers : CountsOn(desk'[v], ActiveSupers')
    BY DEF CountsHold
  <2> TAKE v \in Workers
  <2>1. CASE v = w
    BY <2>1, <1>2 DEF CountsOn
  <2>2. CASE v # w
    <3>1. CountsOn(desk[v], ActiveSupers)
      BY DEF AccountsInv, CountsHold
    <3> QED  BY <2>2, <3>1, <1>2 DEF CountsOn
  <2> QED  BY <2>1, <2>2
<1> QED  BY <1>5, <1>6, <1>7, <1>8 DEF AccountsInv

-----------------------------------------------------------------------------
\* The steps, one by one

\* An edit is taken in: it counts on super admins in office, and whoever asks
\* for an administrator role is one.
LEMMA EditTaken ==
  ASSUME AccountsInv, NEW w \in Workers, NEW d \in Edit,
         d.target \in Existing, d.others \subseteq ActiveSupers \ {d.target},
         d.loaded.role = "SUPER_ADMIN" /\ d.to \notin {"on", "SUPER_ADMIN"} => d.others # {},
         \/ d.op = "status" /\ d.to \in {"on", "off"}
         \/ /\ d.op = "role" /\ d.to \in Roles
            /\ {d.loaded.role, d.to} \cap AdminRoles # {} => d.by = "SUPER_ADMIN",
         desk' = [desk EXCEPT ![w] = d], edits' = edits + 1,
         UNCHANGED <<mode, acct, sessions, approved, crossed>>
  PROVE  AccountsInv'
<1>1. KeepsTrue(d, Existing, Admitted)
  BY DEF KeepsTrue
<1>2. CountsOn(d, ActiveSupers)
  BY DEF CountsOn, TakesOut, Roles
<1>3. edits' \in Nat /\ sessions' \subseteq Session
  BY DEF AccountsInv, AccountsTypeOK
<1> QED  BY <1>1, <1>2, <1>3, DeskStep DEF Desk

\* Only super admins manage administrators.
LEMMA ManagesAdmins ==
  ASSUME NEW r \in Roles, "manage_admins" \in PlatformPermissions[r]
  PROVE  r = "SUPER_ADMIN"
<1>1. CASE r = "PLATFORM_ADMIN"
  <2>1. PlatformPermissions[r] = PlatformCatalogue \ {"manage_admins", "manage_roles"}
    BY <1>1 DEF PlatformPermissions
  <2> QED  BY <2>1
<1>2. CASE r = "PLATFORM_USER"
  <2>1. PlatformPermissions[r] = {}
    BY <1>2 DEF PlatformPermissions
  <2> QED  BY <2>1
<1> QED  BY <1>1, <1>2 DEF Roles

\* Administrators' requests, up to their guards.
LEMMA CheckStep ==
  ASSUME AccountsInv, NEW w \in Workers, NEW a \in Users, NEW u \in Users
  PROVE  /\ \A to \in {"on", "off"} : CheckStatus(w, a, u, to) => AccountsInv'
         /\ \A to \in Roles : CheckRole(w, a, u, to) => AccountsInv'
<1>1. ASSUME NEW p, Authorized(a, p)
      PROVE  acct[a].role \in Roles
  <2>1. acct[a].active
    BY <1>1 DEF Authorized, Accepted
  <2> QED  BY <2>1, ExistingAccount DEF AccountsInv, Account
<1>2. OtherSupers(u) \subseteq ActiveSupers \ {u}
  BY DEF OtherSupers
<1>3. ASSUME NEW to \in {"on", "off"}, CheckStatus(w, a, u, to)
      PROVE  AccountsInv'
  <2> DEFINE counts == to = "off" /\ acct[u].role = "SUPER_ADMIN"
             others == IF counts THEN OtherSupers(u) ELSE {}
             d == [op |-> "status", target |-> u, loaded |-> acct[u], to |-> to,
                   others |-> others, by |-> acct[a].role]
  <2>1. /\ Authorized(a, "manage_users") /\ u \in Existing /\ (counts => others # {})
        /\ desk' = [desk EXCEPT ![w] = d]
        /\ edits' = edits + 1
        /\ UNCHANGED <<mode, acct, sessions, approved, crossed>>
    BY <1>3 DEF CheckStatus, Take
  <2>2. others \in SUBSET (ActiveSupers \ {u})
    BY <1>2
  <2>3. acct[u].role = "SUPER_ADMIN" /\ to \notin {"on", "SUPER_ADMIN"} => others # {}
    BY <2>1
  <2>4. others \subseteq Users /\ acct[a].role \in Roles /\ acct[u] \in Account
    BY <1>1, <2>1, <2>2, ExistingAccount DEF AccountsInv, ActiveSupers
  <2> HIDE DEF counts, others
  <2>5. /\ d \in Edit /\ d.op = "status" /\ d.target = u /\ d.loaded = acct[u] /\ d.to = to
        /\ d.others = others
    BY <2>4 DEF Edit
  <2> HIDE DEF d
  <2> QED  BY <2>1, <2>2, <2>3, <2>5, EditTaken
<1>4. ASSUME NEW to \in Roles, CheckRole(w, a, u, to)
      PROVE  AccountsInv'
  <2> DEFINE counts == acct[u].role = "SUPER_ADMIN" /\ to # "SUPER_ADMIN"
             others == IF counts THEN OtherSupers(u) ELSE {}
             d == [op |-> "role", target |-> u, loaded |-> acct[u], to |-> to,
                   others |-> others, by |-> acct[a].role]
  <2>1. /\ Authorized(a, "manage_users") /\ u \in Existing /\ (counts => others # {})
        /\ {acct[u].role, to} \cap AdminRoles # {}
             => "manage_admins" \in PlatformPermissions[acct[a].role]
        /\ desk' = [desk EXCEPT ![w] = d]
        /\ edits' = edits + 1
        /\ UNCHANGED <<mode, acct, sessions, approved, crossed>>
    BY <1>4 DEF CheckRole, Take
  <2>2. others \in SUBSET (ActiveSupers \ {u})
    BY <1>2
  <2>3. acct[u].role = "SUPER_ADMIN" /\ to \notin {"on", "SUPER_ADMIN"} => others # {}
    BY <2>1
  <2>4. acct[a].role \in Roles
    BY <1>1, <2>1
  <2>5. {acct[u].role, to} \cap AdminRoles # {} => acct[a].role = "SUPER_ADMIN"
    BY <2>1, <2>4, ManagesAdmins
  <2>6. others \subseteq Users /\ acct[u] \in Account
    BY <2>1, <2>2, ExistingAccount DEF AccountsInv, ActiveSupers
  <2> HIDE DEF counts, others
  <2>7. /\ d \in Edit /\ d.op = "role" /\ d.target = u /\ d.loaded = acct[u] /\ d.to = to
        /\ d.others = others /\ d.by = acct[a].role
    BY <2>4, <2>6 DEF Edit
  <2> HIDE DEF d
  <2> QED  BY <2>1, <2>2, <2>3, <2>5, <2>7, EditTaken
<1> QED  BY <1>3, <1>4

\* What the commit of an edit does to the row: one column changes, and to what
\* was asked; an active super admin leaves office only by an edit that takes
\* super admins out or was loaded before there was one.
LEMMA EditedRow ==
  ASSUME AccountsInv, NEW w \in Workers, CommitEdit(w)
  PROVE  LET d == desk[w]
             u == desk[w].target
             row == Written(acct[desk[w].target], desk[w].loaded, Edited(desk[w]))
         IN  /\ d \in Edit /\ u \in Users /\ u \in Existing /\ acct[u] \in Account /\ row \in Account
             /\ d.op = "status" =>
                  row.role = acct[u].role /\ (row.active # acct[u].active => (d.to = "on") = row.active)
             /\ d.op = "role" =>
                  /\ row.active = acct[u].active
                  /\ row.role # acct[u].role => row.role = d.to /\ d.to # d.loaded.role
             /\ u \in ActiveSupers /\ ~(row.role = "SUPER_ADMIN" /\ row.active)
                  => TakesOut(d) \/ d.loaded.role # "SUPER_ADMIN"
<1> DEFINE d == desk[w]
           u == d.target
           copy == Edited(d)
           row == Written(acct[u], d.loaded, copy)
<1>1. AccountsTypeOK /\ d \in Desk /\ d.op \in {"status", "role"} /\ KeepsTrue(d, Existing, Admitted)
  BY DEF CommitEdit, AccountsInv, AccountsTypeOK, Desk
<1>2. d \in Edit /\ u \in Existing /\ (d.op = "role" => d.to \in Roles)
  BY <1>1, DeskType DEF KeepsTrue
<1>3. d.loaded \in Account /\ u \in Users
  BY <1>2 DEF Edit
<1>4. acct[u] \in Account
  BY <1>1, <1>2, <1>3, ExistingAccount
<1> HIDE DEF d
<1>5. /\ copy \in Account
      /\ d.op = "status" => copy.role = d.loaded.role /\ copy.active = (d.to = "on")
      /\ d.op = "role" => copy.role = d.to /\ copy.active = d.loaded.active
  BY <1>2, <1>3, EditedAccount
<1> HIDE DEF copy, u
<1>6. /\ row \in Account
      /\ row.role = IF copy.role # d.loaded.role THEN copy.role ELSE acct[u].role
      /\ row.active = IF copy.active # d.loaded.active THEN copy.active ELSE acct[u].active
  BY <1>3, <1>4, <1>5, WrittenAccount
<1> HIDE DEF row
<1>7. u \in ActiveSupers => acct[u].role = "SUPER_ADMIN" /\ acct[u].active
  BY DEF ActiveSupers
<1>8. row.active \in BOOLEAN /\ acct[u].active \in BOOLEAN /\ copy.active \in BOOLEAN
  BY <1>4, <1>5, <1>6 DEF Account
<1>9. d.op = "status" =>
        row.role = acct[u].role /\ (row.active # acct[u].active => (d.to = "on") = row.active)
  BY <1>5, <1>6
<1>10. d.op = "role" =>
         /\ row.active = acct[u].active
         /\ row.role # acct[u].role => row.role = d.to /\ d.to # d.loaded.role
  BY <1>5, <1>6
<1>11. u \in ActiveSupers /\ ~(row.role = "SUPER_ADMIN" /\ row.active)
         => TakesOut(d) \/ d.loaded.role # "SUPER_ADMIN"
  BY <1>1, <1>7, <1>8, <1>9, <1>10 DEF TakesOut
<1> QED  BY <1>2, <1>3, <1>4, <1>6, <1>9, <1>10, <1>11 DEF d, u, copy, row

\* The commit of an edit.
LEMMA CommitEditStep ==
  ASSUME AccountsInv, NEW w \in Workers, CommitEdit(w)
  PROVE  AccountsInv'
<1> DEFINE d == desk[w]
           u == d.target
           row == Written(acct[u], d.loaded, Edited(d))
<1>1. /\ d \in Edit /\ u \in Users /\ u \in Existing /\ acct[u] \in Account /\ row \in Account
      /\ d.op = "status" =>
           row.role = acct[u].role /\ (row.active # acct[u].active => (d.to = "on") = row.active)
      /\ d.op = "role" => row.active = acct[u].active
      /\ u \in ActiveSupers /\ ~(row.role = "SUPER_ADMIN" /\ row.active)
           => TakesOut(d) \/ d.loaded.role # "SUPER_ADMIN"
  BY EditedRow
<1>2. /\ d.op \in {"status", "role"}
      /\ acct' = [acct EXCEPT ![u] = row]
      /\ approved' = IF d.op = "status" /\ d.to = "on" THEN approved \cup {u} ELSE approved
      /\ crossed' = (crossed \/ (u \in ActiveSupers \ ActiveSupers' /\ Crosses(w, u)))
      /\ desk' = [desk EXCEPT ![w] = Idle]
      /\ UNCHANGED <<mode, sessions, edits>>
  BY DEF CommitEdit, Leave
<1>3. \A v \in Workers : ~crossed => CountsOn(desk[v], ActiveSupers)
  BY DEF AccountsInv, CountsHold
<1>4. /\ d.loaded.role # "SUPER_ADMIN" => Crosses(w, u)
      /\ \A v \in Workers \ {w} :
           desk[v].op \in {"status", "role"} /\ u \in desk[v].others => Crosses(w, u)
  BY DEF Crosses
<1> HIDE DEF d, u, row
<1>5. approved \subseteq approved' /\ approved' \subseteq Users /\ crossed' \in BOOLEAN
  BY <1>1, <1>2 DEF AccountsInv, AccountsTypeOK
<1>6. row.active => u \in Admitted'
  <2>1. acct[u].active => u \in Admitted
    BY <1>1 DEF AccountsInv, AdmissionByAdministrators, Admitted
  <2>2. row.active \in BOOLEAN /\ acct[u].active \in BOOLEAN
    BY <1>1 DEF Account
  <2> QED  BY <1>1, <1>2, <2>1, <2>2 DEF Admitted
<1>7. /\ ActiveSupers \ {u} \subseteq ActiveSupers'
      /\ u \in ActiveSupers /\ row.role = "SUPER_ADMIN" /\ row.active => u \in ActiveSupers'
  BY <1>1, <1>2 DEF AccountsInv, AccountsTypeOK, ActiveSupers
<1>8. ASSUME ~crossed'
      PROVE  /\ ~crossed /\ ActiveSupers' # {}
             /\ \A v \in Workers \ {w} :
                  desk[v].op \in {"status", "role"} => desk[v].others \subseteq ActiveSupers'
  <2>1. ~crossed /\ ActiveSupers # {} /\ (u \in ActiveSupers \ ActiveSupers' => ~Crosses(w, u))
    BY <1>2, <1>8 DEF AccountsInv, CountsHold
  <2>2. \A v \in Workers \ {w} :
          desk[v].op \in {"status", "role"} => desk[v].others \subseteq ActiveSupers
    BY <1>3, <2>1 DEF CountsOn
  <2>3. CASE u \in ActiveSupers \ ActiveSupers'
    <3>1. TakesOut(d)
      BY <1>1, <1>4, <1>7, <2>1, <2>3
    <3>2. d.others # {} /\ d.others \subseteq ActiveSupers \ {u}
      BY <1>2, <1>3, <2>1, <3>1 DEF CountsOn, d, u
    <3> QED  BY <1>4, <1>7, <2>1, <2>2, <2>3, <3>2
  <2>4. CASE u \notin ActiveSupers \ ActiveSupers'
    BY <1>7, <2>1, <2>2, <2>4
  <2> QED  BY <2>3, <2>4
<1>9. KeepsTrue(Idle, Existing \cup {u}, Admitted') /\ Idle \in Desk
      /\ Idle.op \notin {"status", "role"}
  BY IdleIsTrue DEF Idle
<1> QED  BY <1>1, <1>2, <1>5, <1>6, <1>8, <1>9, AccountStep

\* Sign-ins and the requests that follow one, up to the session they issue.
LEMMA SignInSteps ==
  ASSUME AccountsInv, NEW w \in Workers
  PROVE  /\ \A u \in Users, oid \in Identities : Resolve(w, u, oid) => AccountsInv'
         /\ \A u \in Users : DevLogin(w, u) => AccountsInv'
         /\ Refresh(w) => AccountsInv'
         /\ \A m \in Claims : IssueSession(w, m) => AccountsInv'
         /\ Abort(w) => AccountsInv'
<1>1. /\ AccountsTypeOK /\ edits \in Nat /\ sessions \subseteq Session
      /\ desk[w] \in Desk /\ KeepsTrue(desk[w], Existing, Admitted)
  BY DEF AccountsInv, AccountsTypeOK, Desk
<1>2. \A u \in Users : acct[u].active => u \in Existing /\ u \in Admitted
  BY <1>1, ExistingAccount DEF AccountsInv, AdmissionByAdministrators, Admitted
<1>3. ASSUME NEW email \in Users, NEW oid \in Identities, Resolve(w, email, oid)
      PROVE  AccountsInv'
  <2> DEFINE u == IF Owner(oid) # {} THEN CHOOSE x \in Owner(oid) : TRUE ELSE email
             d == [op |-> "entra", target |-> u, loaded |-> acct[u], oid |-> oid]
  <2>1. u \in Users
    BY DEF Owner, Existing
  <2>2. /\ desk' = [desk EXCEPT ![w] = d]
        /\ UNCHANGED <<mode, acct, sessions, edits, approved, crossed>>
    BY <1>3 DEF Resolve, Take
  <2> HIDE DEF u
  <2>3. acct[u] \in Account \cup {NoAccount}
    BY <1>1, <2>1 DEF AccountsTypeOK
  <2>4. d \in SignIn /\ d.op = "entra" /\ d.target = u /\ d.loaded = acct[u]
    BY <2>1, <2>3 DEF SignIn
  <2> HIDE DEF d
  <2>5. KeepsTrue(d, Existing, Admitted) /\ CountsOn(d, ActiveSupers)
    BY <1>2, <2>1, <2>4 DEF KeepsTrue, CountsOn, Existing
  <2> QED  BY <1>1, <2>2, <2>4, <2>5, DeskStep DEF Desk
<1>4. ASSUME NEW u \in Users, DevLogin(w, u)
      PROVE  AccountsInv'
  <2> DEFINE d == [op |-> "refresh", target |-> u, loaded |-> acct[u]]
  <2>1. /\ desk' = [desk EXCEPT ![w] = d] /\ acct[u].active
        /\ UNCHANGED <<mode, acct, sessions, edits, approved, crossed>>
    BY <1>4 DEF DevLogin, Take
  <2>2. acct[u] \in Account
    BY <1>1, <2>1, ExistingAccount
  <2>3. d \in Issue /\ d.op = "refresh" /\ d.target = u /\ d.loaded = acct[u]
    BY <2>2 DEF Issue
  <2> HIDE DEF d
  <2>4. KeepsTrue(d, Existing, Admitted) /\ CountsOn(d, ActiveSupers)
    BY <1>2, <2>1, <2>3 DEF KeepsTrue, CountsOn
  <2> QED  BY <1>1, <2>1, <2>3, <2>4, DeskStep DEF Desk
<1>5. ASSUME Refresh(w)
      PROVE  AccountsInv'
  <2> DEFINE u == desk[w].target
             d == [op |-> "claims", target |-> u, loaded |-> acct[u]]
  <2>1. desk[w].op = "refresh"
    BY <1>5 DEF Refresh
  <2>2. desk' = [desk EXCEPT ![w] = d] /\ UNCHANGED <<mode, acct, sessions, edits, approved, crossed>>
    BY <1>1, <1>5 DEF Refresh, AccountsTypeOK
  <2>3. u \in Existing /\ u \in Users
    BY <1>1, <2>1 DEF KeepsTrue, Existing
  <2> HIDE DEF u
  <2>4. acct[u] \in Account
    BY <1>1, <2>3, ExistingAccount
  <2>5. d \in Issue /\ d.op = "claims" /\ d.target = u /\ d.loaded = acct[u]
    BY <2>3, <2>4 DEF Issue
  <2> HIDE DEF d
  <2>6. KeepsTrue(d, Existing, Admitted) /\ CountsOn(d, ActiveSupers)
    BY <1>2, <2>3, <2>5 DEF KeepsTrue, CountsOn
  <2> QED  BY <1>1, <2>2, <2>5, <2>6, DeskStep DEF Desk
<1>6. Idle \in Desk /\ KeepsTrue(Idle, Existing, Admitted) /\ CountsOn(Idle, ActiveSupers)
  BY IdleIsTrue
<1>7. ASSUME NEW m \in Claims, IssueSession(w, m)
      PROVE  AccountsInv'
  <2> DEFINE d == desk[w]
             s == [user |-> d.target, via |-> mode, active |-> d.loaded.active,
                   role |-> d.loaded.role, modules |-> m]
  <2>1. /\ d.op = "claims" /\ sessions' = sessions \cup {s} /\ desk' = [desk EXCEPT ![w] = Idle]
        /\ UNCHANGED <<mode, acct, edits, approved, crossed>>
    BY <1>7 DEF IssueSession, Leave
  <2>2. d \in Issue /\ (d.loaded.active => d.target \in Admitted)
    BY <1>1, <2>1, DeskType DEF KeepsTrue
  <2>3. d.target \in Users /\ d.loaded.active \in BOOLEAN /\ d.loaded.role \in Roles
    BY <2>2 DEF Issue, Account
  <2>4. s \in Session /\ (s.active => s.user \in Admitted)
    BY <1>1, <2>2, <2>3 DEF Session, AccountsTypeOK
  <2> HIDE DEF s
  <2>5. sessions' \subseteq Session /\ \A t \in sessions' \ sessions : t.active => t.user \in Admitted
    BY <1>1, <2>1, <2>4
  <2>6. edits' \in Nat
    BY <1>1, <2>1
  <2> QED  BY <1>6, <2>1, <2>5, <2>6, DeskStep
<1>8. ASSUME Abort(w)
      PROVE  AccountsInv'
  <2>1. desk' = [desk EXCEPT ![w] = Idle] /\ UNCHANGED <<mode, acct, sessions, edits, approved, crossed>>
    BY <1>8 DEF Abort, Leave
  <2> QED  BY <1>1, <1>6, <2>1, DeskStep
<1> QED  BY <1>3, <1>4, <1>5, <1>7, <1>8

\* What the commit of a sign-in leaves of the row: its role and activity, if
\* there was an account, and a new account is nobody's administrator and off.
LEMMA SignInRow ==
  ASSUME AccountsInv, NEW w \in Workers, CommitSignIn(w), acct' # acct
  PROVE  \E row \in Account :
           /\ desk[w] \in SignIn
           /\ acct' = [acct EXCEPT ![desk[w].target] = row]
           /\ \/ desk[w].target \notin Existing /\ ~row.active
              \/ /\ desk[w].target \in Existing
                 /\ row.role = acct[desk[w].target].role /\ row.active = acct[desk[w].target].active
           /\ \/ desk' = [desk EXCEPT ![w] = Idle]
              \/ desk' = [desk EXCEPT ![w] = [op |-> "refresh", target |-> desk[w].target, loaded |-> row]]
<1> DEFINE d == desk[w]
           u == d.target
           copy == [d.loaded EXCEPT !.oid = d.oid]
           taken == \/ d.loaded.oid # d.oid /\ Owner(d.oid) \ {d.target} # {}
                    \/ d.loaded = NoAccount /\ d.target \in Existing
           row == IF d.loaded = NoAccount THEN Provisioned(d.oid) ELSE Written(acct[u], d.loaded, copy)
<1>1. /\ AccountsTypeOK /\ d \in Desk /\ KeepsTrue(d, Existing, Admitted)
      /\ d.op = "entra" /\ ~taken /\ acct' = [acct EXCEPT ![u] = row]
      /\ \/ desk' = [desk EXCEPT ![w] = Idle]
         \/ desk' = [desk EXCEPT ![w] = [op |-> "refresh", target |-> u, loaded |-> row]]
  BY DEF CommitSignIn, Leave, AccountsInv, AccountsTypeOK, Desk
<1>2. d \in SignIn
  BY <1>1, DeskType
<1>3. d.loaded \in Account \cup {NoAccount} /\ d.oid \in Identities /\ u \in Users
  BY <1>2 DEF SignIn
<1>4. CASE d.loaded = NoAccount
  <2>1. row = [role |-> "PLATFORM_USER", active |-> FALSE, oid |-> d.oid]
    BY <1>4 DEF Provisioned
  <2> HIDE DEF d, row
  <2>2. row \in Account /\ ~row.active
    BY <1>3, <2>1 DEF Account, Roles
  <2>3. u \notin Existing
    BY <1>1, <1>4
  <2> USE DEF d
  <2> QED  BY <1>1, <1>2, <2>2, <2>3
<1>5. CASE d.loaded # NoAccount
  <2>1. d.loaded \in Account /\ u \in Existing
    BY <1>1, <1>3, <1>5 DEF KeepsTrue
  <2>2. acct[u] \in Account
    BY <1>1, <1>3, <2>1, ExistingAccount
  <2>3. copy \in Account /\ copy.role = d.loaded.role /\ copy.active = d.loaded.active
    BY <1>3, <2>1 DEF Account
  <2>4. row = Written(acct[u], d.loaded, copy)
    BY <1>5
  <2> HIDE DEF copy, row
  <2>5. row \in Account /\ row.role = acct[u].role /\ row.active = acct[u].active
    BY <2>1, <2>2, <2>3, <2>4, WrittenAccount
  <2> QED  BY <1>1, <1>2, <2>1, <2>5
<1> QED  BY <1>4, <1>5

\* The commit of a sign-in.
LEMMA CommitSignInStep ==
  ASSUME AccountsInv, NEW w \in Workers, CommitSignIn(w)
  PROVE  AccountsInv'
<1> DEFINE u == desk[w].target
<1>1. /\ AccountsTypeOK /\ desk[w] \in Desk /\ KeepsTrue(desk[w], Existing, Admitted)
      /\ edits \in Nat /\ sessions \subseteq Session /\ approved \subseteq Users /\ crossed \in BOOLEAN
  BY DEF AccountsInv, AccountsTypeOK, Desk
<1>2. UNCHANGED <<mode, sessions, edits, approved, crossed>> /\ desk[w].op = "entra"
  BY DEF CommitSignIn
<1>3. /\ Idle \in Desk /\ KeepsTrue(Idle, Existing, Admitted) /\ CountsOn(Idle, ActiveSupers)
      /\ KeepsTrue(Idle, Existing \cup {u}, Admitted') /\ Idle.op \notin {"status", "role"}
  BY IdleIsTrue DEF Idle
<1>4. CASE acct' = acct
  <2> DEFINE r == Written(acct[u], desk[w].loaded, [desk[w].loaded EXCEPT !.oid = desk[w].oid])
  <2>1. \/ desk' = [desk EXCEPT ![w] = Idle]
        \/ /\ desk[w].loaded.active
           /\ acct = [acct EXCEPT ![u] = r]
           /\ desk' = [desk EXCEPT ![w] = [op |-> "refresh", target |-> u, loaded |-> r]]
    BY <1>4 DEF CommitSignIn, Leave, NoAccount
  <2>2. CASE desk' = [desk EXCEPT ![w] = Idle]
    BY <1>1, <1>2, <1>3, <1>4, <2>2, DeskStep
  <2>3. CASE desk' # [desk EXCEPT ![w] = Idle]
    <3>1. u \in Users /\ u \in Existing
      BY <1>1, <1>2, <2>1, <2>3 DEF KeepsTrue, NoAccount, Existing
    <3>2. acct[u] \in Account /\ (acct[u].active => u \in Admitted)
      BY <1>1, <3>1, ExistingAccount DEF AccountsInv, AdmissionByAdministrators, Admitted
    <3> DEFINE d == [op |-> "refresh", target |-> u, loaded |-> acct[u]]
    <3>3. desk' = [desk EXCEPT ![w] = d]
      BY <1>1, <2>1, <2>3, <3>1 DEF AccountsTypeOK
    <3>4. d \in Issue /\ d.op = "refresh" /\ d.target = u /\ d.loaded = acct[u]
      BY <3>1, <3>2 DEF Issue
    <3> HIDE DEF d
    <3>5. KeepsTrue(d, Existing, Admitted) /\ CountsOn(d, ActiveSupers)
      BY <3>1, <3>2, <3>4 DEF KeepsTrue, CountsOn
    <3> QED  BY <1>1, <1>2, <1>4, <3>3, <3>4, <3>5, DeskStep DEF Desk
  <2> QED  BY <2>2, <2>3
<1>5. CASE acct' # acct
  <2>1. PICK row \in Account :
          /\ desk[w] \in SignIn
          /\ acct' = [acct EXCEPT ![u] = row]
          /\ \/ u \notin Existing /\ ~row.active
             \/ u \in Existing /\ row.role = acct[u].role /\ row.active = acct[u].active
          /\ \/ desk' = [desk EXCEPT ![w] = Idle]
             \/ desk' = [desk EXCEPT ![w] = [op |-> "refresh", target |-> u, loaded |-> row]]
    BY <1>5, SignInRow
  <2>2. u \in Users
    BY <2>1 DEF SignIn
  <2> HIDE DEF u
  <2>3. row.active => u \in Admitted'
    BY <1>2, <2>1 DEF AccountsInv, AdmissionByAdministrators, Admitted
  <2>4. ActiveSupers \subseteq ActiveSupers'
    BY <1>1, <2>1, <2>2 DEF ActiveSupers, AccountsTypeOK, Existing, NoAccount
  <2>5. \/ crossed'
        \/ /\ ~crossed /\ ActiveSupers' # {}
           /\ \A v \in Workers \ {w} :
                desk[v].op \in {"status", "role"} => desk[v].others \subseteq ActiveSupers'
    BY <1>2, <2>4 DEF AccountsInv, CountsHold, CountsOn
  <2>6. CASE desk' = [desk EXCEPT ![w] = Idle]
    BY <1>1, <1>2, <1>3, <2>1, <2>2, <2>3, <2>5, <2>6, AccountStep
  <2>7. CASE desk' = [desk EXCEPT ![w] = [op |-> "refresh", target |-> u, loaded |-> row]]
    <3> DEFINE d == [op |-> "refresh", target |-> u, loaded |-> row]
    <3>1. d \in Issue /\ d.op = "refresh" /\ d.target = u /\ d.loaded = row
      BY <2>2 DEF Issue
    <3>2. desk' = [desk EXCEPT ![w] = d]
      BY <2>7
    <3> HIDE DEF d
    <3>3. KeepsTrue(d, Existing \cup {u}, Admitted')
      BY <2>3, <3>1 DEF KeepsTrue
    <3>4. d \in Desk /\ d.op \notin {"status", "role"}
      BY <3>1 DEF Desk
    <3> QED  BY <1>1, <1>2, <2>1, <2>2, <2>3, <2>5, <3>2, <3>3, <3>4, AccountStep
  <2> QED  BY <2>1, <2>6, <2>7
<1> QED  BY <1>4, <1>5

\* The expiry of a session, and a redeployment.
LEMMA DeploymentSteps ==
  ASSUME AccountsInv
  PROVE  /\ \A s \in sessions : Expire(s) => AccountsInv'
         /\ Redeploy => AccountsInv'
<1>1. ASSUME NEW s \in sessions, Expire(s)
      PROVE  AccountsInv'
  <2>1. UNCHANGED <<mode, acct, desk, edits, approved, crossed>> /\ sessions' \subseteq sessions
    BY <1>1 DEF Expire
  <2>2. Existing' = Existing /\ ActiveSupers' = ActiveSupers /\ Admitted' = Admitted
    BY <2>1 DEF Existing, ActiveSupers, Admitted
  <2> QED  BY <2>1, <2>2 DEF AccountsInv, AccountsTypeOK, AdmissionByAdministrators, CountsHold
<1>2. ASSUME Redeploy
      PROVE  AccountsInv'
  <2>1. /\ UNCHANGED <<acct, sessions, edits, approved, crossed>> /\ mode' \in Modes
        /\ desk' = [w \in Workers |-> Idle]
    BY <1>2 DEF Redeploy
  <2>2. Existing' = Existing /\ ActiveSupers' = ActiveSupers /\ Admitted' = Admitted
    BY <2>1 DEF Existing, ActiveSupers, Admitted
  <2>3. \A w \in Workers : /\ desk'[w] \in Desk
                           /\ KeepsTrue(desk'[w], Existing, Admitted)
                           /\ CountsOn(desk'[w], ActiveSupers)
    BY <2>1, IdleIsTrue
  <2>4. AccountsTypeOK'
    BY <2>1 DEF AccountsInv, AccountsTypeOK
  <2>5. AdmissionByAdministrators' /\ CountsHold'
    BY <2>1, <2>2, <2>3 DEF AccountsInv, AdmissionByAdministrators, CountsHold
  <2> QED  BY <2>2, <2>3, <2>4, <2>5 DEF AccountsInv
<1> QED  BY <1>1, <1>2

-----------------------------------------------------------------------------
\* The invariant and what follows from it

\* After the seed script: every account is one of the seed's, and one of them
\* is an active super admin.
LEMMA AccountsStart ==
  ASSUME AccountsInit
  PROVE  AccountsInv
<1>1. /\ \A u \in Users : acct[u] = IF u \in DOMAIN Seed THEN Seed[u] ELSE NoAccount
      /\ desk = [w \in Workers |-> Idle] /\ sessions = {} /\ approved = {}
  BY DEF AccountsInit
<1>2. AccountsTypeOK
  BY SeedAssumption DEF AccountsInit, AccountsTypeOK, Modes
<1>3. Existing \subseteq DOMAIN Seed
  BY <1>1 DEF Existing
<1>4. ActiveSupers # {}
  BY <1>1, SeedAssumption DEF ActiveSupers
<1>5. \A w \in Workers : KeepsTrue(desk[w], Existing, Admitted) /\ CountsOn(desk[w], ActiveSupers)
  BY <1>1, IdleIsTrue
<1> QED  BY <1>1, <1>2, <1>3, <1>4, <1>5 DEF AccountsInv, AdmissionByAdministrators, CountsHold

\* Every step of the accounts keeps the invariant.
LEMMA AccountsInductive ==
  ASSUME AccountsInv, [AccountsNext]_accountVars
  PROVE  AccountsInv'
<1>1. ASSUME NEW w \in Workers, AccountsStep(w)
      PROVE  AccountsInv'
  BY <1>1, CheckStep, CommitEditStep, SignInSteps, CommitSignInStep DEF AccountsStep
<1>2. ASSUME NEW w \in Workers, Abort(w)
      PROVE  AccountsInv'
  BY <1>2, SignInSteps
<1>3. ASSUME NEW w \in Workers, NEW m \in Claims, IssueSession(w, m)
      PROVE  AccountsInv'
  BY <1>3, SignInSteps
<1>4. ASSUME UNCHANGED accountVars
      PROVE  AccountsInv'
  BY <1>4 DEF accountVars, AccountsInv, AccountsTypeOK, AdmissionByAdministrators, CountsHold,
              Existing, Admitted, ActiveSupers
<1> QED  BY <1>1, <1>2, <1>3, <1>4, DeploymentSteps DEF AccountsNext

\* The invariant holds: the tables are typed, requests are true of the
\* accounts they were loaded from, and whom a pending edit counts on is in
\* office unless two requests crossed.
THEOREM AccountsInvariant == AccountsSpec => []AccountsInv
<1>1. AccountsInit => AccountsInv
  BY AccountsStart
<1>2. AccountsInv /\ [AccountsNext]_accountVars => AccountsInv'
  BY AccountsInductive
<1> QED  BY <1>1, <1>2, PTL DEF AccountsSpec

\* The guard of the last active super admin (set_user_active and
\* set_platform_role) works: unless two requests crossed, one is in office.
THEOREM SomebodyAdministers == AccountsSpec => []LockoutNeedsCrossing
<1>1. AccountsInv => LockoutNeedsCrossing
  BY DEF AccountsInv, CountsHold, LockoutNeedsCrossing
<1> QED  BY <1>1, AccountsInvariant, PTL

\* The first-login policy of resolve_entra_user: nobody whom the seed did not
\* create has an active account or session without an administrator's act.
THEOREM NobodyAdmitsThemselves == AccountsSpec => []AdmissionByAdministrators
<1>1. AccountsInv => AdmissionByAdministrators
  BY DEF AccountsInv
<1> QED  BY <1>1, AccountsInvariant, PTL

\* An existing account changes role or activity only in the commit of an edit.
LEMMA OnlyEditsChangeAccess ==
  ASSUME AccountsInv, AccountsNext, NEW u \in Existing,
         acct'[u].role # acct[u].role \/ acct'[u].active # acct[u].active
  PROVE  \E w \in Workers : CommitEdit(w) /\ desk[w].target = u
<1>1. u \in Users /\ acct \in [Users -> Account \cup {NoAccount}] /\ acct' # acct
  BY DEF AccountsInv, AccountsTypeOK, Existing
<1>2. ASSUME NEW w \in Workers, CommitSignIn(w)
      PROVE  FALSE
  <2>1. PICK row \in Account :
          /\ acct' = [acct EXCEPT ![desk[w].target] = row]
          /\ \/ desk[w].target \notin Existing
             \/ row.role = acct[desk[w].target].role /\ row.active = acct[desk[w].target].active
    BY <1>1, <1>2, SignInRow
  <2> QED  BY <1>1, <2>1
<1>3. \E w \in Workers : CommitEdit(w)
  BY <1>1, <1>2 DEF AccountsNext, AccountsStep, CheckStatus, CheckRole, Resolve, DevLogin, Refresh,
                    Abort, IssueSession, Expire, Redeploy
<1>4. PICK w \in Workers : CommitEdit(w)
  BY <1>3
<1>5. desk[w].target = u
  BY <1>1, <1>4 DEF CommitEdit
<1> QED  BY <1>4, <1>5

\* What AccessChangesOnRequest says of a step.
ChangeIsAsked ==
  \A u \in Existing :
    LET a == acct[u] b == acct'[u] IN
    <<a.role, a.active>> # <<b.role, b.active>> =>
      \E w \in Workers :
        /\ desk[w].op \in {"status", "role"} /\ desk[w].target = u
        /\ Asked(desk[w], a, b)
        /\ a.role # b.role /\ {a.role, b.role} \cap AdminRoles # {}
             => desk[w].by = "SUPER_ADMIN"

\* A step of the accounts changes what an administrator asked to change.
LEMMA StepsAreAsked ==
  ASSUME AccountsInv, AccountsNext
  PROVE  ChangeIsAsked
<1> DEFINE Requested(u, a, b) ==
             \E w \in Workers :
               /\ desk[w].op \in {"status", "role"} /\ desk[w].target = u
               /\ Asked(desk[w], a, b)
               /\ a.role # b.role /\ {a.role, b.role} \cap AdminRoles # {}
                    => desk[w].by = "SUPER_ADMIN"
<1> SUFFICES ASSUME NEW u \in Existing,
                    acct'[u].role # acct[u].role \/ acct'[u].active # acct[u].active
             PROVE  Requested(u, acct[u], acct'[u])
  BY DEF ChangeIsAsked
<1>1. PICK w \in Workers : CommitEdit(w) /\ desk[w].target = u
  BY OnlyEditsChangeAccess
<1> DEFINE d == desk[w]
           row == Written(acct[u], d.loaded, Edited(d))
<1>2. /\ d \in Edit /\ acct[u] \in Account /\ row \in Account
      /\ d.op = "status" =>
           row.role = acct[u].role /\ (row.active # acct[u].active => (d.to = "on") = row.active)
      /\ d.op = "role" =>
           /\ row.active = acct[u].active
           /\ row.role # acct[u].role => row.role = d.to /\ d.to # d.loaded.role
  BY <1>1, EditedRow
<1>3. acct'[u] = row /\ d.op \in {"status", "role"} /\ d.target = u
  BY <1>1 DEF CommitEdit, AccountsInv, AccountsTypeOK, Existing
<1>4. d.op = "role" =>
        d.to \in Roles /\ ({d.loaded.role, d.to} \cap AdminRoles # {} => d.by = "SUPER_ADMIN")
  BY DEF AccountsInv, KeepsTrue
<1>5. d.loaded.role \in Roles
  BY <1>2 DEF Edit, Account
<1> HIDE DEF d, row
<1>6. row.role # acct[u].role => d.by = "SUPER_ADMIN"
  BY <1>2, <1>3, <1>4, <1>5 DEF Roles, AdminRoles
<1>7. Asked(d, acct[u], row)
  BY <1>2, <1>3 DEF Asked
<1> QED  BY <1>3, <1>6, <1>7 DEF d

\* Role and activity change only as an administrator asked for that account,
\* an administrator role only as a super admin asked.
THEOREM ChangesAreAsked == AccountsSpec => AccessChangesOnRequest
<1>1. AccountsInv /\ [AccountsNext]_accountVars => [ChangeIsAsked]_accountVars
  BY StepsAreAsked
<1> QED  BY <1>1, AccountsInvariant, PTL DEF AccountsSpec, AccessChangesOnRequest, ChangeIsAsked
=============================================================================
