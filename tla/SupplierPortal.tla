--------------------------- MODULE SupplierPortal ---------------------------
(***************************************************************************)
(* Who may answer for a supplier (birthday-api): administrators keep the   *)
(* supplier users, each bound to one supplier; a user signs in for a token *)
(* of some hours, and every request of the supplier portal looks its row   *)
(* up again.  An administrator's request loads the row in one step and     *)
(* writes the columns it changed in a later one.                           *)
(***************************************************************************)
EXTENDS BirthdaySuppliers

CONSTANTS
  Contacts,    \* the ids of supplier users
  Mails,       \* their e-mail addresses
  Identities,  \* object ids of Entra guests
  NoIdentity

ASSUME IdentityAssumption == NoIdentity \notin Identities

VARIABLES
  contact,   \* the supplier_users table
  form,      \* the supplier user each administrator is editing
  signedIn,  \* who holds a token of the portal
  visit,     \* for whom the portal request in progress of a user acts
  off        \* whom the last request about their status deactivated

portal == <<contact, form, signedIn, visit, off>>

Contact ==
  [supplier : Suppliers, active : BOOLEAN, mail : Mails, oid : Identities \cup {NoIdentity}]

NoForm == [on |-> "none"]

Form == [on : Contacts, loaded : Contact \cup {Absent}, copy : Contact]

PortalTypeOK ==
  /\ contact \in [Contacts -> Contact \cup {Absent}]
  /\ form \in [Admins -> Form \cup {NoForm}]
  /\ signedIn \subseteq Contacts
  /\ visit \in [Contacts -> Suppliers \cup {NoSupplier}]
  /\ off \subseteq Contacts

PortalInit ==
  /\ contact = [u \in Contacts |-> Absent]
  /\ form = [w \in Admins |-> NoForm]
  /\ signedIn = {}
  /\ visit = [u \in Contacts |-> NoSupplier]
  /\ off = {}

-----------------------------------------------------------------------------

Registered == {u \in Contacts : contact[u] # Absent}

Taken(u, mail) == \E v \in Registered \ {u} : contact[v].mail = mail

Linked(u, oid) == \E v \in Registered \ {u} : oid # NoIdentity /\ contact[v].oid = oid

Open(w, u, copy) ==
  /\ form[w] = NoForm
  /\ edits < MaxEdits
  /\ form' = [form EXCEPT ![w] = [on |-> u, loaded |-> contact[u], copy |-> copy]]
  /\ edits' = edits + 1
  /\ UNCHANGED <<supplier, cake, location, admin, overlapped, contact, signedIn, visit, off>>

\* create_supplier_user, to its commit.
CreateContact(w, u, s, mail, active) ==
  /\ contact[u] = Absent
  /\ supplier[s] # Absent
  /\ ~Taken(u, mail)
  /\ Open(w, u, [supplier |-> s, active |-> active, mail |-> mail, oid |-> NoIdentity])

\* update_supplier_user, to its commit: anything but the supplier.
UpdateContact(w, u, copy) ==
  /\ contact[u] # Absent /\ copy.supplier = contact[u].supplier
  /\ copy.mail # contact[u].mail => ~Taken(u, copy.mail)
  /\ copy.oid # contact[u].oid => ~Linked(u, copy.oid)
  /\ Open(w, u, copy)

\* Mutant: every column is written.
WholeRow(u, f) == f.copy

\* The row after the INSERT, or the UPDATE of the columns that changed.
Saved(u, f) ==
  IF f.loaded = Absent THEN f.copy
  ELSE [c \in DOMAIN f.copy |-> IF f.copy[c] # f.loaded[c] THEN f.copy[c] ELSE contact[u][c]]

Close(w) ==
  /\ form' = [form EXCEPT ![w] = NoForm]
  /\ UNCHANGED <<suppliers, signedIn, visit>>

\* The commit, if no other row took the address or the identity meanwhile;
\* off goes by the changes of status that were asked for.
CommitContact(w) ==
  LET f == form[w] u == form[w].on
  IN  /\ f # NoForm
      /\ f.loaded = Absent => contact[u] = Absent
      /\ ~Taken(u, Saved(u, f).mail) /\ ~Linked(u, Saved(u, f).oid)
      /\ contact' = [contact EXCEPT ![u] = Saved(u, f)]
      /\ off' = CASE f.loaded # Absent /\ f.copy.active = f.loaded.active -> off
                  [] f.copy.active /\ (f.loaded = Absent \/ ~f.loaded.active) -> off \ {u}
                  [] OTHER -> off \cup {u}
      /\ Close(w)

\* A unique key was violated, or the request died.
DropContact(w) ==
  /\ form[w] # NoForm
  /\ Close(w)
  /\ UNCHANGED <<contact, off>>

\* dev_supplier_login.
SignIn(u) ==
  /\ contact[u] # Absent /\ contact[u].active
  /\ signedIn' = signedIn \cup {u}
  /\ UNCHANGED <<suppliers, contact, form, visit, off>>

ExpireToken(u) ==
  /\ u \in signedIn
  /\ signedIn' = signedIn \ {u}
  /\ UNCHANGED <<suppliers, contact, form, visit, off>>

\* get_supplier_scope: the token selects the row, the row decides.
InScope(u) == u \in signedIn /\ contact[u].active

\* A portal request, admitted and then answered.
Visit(u) ==
  /\ InScope(u)
  /\ visit[u] = NoSupplier
  /\ visit' = [visit EXCEPT ![u] = contact[u].supplier]
  /\ UNCHANGED <<suppliers, contact, form, signedIn, off>>

Respond(u) ==
  /\ visit[u] # NoSupplier
  /\ visit' = [visit EXCEPT ![u] = NoSupplier]
  /\ UNCHANGED <<suppliers, contact, form, signedIn, off>>

PortalNext ==
  \/ \E w \in Admins, u \in Contacts :
       \/ \E s \in Suppliers, mail \in Mails, active \in BOOLEAN :
            CreateContact(w, u, s, mail, active)
       \/ \E copy \in Contact : UpdateContact(w, u, copy)
  \/ \E w \in Admins : CommitContact(w) \/ DropContact(w)
  \/ \E u \in Contacts : SignIn(u) \/ ExpireToken(u) \/ Visit(u) \/ Respond(u)

-----------------------------------------------------------------------------

\* Whoever was deactivated begins no portal request until a later request
\* activates them, whatever tokens they hold and whatever edits of the same
\* row were under way (get_supplier_scope: "must lose portal access
\* immediately, not only once their token expires").
DeactivatedStayOut ==
  [][\A u \in off : visit'[u] # visit[u] => visit'[u] = NoSupplier]_portal
=============================================================================
