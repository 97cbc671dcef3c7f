------------------------- MODULE BirthdaySuppliers -------------------------
(***************************************************************************)
(* The suppliers of the cakes (birthday-api): administrators keep the      *)
(* suppliers, the offices they serve and their cakes, at most one supplier *)
(* and one cake of each the default; detection resolves from them whom an  *)
(* order goes to and which cake it is for.  No constraint of the database  *)
(* keeps the defaults single: each request that sets one clears the others *)
(* that it has read.                                                       *)
(***************************************************************************)
EXTENDS Naturals, FiniteSets

CONSTANTS
  Suppliers, NoSupplier,
  Cakes, NoCake,  \* the catalogue items of a supplier
  Places,         \* the office locations suppliers are mapped to
  Admins,         \* requests handled at the same time
  LeadTimes,      \* lead times that occur, in days
  MaxEdits        \* bound: requests of administrators

ASSUME SupplierAssumption == NoSupplier \notin Suppliers /\ NoCake \notin Cakes

ASSUME EditsAssumption == LeadTimes \subseteq Nat /\ MaxEdits \in Nat

VARIABLES
  supplier,  \* the suppliers table
  cake,      \* the supplier_catalogue_items table
  location,  \* the supplier_locations table: who serves an office
  admin,     \* the request each administrator makes
  edits,     \* counted against the bound
  overlapped \* have two requests that set a default overlapped?

suppliers == <<supplier, cake, location, admin, edits, overlapped>>

Absent == [absent |-> TRUE]

Supplier == [active : BOOLEAN, default : BOOLEAN, lead : LeadTimes]

Cake == [active : BOOLEAN, default : BOOLEAN]

NoRequest == [op |-> "none"]

\* A request: the row it loaded, its copy, and the rows it read as defaults.
Request ==
  [op : {"supplier"}, on : Suppliers, loaded : Supplier \cup {Absent}, copy : Supplier,
   others : SUBSET Suppliers, asDefault : BOOLEAN]
    \cup [op : {"cake"}, on : Suppliers, of : Cakes, loaded : Cake \cup {Absent}, copy : Cake,
          others : SUBSET Cakes, asDefault : BOOLEAN]

SuppliersTypeOK ==
  /\ supplier \in [Suppliers -> Supplier \cup {Absent}]
  /\ cake \in [Suppliers \X Cakes -> Cake \cup {Absent}]
  /\ location \in [Places -> Suppliers \cup {NoSupplier}]
  /\ admin \in [Admins -> Request \cup {NoRequest}]
  /\ edits \in 0 .. MaxEdits
  /\ overlapped \in BOOLEAN

SuppliersInit ==
  /\ supplier = [s \in Suppliers |-> Absent]
  /\ cake = [i \in Suppliers \X Cakes |-> Absent]
  /\ location = [o \in Places |-> NoSupplier]
  /\ admin = [w \in Admins |-> NoRequest]
  /\ edits = 0
  /\ overlapped = FALSE

-----------------------------------------------------------------------------

Enter(w, r) ==
  /\ admin[w] = NoRequest
  /\ edits < MaxEdits
  /\ admin' = [admin EXCEPT ![w] = r]
  /\ edits' = edits + 1
  /\ UNCHANGED <<supplier, cake, location, overlapped>>

\* The row once the request's copy is flushed: an INSERT, or an UPDATE of the
\* columns that differ from what it loaded.
Flush(row, r) ==
  IF r.loaded = Absent THEN r.copy
  ELSE [c \in DOMAIN row |-> IF r.copy[c] # r.loaded[c] THEN r.copy[c] ELSE row[c]]

Defaults(rows) == {k \in DOMAIN rows : rows[k] # Absent /\ rows[k].default}

\* Mutant: only a new default clears the others.
OthersOfNew(rows, k, asDefault) ==
  IF asDefault /\ rows[k] = Absent THEN Defaults(rows) \ {k} ELSE {}

\* clear_default_except, _clear_default_catalogue_item: the rows they read.
Others(rows, k, asDefault) == IF asDefault THEN Defaults(rows) \ {k} ELSE {}

CakesOf(s) == [c \in Cakes |-> cake[<<s, c>>]]

\* create_supplier and update_supplier, to the clearing of the other defaults.
EditSupplier(w, s, copy, asDefault) ==
  /\ asDefault => copy.default
  /\ supplier[s] = Absent \/ (copy.default /\ ~supplier[s].default) => asDefault = copy.default
  /\ Enter(w, [op |-> "supplier", on |-> s, loaded |-> supplier[s], copy |-> copy,
               others |-> Others(supplier, s, asDefault), asDefault |-> asDefault])

\* add_catalogue_item and update_catalogue_item.
EditCake(w, s, c, copy, asDefault) ==
  /\ supplier[s] # Absent
  /\ asDefault => copy.default
  /\ cake[<<s, c>>] = Absent \/ (copy.default /\ ~cake[<<s, c>>].default) => asDefault = copy.default
  /\ Enter(w, [op |-> "cake", on |-> s, of |-> c, loaded |-> cake[<<s, c>>], copy |-> copy,
               others |-> Others(CakesOf(s), c, asDefault), asDefault |-> asDefault])

\* Does another request in progress set a default in the same place?
Rivals(w) ==
  \E v \in Admins \ {w} :
    /\ admin[v].op = admin[w].op
    /\ admin[v].asDefault /\ admin[w].asDefault
    /\ admin[w].op = "cake" => admin[v].on = admin[w].on

Leave(w) ==
  /\ admin' = [admin EXCEPT ![w] = NoRequest]
  /\ UNCHANGED edits

CommitSupplier(w) ==
  LET r == admin[w]
  IN  /\ r.op = "supplier"
      /\ r.loaded = Absent => supplier[r.on] = Absent
      /\ supplier' = [s \in Suppliers |->
           CASE s = r.on     -> Flush(supplier[s], r)
             [] s \in r.others -> [supplier[s] EXCEPT !.default = FALSE]
             [] OTHER        -> supplier[s]]
      /\ overlapped' = (overlapped \/ Rivals(w))
      /\ Leave(w)
      /\ UNCHANGED <<cake, location>>

CommitCake(w) ==
  LET r == admin[w]
  IN  /\ r.op = "cake"
      /\ r.loaded = Absent => cake[<<r.on, r.of>>] = Absent
      /\ cake' = [i \in Suppliers \X Cakes |->
           CASE i = <<r.on, r.of>> -> Flush(cake[i], r)
             [] i[1] = r.on /\ i[2] \in r.others -> [cake[i] EXCEPT !.default = FALSE]
             [] OTHER -> cake[i]]
      /\ overlapped' = (overlapped \/ Rivals(w))
      /\ Leave(w)
      /\ UNCHANGED <<supplier, location>>

\* The request dies, or its commit fails, before anything is written.
Drop(w) ==
  /\ admin[w] # NoRequest
  /\ Leave(w)
  /\ UNCHANGED <<supplier, cake, location, overlapped>>

\* add_location: an office has one supplier, by the unique key.
AddLocation(s, o) ==
  /\ edits < MaxEdits
  /\ supplier[s] # Absent
  /\ location[o] = NoSupplier
  /\ location' = [location EXCEPT ![o] = s]
  /\ edits' = edits + 1
  /\ UNCHANGED <<supplier, cake, admin, overlapped>>

SuppliersNext ==
  \/ \E w \in Admins, s \in Suppliers, asDefault \in BOOLEAN :
       \/ \E copy \in Supplier : EditSupplier(w, s, copy, asDefault)
       \/ \E c \in Cakes, copy \in Cake : EditCake(w, s, c, copy, asDefault)
  \/ \E w \in Admins : CommitSupplier(w) \/ CommitCake(w) \/ Drop(w)
  \/ \E s \in Suppliers, o \in Places : AddLocation(s, o)

-----------------------------------------------------------------------------
\* What detection makes of them

ActiveSuppliers == {s \in Suppliers : supplier[s] # Absent /\ supplier[s].active}

\* resolve_supplier_for_office: the only active supplier, else the one of the
\* office, else a default; first() takes any of those the query finds.
Resolved(office) ==
  LET here     == {s \in ActiveSuppliers : office \in Places /\ location[office] = s}
      defaults == {s \in ActiveSuppliers : supplier[s].default}
  IN  CASE Cardinality(ActiveSuppliers) = 1 -> ActiveSuppliers
        [] Cardinality(ActiveSuppliers) # 1 /\ here # {} -> here
        [] Cardinality(ActiveSuppliers) # 1 /\ here = {} /\ defaults # {} -> defaults
        [] OTHER -> {NoSupplier}

\* resolve_default_catalogue_item: the default among the active cakes, or the
\* only one there is.
DefaultCakes(s) ==
  LET offered  == {c \in Cakes : cake[<<s, c>>] # Absent /\ cake[<<s, c>>].active}
      defaults == {c \in offered : cake[<<s, c>>].default}
  IN  CASE Cardinality(defaults) = 1 -> defaults
        [] Cardinality(defaults) # 1 /\ Cardinality(offered) = 1 -> offered
        [] OTHER -> {NoCake}

-----------------------------------------------------------------------------

\* Unless two requests that set a default overlapped, whom an order goes to
\* does not depend on the order of the rows, and no supplier's default cake
\* becomes ambiguous by a new default ("Deterministic supplier resolution",
\* resolve_supplier_for_office; "at most one supplier may hold this flag").
ResolutionIsDetermined ==
  ~overlapped =>
    /\ \A o \in Places : Cardinality(Resolved(o)) = 1
    /\ \A s \in Suppliers : Cardinality(Defaults(CakesOf(s))) <= 1
=============================================================================
