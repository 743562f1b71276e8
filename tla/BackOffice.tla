----------------------------- MODULE BackOffice -----------------------------
(***************************************************************************)
(* The rows an administrator keeps: areas, ships and their routers,        *)
(* tenants, packages and subscribers.  Rows name each other, and are only  *)
(* marked as removed, so no foreign key keeps a row from being removed     *)
(* under another: each handler looks up what it relies on, then writes,    *)
(* in statements that those of other requests come between.                *)
(*                                                                         *)
(* SubscriberAccounts has what a subscriber's row means to FreeRADIUS, and *)
(* DeviceInventory what a router's means to the collectors.                *)
(***************************************************************************)
EXTENDS Integers, FiniteSets, Sequences

CONSTANTS
  Areas, Ships, Tenants, Packages, Subscribers,  \* rows that may be there
  None,      \* no row
  AreaOf,    \* area_id of each ship, which no handler changes
  CodeOf,    \* code of each tenant
  Price,     \* price_vnd of each package
  Requests,  \* requests handled at once
  Plans      \* bound: what a behaviour starts from and may do; a choice of several

\* Rows by kind and name.
Rows == (({"area"} \X Areas) \union ({"ship"} \X Ships) \union ({"router"} \X Ships)
          \union ({"tenant"} \X Tenants) \union ({"package"} \X Packages)
          \union ({"subscriber"} \X Subscribers))

Statuses == {"ACTIVE", "SUSPENDED", "EXPIRED"}

\* When a subscription ends, seen from the report: passed, soon or later.
Ends == {"passed", "soon", "later"}

Accounts == [tenant : Tenants, package : Packages, nas : Ships \union {None},
             status : Statuses, ends : Ends]

\* The rows that one with the given account names in its foreign keys, of those
\* that the reports join with it.
Relied(r, customer) ==
  CASE r[1] = "ship" -> {<<"area", AreaOf[r[2]]>>}
    [] r[1] = "router" -> {<<"ship", r[2]>>}
    [] r[1] = "subscriber" -> {<<"tenant", customer.tenant>>, <<"package", customer.package>>}
    [] OTHER -> {}

\* A behaviour starts from rows that have those they name.
ASSUME OfficeOK ==
  /\ None \notin Areas \union Ships \union Tenants \union Packages
  /\ AreaOf \in [Ships -> Areas] /\ DOMAIN CodeOf = Tenants /\ Price \in [Packages -> Nat]
  /\ \A p \in Plans :
       /\ {"rows", "customer", "accounts"} \subseteq DOMAIN p
       /\ p.rows \subseteq Rows /\ IsFiniteSet(p.rows)
       /\ p.customer \in Accounts /\ p.accounts \subseteq Accounts
       /\ \A r \in p.rows : Relied(r, p.customer) \subseteq p.rows
       /\ p.requests \in Nat /\ p.traffic \in Nat /\ p.overlap \in BOOLEAN

VARIABLES
  live,     \* rows that are there and not removed
  removed,  \* rows with deleted_at set
  above,    \* parent_id of each tenant
  account,  \* tenant, package, router, status and end of each subscriber
  req,      \* per request: its kind, the row it is about, the rows it names, its patch
  todo,     \* per request: the statements it still awaits
  plan,     \* what is left of the bound
  raced     \* rows that a request destroyed while another was about them (history)

officeVars == <<live, removed, above, account, req, todo, raced>>

Resting == [kind |-> "idle", row |-> <<>>, names |-> {}, patch |-> <<>>]
Busy(p) == req[p].kind # "idle"

Of(kind) == {r \in live : r[1] = kind}

InitOffice ==
  /\ plan \in Plans
  /\ live = plan.rows
  /\ removed = {}
  /\ above = [t \in Tenants |-> None]
  /\ account = [u \in Subscribers |-> plan.customer]
  /\ req = [p \in Requests |-> Resting]
  /\ todo = [p \in Requests |-> <<>>]
  /\ raced = {}

-----------------------------------------------------------------------------
(* Requests arrive, each with the statements it will await.                *)

\* Kinds that can take away what another request relies on.
Destroys(kind) == kind \in {"removeArea", "removeShip", "removeRouter", "removeTenant",
                            "removePackage", "assignZone"}

Admit(p, r, steps) ==
  /\ ~Busy(p)
  /\ plan.requests > 0 /\ r.kind \in plan.kinds
  /\ plan.overlap \/ \A q \in Requests : ~Busy(q)
  /\ plan' = [plan EXCEPT !.requests = @ - 1]
  /\ req' = [req EXCEPT ![p] = r]
  /\ todo' = [todo EXCEPT ![p] = steps]
  /\ raced' = raced \union UNION {r.names \intersect req[q].names : q \in
                {q \in Requests : Busy(q) /\ (Destroys(r.kind) \/ Destroys(req[q].kind))}}
  /\ UNCHANGED <<live, removed, above, account>>

About(kind, row, names, patch) ==
  [kind |-> kind, row |-> row, names |-> {row} \union {n \in names : n[2] # None}, patch |-> patch]

\* The look-up of a row that is there and not removed; none where none is named.
Find(row) == IF row[2] = None THEN <<>> ELSE << <<"find", row>> >>

CreateArea(p) == \E a \in Areas :
  Admit(p, About("createArea", <<"area", a>>, {}, None), << <<"insert">> >>)

\* Faulty variant: the ships of the area are not asked for.
RemoveAreaUnasked(p) == \E a \in Areas : LET row == <<"area", a>> IN
  Admit(p, About("removeArea", row, {}, None), Find(row) \o << <<"delete">> >>)

RemoveArea(p) == \E a \in Areas : LET row == <<"area", a>> IN
  Admit(p, About("removeArea", row, {}, None),
        Find(row) \o << <<"countShips">>, <<"delete">> >>)

\* A ship may be entered without a tenant; it is removed once it has no router.
CreateShip(p) == \E s \in Ships, t \in Tenants \union {None} :
  LET names == << <<"area", AreaOf[s]>>, <<"tenant", t>> >>
  IN Admit(p, About("createShip", <<"ship", s>>, {names[1], names[2]}, None),
           Find(names[1]) \o Find(names[2]) \o << <<"findCode">>, <<"insert">> >>)

RemoveShip(p) == \E s \in Ships : LET row == <<"ship", s>> IN
  Admit(p, About("removeShip", row, {}, None),
        Find(row) \o << <<"countRouters">>, <<"delete">> >>)

CreateRouter(p) == \E s \in Ships : LET ship == <<"ship", s>> IN
  Admit(p, About("createRouter", <<"router", s>>, {ship}, None),
        Find(ship) \o << <<"findCode">>, <<"insert">> >>)

RemoveRouter(p) == \E s \in Ships : LET row == <<"router", s>> IN
  Admit(p, About("removeRouter", row, {}, None), Find(row) \o << <<"delete">> >>)

CreateTenant(p) == \E t \in Tenants, parent \in Tenants \union {None} :
  LET over == <<"tenant", parent>>
  IN Admit(p, About("createTenant", <<"tenant", t>>, {over}, parent),
           Find(over) \o << <<"findCode">>, <<"insert">> >>)

\* Faulty variant: the subscribers of the tenant are not asked for.
RemoveTenantUnasked(p) == \E t \in Tenants : LET row == <<"tenant", t>> IN
  Admit(p, About("removeTenant", row, {}, None),
        Find(row) \o << <<"findChild">>, <<"delete">> >>)

RemoveTenant(p) == \E t \in Tenants : LET row == <<"tenant", t>> IN
  Admit(p, About("removeTenant", row, {}, None),
        Find(row) \o << <<"findChild">>, <<"findSubscriber">>, <<"delete">> >>)

CreatePackage(p) == \E k \in Packages :
  Admit(p, About("createPackage", <<"package", k>>, {}, None), << <<"insert">> >>)

RemovePackage(p) == \E k \in Packages : LET row == <<"package", k>> IN
  Admit(p, About("removePackage", row, {}, None),
        Find(row) \o << <<"findInUse">>, <<"delete">> >>)

CreateSubscriber(p) == \E u \in Subscribers, r \in plan.accounts :
  LET names == << <<"tenant", r.tenant>>, <<"package", r.package>>, <<"router", r.nas>> >>
  IN Admit(p, About("createSubscriber", <<"subscriber", u>>,
                    {names[1], names[2], names[3]}, [r EXCEPT !.status = "ACTIVE"]),
           Find(names[1]) \o Find(names[2]) \o Find(names[3]) \o << <<"findCode">>, <<"insert">> >>)

\* A patch of a subscriber's package, router, status or end.
UpdateSubscriber(p) == \E u \in Subscribers, r \in plan.accounts :
  LET row == <<"subscriber", u>>
      names == << <<"package", r.package>>, <<"router", r.nas>> >>
  IN \/ Admit(p, About("updateSubscriber", row, {names[1], names[2]},
                       [package |-> r.package, nas |-> r.nas]),
              Find(row) \o Find(names[1]) \o Find(names[2]) \o << <<"update">> >>)
     \/ Admit(p, About("updateSubscriber", row, {}, [status |-> r.status, ends |-> r.ends]),
              Find(row) \o << <<"update">> >>)

RemoveSubscriber(p) == \E u \in Subscribers : LET row == <<"subscriber", u>> IN
  Admit(p, About("removeSubscriber", row, {}, None), Find(row) \o << <<"delete">> >>)

-----------------------------------------------------------------------------
(* Statements.                                                             *)

Awaits(p, name) == todo[p] # <<>> /\ Head(todo[p])[1] = name

Refuse(p) ==
  /\ req' = [req EXCEPT ![p] = Resting]
  /\ todo' = [todo EXCEPT ![p] = <<>>]

GoOn(p) ==
  /\ todo' = [todo EXCEPT ![p] = Tail(@)]
  /\ req' = IF Len(todo[p]) = 1 THEN [req EXCEPT ![p] = Resting] ELSE req

Guarded(p, ok) == IF ok THEN GoOn(p) ELSE Refuse(p)

ShipsOf(a) == {r \in Of("ship") : AreaOf[r[2]] = a}
RoutersOf(s) == {r \in Of("router") : r[2] = s}
Children(t) == {r \in Of("tenant") : above[r[2]] = t}
HeldBy(field, x) == {r \in Of("subscriber") : account[r[2]][field] = x}

\* What a look-up before a write requires: nothing depends on the row, or (a
\* tenant's code among the live ones) nothing has its name.
Loose(name, row) ==
  CASE name = "countShips" -> ShipsOf(row[2]) = {}
    [] name = "countRouters" -> RoutersOf(row[2]) = {}
    [] name = "findChild" -> Children(row[2]) = {}
    [] name = "findSubscriber" -> HeldBy("tenant", row[2]) = {}
    [] name = "findInUse" -> HeldBy("package", row[2]) = {}
    [] name = "findCode" -> row \notin live /\ (row[1] = "tenant" =>
                              \A r \in Of("tenant") : CodeOf[r[2]] # CodeOf[row[2]])
    [] OTHER -> TRUE

FindRow(p) ==
  /\ Awaits(p, "find")
  /\ Guarded(p, Head(todo[p])[2] \in live)
  /\ UNCHANGED <<live, removed, above, account, plan, raced>>

Check(p) == \E name \in {"countShips", "countRouters", "findChild", "findSubscriber",
                         "findInUse", "findCode"} :
  /\ Awaits(p, name)
  /\ Guarded(p, Loose(name, req[p].row))
  /\ UNCHANGED <<live, removed, above, account, plan, raced>>

\* The unique indexes cover removed rows too: a name is never used again.  The
\* index of areas does not stop those of no organisation.
Insert(p) ==
  LET row == req[p].row
      taken == \/ row \in live \union removed
               \/ row[1] = "tenant" /\ \E r \in live \union removed :
                    r[1] = "tenant" /\ CodeOf[r[2]] = CodeOf[row[2]]
  IN /\ Awaits(p, "insert")
     /\ IF taken
          THEN Refuse(p) /\ UNCHANGED <<live, above, account>>
          ELSE /\ live' = live \union {row}
               /\ above' = IF row[1] = "tenant" THEN [above EXCEPT ![row[2]] = req[p].patch] ELSE above
               /\ account' = IF row[1] = "subscriber"
                               THEN [account EXCEPT ![row[2]] = req[p].patch] ELSE account
               /\ GoOn(p)
     /\ UNCHANGED <<removed, plan, raced>>

\* By primary key: the row may have been removed since it was looked up.
Update(p) ==
  LET row == req[p].row
      patch == req[p].patch
  IN /\ Awaits(p, "update")
     /\ account' = [account EXCEPT ![row[2]] =
                      [f \in DOMAIN @ |-> IF f \in DOMAIN patch THEN patch[f] ELSE @[f]]]
     /\ GoOn(p)
     /\ UNCHANGED <<live, removed, above, plan, raced>>

Delete(p) ==
  /\ Awaits(p, "delete")
  /\ live' = live \ {req[p].row}
  /\ removed' = removed \union {req[p].row}
  /\ GoOn(p)
  /\ UNCHANGED <<above, account, plan, raced>>

Arrive(p) ==
  \/ CreateArea(p) \/ RemoveArea(p) \/ CreateShip(p) \/ RemoveShip(p) \/ CreateRouter(p)
  \/ RemoveRouter(p) \/ CreateTenant(p) \/ RemoveTenant(p) \/ CreatePackage(p)
  \/ RemovePackage(p) \/ CreateSubscriber(p)
  \/ UpdateSubscriber(p) \/ RemoveSubscriber(p)

Statement(p) == FindRow(p) \/ Check(p) \/ Insert(p) \/ Update(p) \/ Delete(p)

-----------------------------------------------------------------------------
(* What the portal shows of the rows.                                      *)

\* getGlobal; list and getById of areas and ships.
Totals == [areas |-> Cardinality(Of("area")), ships |-> Cardinality(Of("ship")),
           routers |-> Cardinality(Of("router"))]
ShipCount(a) == Cardinality(ShipsOf(a))
RouterCount(s) == Cardinality(RoutersOf(s))

=============================================================================
