------------------------- MODULE SubscriberAccounts -------------------------
(***************************************************************************)
(* Subscriber accounts in two databases.  The portal keeps the subscriber  *)
(* rows in the control database and, with RADIUS_MODE=freeradius, pushes   *)
(* what decides a login to the tables FreeRADIUS reads: radcheck holds the *)
(* password, the Reject of a blocked account and its expiry, radreply the  *)
(* rate limit of its package.                                              *)
(*                                                                         *)
(* No transaction spans a request, still less the two databases: a request *)
(* is a sequence of statements that commit alone, requests interleave, and *)
(* any statement may fail, which leaves the ones before it in place.       *)
(***************************************************************************)
EXTENDS Naturals, Sequences

CONSTANTS
  Subscribers,  \* subscriber rows, one per (tenant, username) for ever
  UserOf,       \* their usernames: two tenants may use the same one
  Packages,     \* packages a row may be assigned to
  Blocked,      \* statuses other than ACTIVE
  Requests,     \* requests handled at once
  MaxRequests,  \* bound: requests in all
  MaxFaults     \* bound: failed statements

ASSUME AccountsOK ==
  /\ DOMAIN UserOf = Subscribers
  /\ "ACTIVE" \notin Blocked /\ "none" \notin Packages
  /\ MaxRequests \in Nat
  /\ MaxFaults \in Nat

Statuses == Blocked \union {"ACTIVE"}
Users == {UserOf[s] : s \in Subscribers}

\* A row.  Its password is 0 when there is none; passwords and expiry dates
\* are numbered by the request that sets them.
Accounts == [state : {"absent", "live", "removed"}, status : Statuses,
             password : Nat, expires : Nat, package : Packages]

VARIABLES
  row,        \* subscribers
  rate,       \* up_mbps/down_mbps of each package, as one number
  removed,    \* packages with deleted_at set
  aaa,        \* radcheck and radreply: the values per username and attribute
  req,        \* per request: kind, subscribers, package, patch, its copy of the row
  todo,       \* the statements it still awaits
  begun,      \* requests so far
  faults,     \* failed statements so far
  disturbed,  \* subscribers whose push overlapped another or failed (history)
  clean,      \* requests no other of their username has overlapped (history)
  raced       \* packages whose removal ran beside a request about them (history)

vars == <<row, rate, removed, aaa, req, todo, begun, faults, disturbed, clean, raced>>

Attributes == {"Cleartext-Password", "Auth-Type", "Expiration", "Rate-Limit"}

Idle == [kind |-> "idle", subs |-> {}, package |-> "none"]

Busy(p) == req[p].kind # "idle"

\* What FreeRADIUS has to hold for a row: the password opens the account, an
\* Auth-Type of Reject closes it again without forgetting the password.
Entitlement(r) ==
  [a \in Attributes |->
     IF r.state # "live" \/ r.password = 0 THEN {}
     ELSE CASE a = "Cleartext-Password" -> {r.password}
            [] a = "Auth-Type" -> IF r.status = "ACTIVE" THEN {} ELSE {0}
            [] a = "Expiration" -> {r.expires}
            [] a = "Rate-Limit" -> {rate[r.package]}]

\* The passwords that open an account, each with the time until which it does:
\* handleAccessRequest, which the portal answers itself with RADIUS_MODE=internal
\* (it refuses an exhausted quota as well, which FreeRADIUS is not told)...
Opens(r) ==
  IF r.state = "live" /\ r.password # 0 /\ r.status = "ACTIVE"
  THEN {<<r.password, r.expires>>} ELSE {}

\* ... and FreeRADIUS, by its tables (0: for ever).
FreeradiusOpens(held) ==
  IF held["Auth-Type"] # {} THEN {}
  ELSE held["Cleartext-Password"]
         \X (IF held["Expiration"] = {} THEN {0} ELSE held["Expiration"])

RowsOf(u) == {s \in Subscribers : UserOf[s] = u}

\* The other rows that share the username of s.
Namesakes(s) == RowsOf(UserOf[s]) \ {s}

\* Every row is absent, or was created and pushed; no username is used twice.
Init ==
  /\ rate = [k \in Packages |-> 1]
  /\ \E live \in SUBSET Subscribers, k \in Packages :
       /\ \A s, t \in live : UserOf[s] = UserOf[t] => s = t
       /\ row = [s \in Subscribers |->
            [state |-> IF s \in live THEN "live" ELSE "absent", status |-> "ACTIVE",
             password |-> IF s \in live THEN 1 ELSE 0, expires |-> 1, package |-> k]]
       /\ disturbed = UNION {Namesakes(s) : s \in live}
  /\ aaa = [u \in Users |->
              [a \in Attributes |-> UNION {Entitlement(row[s])[a] : s \in RowsOf(u)}]]
  /\ removed = {}
  /\ req = [p \in Requests |-> Idle]
  /\ todo = [p \in Requests |-> <<>>]
  /\ begun = 1
  /\ faults = 0
  /\ clean = {}
  /\ raced = {}

-----------------------------------------------------------------------------
(* Requests arrive, each with the statements it will await.                *)

Fresh == begun + 1

\* A removal of a package and another request about it that runs beside it.
Races(r) == {k \in Packages : r.package = k /\ \E q \in Requests :
               req[q].package = k /\ "removePackage" \in {r.kind, req[q].kind}}

Admit(p, r, steps) ==
  /\ ~Busy(p)
  /\ begun < MaxRequests
  /\ begun' = begun + 1
  /\ req' = [req EXCEPT ![p] = r]
  /\ todo' = [todo EXCEPT ![p] = steps]
  /\ raced' = raced \union Races(r)
  /\ UNCHANGED <<row, rate, removed, aaa, faults>>

\* Requests in flight about the username of s.
Rivals(s) == {q \in Requests : \E t \in req[q].subs : UserOf[t] = UserOf[s]}

\* A request about one subscriber shares the attributes in FreeRADIUS with
\* the requests in flight about its username, and with its namesakes.
AdmitOne(p, kind, s, k, patch, steps) ==
  /\ Admit(p, [kind |-> kind, subs |-> {s}, package |-> k, patch |-> patch, copy |-> row[s]],
           steps)
  /\ disturbed' = disturbed \union Namesakes(s)
                    \union IF Rivals(s) = {} THEN {} ELSE {s}
  /\ clean' = IF Rivals(s) = {} THEN clean \union {p} ELSE clean \ Rivals(s)

\* A request that pushes nothing.
AdmitPlain(p, r, steps) == Admit(p, r, steps) /\ UNCHANGED <<disturbed, clean>>

Create(p, s) == \E k \in Packages :
  AdmitOne(p, "create", s, k,
    [state |-> "live", status |-> "ACTIVE", password |-> Fresh, expires |-> Fresh, package |-> k],
    << <<"assertPackage">>, <<"findExisting">>, <<"insertRow">>, <<"readPackage">> >>)

\* PATCH of one field a login depends on.
Update(p, s) ==
  \/ \E k \in Packages :
       AdmitOne(p, "update", s, k, [package |-> k],
         << <<"findOwned">>, <<"assertPackage">>, <<"updateRow">>, <<"readPackage">> >>)
  \/ \E patch \in [status : Statuses] \union [expires : {Fresh}] :
       AdmitOne(p, "update", s, "none", patch,
         << <<"findOwned">>, <<"updateRow">>, <<"readPackage">> >>)

SetPassword(p, s) ==
  AdmitOne(p, "setPassword", s, "none", [password |-> Fresh],
    << <<"findOwned">>, <<"updateRow">>, <<"readPackage">> >>)

\* The row, then removeSubscriber: the attributes of the username, one table
\* after the other.
Withdrawal ==
  << <<"findOwned">>, <<"updateRow">>, <<"deleteUser", "radcheck">>, <<"deleteUser", "radreply">> >>

RevokePassword(p, s) == AdmitOne(p, "revokePassword", s, "none", [password |-> 0], Withdrawal)

Remove(p, s) == AdmitOne(p, "remove", s, "none", [state |-> "removed"], Withdrawal)

\* Assigns a package to many rows in one UPDATE, and pushes nothing.
BulkAssign(p, S, k) ==
  AdmitPlain(p, [kind |-> "bulkAssign", subs |-> {}, package |-> k, rows |-> S],
    << <<"assertPackage">>, <<"updateRows">> >>)

UpdatePackage(p, k) ==
  AdmitPlain(p, [kind |-> "updatePackage", subs |-> {}, package |-> k],
    << <<"assertPackage">>, <<"updatePackage">> >>)

RemovePackage(p, k) ==
  AdmitPlain(p, [kind |-> "removePackage", subs |-> {}, package |-> k],
    << <<"assertPackage">>, <<"findInUse">>, <<"deletePackage">> >>)

-----------------------------------------------------------------------------
(* Statements.                                                             *)

Awaits(p, name) == todo[p] # <<>> /\ Head(todo[p])[1] = name

\* The request is answered with an error.
Refuse(p) ==
  /\ req' = [req EXCEPT ![p] = Idle]
  /\ todo' = [todo EXCEPT ![p] = <<>>]
  /\ clean' = clean \ {p}
  /\ UNCHANGED disturbed

\* A push that no rival overlapped, of all the attributes, mends earlier ones.
Whole(p) == p \in clean /\ req[p].kind # "update"

\* The request goes on with its next statements, or is done.
Proceed(p, r, rest) ==
  IF rest = <<>>
    THEN /\ req' = [req EXCEPT ![p] = Idle]
         /\ todo' = [todo EXCEPT ![p] = <<>>]
         /\ clean' = clean \ {p}
         /\ disturbed' = IF Whole(p) THEN disturbed \ r.subs ELSE disturbed
    ELSE /\ req' = [req EXCEPT ![p] = r]
         /\ todo' = [todo EXCEPT ![p] = rest]
         /\ UNCHANGED <<disturbed, clean>>

Next1(p) == Proceed(p, req[p], Tail(todo[p]))

Guarded(p, ok) == IF ok THEN Next1(p) ELSE Refuse(p)

\* Faulty variant: a package is looked up without regard to deleted_at.
PackageFoundAny(k) == TRUE

PackageFound(k) == k \notin removed

AssertPackage(p) ==
  /\ Awaits(p, "assertPackage")
  /\ Guarded(p, PackageFound(req[p].package))
  /\ UNCHANGED <<row, rate, removed, aaa, begun, faults, raced>>

\* The look-up for a conflict sees live rows only.
FindExisting(p) ==
  /\ Awaits(p, "findExisting")
  /\ Guarded(p, \A s \in req[p].subs : row[s].state # "live")
  /\ UNCHANGED <<row, rate, removed, aaa, begun, faults, raced>>

FindOwned(p) ==
  /\ Awaits(p, "findOwned")
  /\ \E s \in req[p].subs :
       IF row[s].state = "live"
         THEN Proceed(p, [req[p] EXCEPT !.copy = row[s]], Tail(todo[p]))
         ELSE Refuse(p)
  /\ UNCHANGED <<row, rate, removed, aaa, begun, faults, raced>>

Patched(r, patch) == [f \in DOMAIN r |-> IF f \in DOMAIN patch THEN patch[f] ELSE r[f]]

\* INSERT: the unique index covers removed rows too, so the name of one
\* cannot be used again.
InsertRow(p) ==
  /\ Awaits(p, "insertRow")
  /\ \E s \in req[p].subs :
       IF row[s].state = "absent"
         THEN /\ row' = [row EXCEPT ![s] = req[p].patch]
              /\ Proceed(p, [req[p] EXCEPT !.copy = req[p].patch], Tail(todo[p]))
         ELSE /\ Refuse(p)
              /\ UNCHANGED row
  /\ UNCHANGED <<rate, removed, aaa, begun, faults, raced>>

\* UPDATE by primary key, of a row that may have been removed meanwhile.  An
\* update pushes the row it returns, setPassword the row it had found.
UpdateRow(p) ==
  /\ Awaits(p, "updateRow")
  /\ \E s \in req[p].subs :
       /\ row' = [row EXCEPT ![s] = Patched(@, req[p].patch)]
       /\ Proceed(p, [req[p] EXCEPT !.copy = IF req[p].kind = "update" THEN row'[s] ELSE @],
                  Tail(todo[p]))
  /\ UNCHANGED <<rate, removed, aaa, begun, faults, raced>>

UpdateRows(p) ==
  /\ Awaits(p, "updateRows")
  /\ row' = [s \in Subscribers |->
               IF s \in req[p].rows /\ row[s].state = "live"
                 THEN [row[s] EXCEPT !.package = req[p].package] ELSE row[s]]
  /\ Next1(p)
  /\ UNCHANGED <<rate, removed, aaa, begun, faults, raced>>

\* setAttr deletes, then inserts; clearAttr deletes.
SetAttr(a) == << <<"deleteAttr", a>>, <<"insertAttr", a>> >>
ClearAttr(a) == << <<"deleteAttr", a>> >>

\* upsertSubscriber, from each of its attributes on: expires_at and both rates
\* are never null.
FromRate == SetAttr("Rate-Limit")
FromExpiration == SetAttr("Expiration") \o FromRate

\* Faulty variant: a blocked account is never closed.
FromAuthTypeOpen(standing) == ClearAttr("Auth-Type") \o FromExpiration

FromAuthType(standing) ==
  (IF standing = "ACTIVE" THEN ClearAttr("Auth-Type") ELSE SetAttr("Auth-Type")) \o FromExpiration
FromPassword(standing) == SetAttr("Cleartext-Password") \o FromAuthType(standing)

Push(r, withPassword) ==
  IF withPassword THEN FromPassword(r.status) ELSE FromAuthType(r.status)

\* syncToFreeradius: the package is read, then the copy of the row is pushed.
ReadPackage(p) ==
  LET withPassword == "password" \in DOMAIN req[p].patch
      r == Patched(req[p].copy, IF withPassword THEN [password |-> req[p].patch.password] ELSE <<>>)
  IN /\ Awaits(p, "readPackage")
     /\ Proceed(p, [req[p] EXCEPT !.copy = [f \in DOMAIN r \union {"rate"} |->
                                              IF f = "rate" THEN rate[r.package] ELSE r[f]]],
                Push(r, withPassword))
     /\ UNCHANGED <<row, rate, removed, aaa, begun, faults, raced>>

Value(r, a) == CASE a = "Cleartext-Password" -> r.password
                 [] a = "Auth-Type" -> 0
                 [] a = "Expiration" -> r.expires
                 [] a = "Rate-Limit" -> r.rate

Pushed(p, values) ==
  \E s \in req[p].subs : aaa' = [aaa EXCEPT ![UserOf[s]] = [a \in Attributes |-> values[a]]]

Held(p) == aaa[UserOf[CHOOSE s \in req[p].subs : TRUE]]

DeleteAttr(p) ==
  /\ Awaits(p, "deleteAttr")
  /\ Pushed(p, [Held(p) EXCEPT ![Head(todo[p])[2]] = {}])
  /\ Next1(p)
  /\ UNCHANGED <<row, rate, removed, begun, faults, raced>>

\* radcheck is unique on (username, attribute, op), radreply is not: of two
\* overlapping pushes the second insert fails there and doubles the row here.
InsertAttr(p) ==
  LET a == Head(todo[p])[2]
  IN /\ Awaits(p, "insertAttr")
     /\ IF a = "Rate-Limit" \/ Held(p)[a] = {}
          THEN /\ Pushed(p, [Held(p) EXCEPT ![a] = @ \union {Value(req[p].copy, a)}])
               /\ Next1(p)
          ELSE /\ Refuse(p)
               /\ UNCHANGED aaa
     /\ UNCHANGED <<row, rate, removed, begun, faults, raced>>

Table(a) == IF a = "Rate-Limit" THEN "radreply" ELSE "radcheck"

DeleteUser(p) ==
  /\ Awaits(p, "deleteUser")
  /\ Pushed(p, [a \in Attributes |-> IF Table(a) = Head(todo[p])[2] THEN {} ELSE Held(p)[a]])
  /\ Next1(p)
  /\ UNCHANGED <<row, rate, removed, begun, faults, raced>>

WritePackage(p) ==
  /\ Awaits(p, "updatePackage")
  /\ rate' = [rate EXCEPT ![req[p].package] = begun]
  /\ Next1(p)
  /\ UNCHANGED <<row, removed, aaa, begun, faults, raced>>

\* Faulty variant: the look-up counts rows of ACTIVE subscribers only.
InUseIfActive(k) ==
  \E s \in Subscribers : row[s].state = "live" /\ row[s].status = "ACTIVE" /\ row[s].package = k

InUse(k) == \E s \in Subscribers : row[s].state = "live" /\ row[s].package = k

FindInUse(p) ==
  /\ Awaits(p, "findInUse")
  /\ Guarded(p, ~InUse(req[p].package))
  /\ UNCHANGED <<row, rate, removed, aaa, begun, faults, raced>>

DeletePackage(p) ==
  /\ Awaits(p, "deletePackage")
  /\ removed' = removed \union {req[p].package}
  /\ Next1(p)
  /\ UNCHANGED <<row, rate, aaa, begun, faults, raced>>

\* The row is yet to be written.
Unwritten(p) == \E i \in DOMAIN todo[p] : todo[p][i][1] \in {"insertRow", "updateRow"}

\* A statement throws, and the request ends there.  Past its write to the
\* control database (the audit record comes next) the push is lost or cut short.
Fault(p) ==
  /\ todo[p] # <<>>
  /\ faults < MaxFaults
  /\ faults' = faults + 1
  /\ req' = [req EXCEPT ![p] = Idle]
  /\ todo' = [todo EXCEPT ![p] = <<>>]
  /\ clean' = clean \ {p}
  /\ disturbed' = IF Unwritten(p) THEN disturbed ELSE disturbed \union req[p].subs
  /\ UNCHANGED <<row, rate, removed, aaa, begun, raced>>

-----------------------------------------------------------------------------

Arrive(p) ==
  \/ \E s \in Subscribers : \/ Create(p, s) \/ Update(p, s) \/ SetPassword(p, s)
                            \/ RevokePassword(p, s) \/ Remove(p, s)
  \/ \E S \in SUBSET Subscribers \ {{}}, k \in Packages : BulkAssign(p, S, k)
  \/ \E k \in Packages : UpdatePackage(p, k) \/ RemovePackage(p, k)

Statement(p) ==
  \/ AssertPackage(p) \/ FindExisting(p) \/ FindOwned(p) \/ InsertRow(p) \/ UpdateRow(p)
  \/ UpdateRows(p) \/ ReadPackage(p) \/ DeleteAttr(p) \/ InsertAttr(p) \/ DeleteUser(p)
  \/ WritePackage(p) \/ FindInUse(p) \/ DeletePackage(p)

Next == \E p \in Requests : Arrive(p) \/ Statement(p) \/ Fault(p)

Spec == Init /\ [][Next]_vars

-----------------------------------------------------------------------------
(* Properties.                                                             *)

Quiet(s) == Rivals(s) = {} /\ s \notin disturbed

\* Who may log in is the same in both modes: once the requests about a
\* subscriber are answered, FreeRADIUS opens with what the portal's own RADIUS
\* server opens with, and with nothing for a removed, revoked or blocked one.
\* A push that failed or overlapped another is made good by the next whole one
\* that runs alone, whatever it has left behind.
LoginFollowsRow ==
  \A s \in Subscribers : Quiet(s) => FreeradiusOpens(aaa[UserOf[s]]) = Opens(row[s])

\* A package with live subscribers is never removed, unless its removal ran
\* at the same time as a request that assigns it.
PackageOutlivesSubscribers ==
  \A s \in Subscribers : row[s].state = "live" => row[s].package \notin removed \ raced

-----------------------------------------------------------------------------
(* What makes it so.                                                       *)

AccountsTypeOK ==
  /\ row \in [Subscribers -> Accounts]
  /\ rate \in [Packages -> Nat]
  /\ removed \subseteq Packages
  /\ aaa \in [Users -> [Attributes -> SUBSET Nat]]
  /\ DOMAIN req = Requests /\ DOMAIN todo = Requests
  /\ begun \in Nat
  /\ disturbed \subseteq Subscribers
  /\ clean \subseteq Requests

\* What a request about one subscriber may write.
PatchFits(r) ==
  \/ /\ r.kind = "create" /\ r.patch \in Accounts
     /\ r.patch.state = "live" /\ r.patch.password # 0 /\ r.patch.package = r.package
  \/ /\ r.kind = "update"
     /\ \/ r.patch \in [package : Packages] /\ r.patch.package = r.package
        \/ r.patch \in [status : Statuses]
        \/ r.patch \in [expires : Nat]
  \/ r.kind = "setPassword" /\ r.patch \in [password : Nat \ {0}]
  \/ r.kind = "revokePassword" /\ r.patch = [password |-> 0]
  \/ r.kind = "remove" /\ r.patch = [state |-> "removed"]

\* Its statements, up to the write of the row...
WriteAhead(r, steps) ==
  \/ /\ r.kind = "create"
     /\ \/ steps = << <<"assertPackage">>, <<"findExisting">>, <<"insertRow">>, <<"readPackage">> >>
        \/ steps = << <<"findExisting">>, <<"insertRow">>, <<"readPackage">> >>
        \/ steps = << <<"insertRow">>, <<"readPackage">> >>
  \/ /\ r.kind = "update" /\ "package" \in DOMAIN r.patch
     /\ \/ steps = << <<"findOwned">>, <<"assertPackage">>, <<"updateRow">>, <<"readPackage">> >>
        \/ steps = << <<"assertPackage">>, <<"updateRow">>, <<"readPackage">> >>
  \/ /\ r.kind \in {"update", "setPassword"} /\ "package" \notin DOMAIN r.patch
     /\ steps = << <<"findOwned">>, <<"updateRow">>, <<"readPackage">> >>
  \/ r.kind \in {"update", "setPassword"} /\ steps = << <<"updateRow">>, <<"readPackage">> >>
  \/ r.kind \in {"revokePassword", "remove"} /\ steps \in {Withdrawal, Tail(Withdrawal)}

\* ... and those that push it.
PushAhead(r, steps) ==
  \/ r.kind # "update" /\ steps \in {FromPassword(r.copy.status), Tail(FromPassword(r.copy.status))}
  \/ steps \in {FromAuthType(r.copy.status), Tail(FromAuthType(r.copy.status))}
  \/ steps \in {FromExpiration, Tail(FromExpiration), FromRate, Tail(FromRate)}

Copies == [state : {"absent", "live", "removed"}, status : Statuses, password : Nat,
           expires : Nat, package : Packages, rate : Nat]

OneFits(r, steps) ==
  /\ DOMAIN r = {"kind", "subs", "package", "patch", "copy"}
  /\ PatchFits(r)
  /\ \/ WriteAhead(r, steps) /\ r.copy \in Accounts
     \/ /\ r.kind \in {"create", "update", "setPassword"}
        /\ \/ steps = << <<"readPackage">> >> /\ r.copy \in Accounts
           \/ PushAhead(r, steps) /\ r.copy \in Copies
     \/ /\ r.kind \in {"revokePassword", "remove"} /\ r.copy \in Accounts
        /\ steps \in {Tail(Tail(Withdrawal)), << <<"deleteUser", "radreply">> >>}

PlainFits(r, steps) ==
  \/ /\ r.kind = "bulkAssign" /\ r.package \in Packages
     /\ steps \in {<< <<"assertPackage">>, <<"updateRows">> >>, << <<"updateRows">> >>}
  \/ /\ r.kind = "updatePackage" /\ r.package \in Packages
     /\ steps \in {<< <<"assertPackage">>, <<"updatePackage">> >>, << <<"updatePackage">> >>}
  \/ /\ r.kind = "removePackage" /\ r.package \in Packages
     /\ steps \in {<< <<"assertPackage">>, <<"findInUse">>, <<"deletePackage">> >>,
                   << <<"findInUse">>, <<"deletePackage">> >>, << <<"deletePackage">> >>}

RequestFits(r, steps) ==
  \/ r = Idle /\ steps = <<>>
  \/ r.subs = {} /\ PlainFits(r, steps)
  \/ (\E s \in Subscribers : r.subs = {s}) /\ OneFits(r, steps)

\* Each request awaits the statements of its kind, in their order.
RequestsFit == \A p \in Requests : RequestFits(req[p], todo[p])

\* What FreeRADIUS holds of one attribute is what the row says.
Right(s, a) ==
  LET held == aaa[UserOf[s]][a]
  IN /\ a = "Cleartext-Password" =>
          held = IF row[s].state = "live" THEN {row[s].password} \ {0} ELSE {}
     /\ a = "Auth-Type" => held = IF row[s].status = "ACTIVE" THEN {} ELSE {0}
     /\ a = "Expiration" => held = {row[s].expires}

Good(s) ==
  /\ Right(s, "Cleartext-Password")
  /\ row[s].state = "live" /\ row[s].password # 0 => Right(s, "Auth-Type") /\ Right(s, "Expiration")

\* Nobody beside a clean request is about its username, nor beside any request
\* about a subscriber that is not disturbed.
CleanAlone ==
  /\ \A p \in clean : \E s \in Subscribers : req[p].subs = {s} /\ Rivals(s) = {p}
  /\ \A s \in Subscribers \ disturbed : \A p \in Rivals(s) : req[p].subs = {s} /\ p \in clean

\* The copy of a clean request says what the row does, but for the package...
CopyFits(p, s) ==
  /\ row[s].state = "live"
  /\ req[p].copy.status = row[s].status
  /\ req[p].copy.expires = row[s].expires

\* ... and its push has told FreeRADIUS so, up to the statements ahead.
PushFits(p, s) ==
  LET steps == todo[p]
      standing == req[p].copy.status
      held == aaa[UserOf[s]]
  IN /\ req[p].kind # "update" => row[s].password # 0 /\ req[p].copy.password = row[s].password
     /\ steps = Tail(FromPassword(standing)) => held["Cleartext-Password"] = {}
     /\ req[p].kind # "update" =>
          steps \in {FromPassword(standing), Tail(FromPassword(standing))} \/ Right(s, "Cleartext-Password")
     /\ steps = Tail(FromAuthType(standing)) => held["Auth-Type"] = {}
     /\ steps \in {FromExpiration, Tail(FromExpiration), FromRate, Tail(FromRate)} => Right(s, "Auth-Type")
     /\ steps = Tail(FromExpiration) => held["Expiration"] = {}
     /\ steps \in {FromRate, Tail(FromRate)} => Right(s, "Expiration")

InStep(p, s) ==
  /\ req[p].kind \in {"update", "setPassword"} /\ Unwritten(p) /\ Head(todo[p])[1] # "findOwned" =>
       CopyFits(p, s)
  /\ todo[p] = << <<"readPackage">> >> =>
       CopyFits(p, s) /\ (req[p].kind # "update" => row[s].password = req[p].patch.password)
  /\ PushAhead(req[p], todo[p]) => CopyFits(p, s) /\ PushFits(p, s)
  /\ req[p].kind \in {"revokePassword", "remove"} /\ ~Unwritten(p) =>
       row[s].state # "live" \/ row[s].password = 0
  /\ todo[p] = << <<"deleteUser", "radreply">> >> => aaa[UserOf[s]]["Cleartext-Password"] = {}

CleanFits == \A p \in clean : \A s \in req[p].subs : InStep(p, s)

\* A subscriber that is not disturbed is right until a request writes its row,
\* and an update never touches its password.
UndisturbedGood ==
  \A s \in Subscribers \ disturbed :
    /\ (\A p \in Rivals(s) : Unwritten(p)) => Good(s)
    /\ \A p \in Rivals(s) : req[p].kind = "update" => Right(s, "Cleartext-Password")

LoginInv == CleanAlone /\ CleanFits /\ UndisturbedGood

\* A removal of a package and a request about it, under way at once, are noted.
RacesNoted ==
  \A p, q \in Requests :
    p # q /\ req[p].package = req[q].package /\ req[p].package \in Packages /\ req[p].kind = "removePackage"
      => req[p].package \in raced

\* The request has found its package, and is about to assign it.
Assigns(p) ==
  \/ req[p].kind = "bulkAssign" /\ todo[p] = << <<"updateRows">> >>
  \/ /\ req[p].kind = "create" /\ Unwritten(p) /\ Head(todo[p])[1] # "assertPackage"
  \/ /\ req[p].kind = "update" /\ todo[p] = << <<"updateRow">>, <<"readPackage">> >>
     /\ "package" \in DOMAIN req[p].patch

\* What they have found out is still so, unless that was noted.
PackagesFit ==
  \A p \in Requests :
    req[p].package \notin raced =>
      /\ Assigns(p) => req[p].package \notin removed
      /\ todo[p] = << <<"deletePackage">> >> => ~InUse(req[p].package)

PackageInv == RacesNoted /\ PackagesFit /\ PackageOutlivesSubscribers

=============================================================================
