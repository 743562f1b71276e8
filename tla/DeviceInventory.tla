--------------------------- MODULE DeviceInventory ---------------------------
(***************************************************************************)
(* Ships, the one device each may have, the addresses and RADIUS secrets   *)
(* of the devices, FreeRADIUS's table of NAS clients, and the copy of      *)
(* ships and devices that every UDP server looks senders up in.            *)
(*                                                                         *)
(* A request is a sequence of statements that commit alone: requests       *)
(* interleave, and any statement may fail.  The copy is replaced whole by  *)
(* refreshes that the timer and the requests start and that may overlap.   *)
(* A device row has its own code.                                          *)
(***************************************************************************)
EXTENDS Integers

CONSTANTS
  Ships,       \* ship rows
  Devices,     \* device rows
  Ips,         \* addresses
  None,        \* no address, no ship, no device
  Requests,    \* requests handled at once
  Refreshers,  \* refreshes of the copy under way at once
  Timers,      \* callbacks of the synchronisation's timer that may find each other running
  Budgets      \* bound: what a behaviour may have of requests, faults, packets, ticks
               \* refreshers and timers, a choice of several

ASSUME InventoryOK ==
  /\ Ships # {} /\ Ips # {} /\ Devices # {}
  /\ None \notin Ips \union Ships \union Devices
  /\ \A b \in Budgets : b \in [requests : Nat, faults : Nat, packets : Nat, ticks : Nat,
                            actors : SUBSET (Refreshers \union Timers)]

VARIABLES
  ship,     \* ships: "absent", "live" or "removed"
  dev,      \* devices: state, ship, address and secret; secrets are numbered, 0 is none
  nas,      \* nas of FreeRADIUS: the secret of each address, 0 is no row
  cache,    \* InventoryCacheService: what it has of live ships and devices
  refresh,  \* per refresher: what it has read so far
  req,      \* per request: what it is about and the statement it awaits
  left,     \* what is left of the budget
  stray     \* addresses and ships that two requests have been about at once, and addresses
            \* of a device that a POST or PATCH gave a secret, that moved, was removed or
            \* failed to be told (history)

invVars == <<ship, dev, nas, cache, refresh, req, stray>>

Idle == [op |-> "idle", at |-> "idle", dev |-> None, ship |-> None, ip |-> None, secret |-> 0]
AtRest == [busy |-> FALSE, devs |-> {}, ships |-> {}, wants |-> {}]

Live(d) == dev[d].state = "live"
LiveShips == {h \in Ships : ship[h] = "live"}
DevicesOf(h) == {d \in Devices : Live(d) /\ dev[d].ship = h}
DevicesAt(i) == {d \in Devices : Live(d) /\ dev[d].ip = i}
DevRows == {[id |-> d, ship |-> dev[d].ship, ip |-> dev[d].ip, secret |-> dev[d].secret] :
              d \in {d \in Devices : Live(d)}}
Rows0 == [devs |-> DevRows, ships |-> LiveShips]

\* The next row to be created: rows not created yet are all alike.
Unused == {d \in Devices : dev[d].state = "absent"}
Fresh == CHOOSE d \in Unused : TRUE

\* Ships are there; one may have a device with an address and a secret.
InitInventory ==
  /\ ship = [h \in Ships |-> "live"]
  /\ \E first \in {{}, {CHOOSE d \in Devices : TRUE}} :
       LET h == CHOOSE h \in Ships : TRUE
           i == CHOOSE i \in Ips : TRUE
       IN /\ dev = [e \in Devices |->
                      IF e \in first
                        THEN [state |-> "live", ship |-> h, ip |-> i, secret |-> 1]
                        ELSE [state |-> "absent", ship |-> None, ip |-> None, secret |-> 0]]
          /\ nas = [j \in Ips |-> IF j = i /\ first # {} THEN 1 ELSE 0]
  /\ cache = Rows0
  /\ refresh = [c \in Refreshers |-> AtRest]
  /\ req = [q \in Requests |-> Idle]
  /\ left \in Budgets
  /\ stray = {}

-----------------------------------------------------------------------------
(* The copy.                                                               *)

Idlers == {c \in left.actors \intersect Refreshers : ~refresh[c].busy}

Begin(c) ==
  /\ c \in Idlers
  /\ c = CHOOSE other \in Idlers : TRUE
  /\ refresh' = [refresh EXCEPT ![c] = [AtRest EXCEPT !.busy = TRUE, !.wants = {"devs", "ships"}]]

\* invalidate() starts a refresh and does not wait for it.
Invalidate == \E c \in Refreshers : Begin(c)

\* Every 20 seconds.
Timer(c) ==
  /\ Begin(c)
  /\ UNCHANGED <<ship, dev, nas, cache, req, left, stray>>

\* Faulty variant: the maps are added to, not built anew.
CopiedOnto(read) == [devs |-> cache.devs \union read.devs, ships |-> cache.ships \union read.ships]

Copied(read) == [devs |-> read.devs, ships |-> read.ships]

\* The two SELECTs are answered one after the other; then the copy is replaced.
ReadRows(c, table) ==
  /\ table \in refresh[c].wants
  /\ LET read == [refresh[c] EXCEPT ![table] = Rows0[table], !.wants = @ \ {table}]
     IN IF read.wants = {}
          THEN /\ cache' = Copied(read)
               /\ refresh' = [refresh EXCEPT ![c] = AtRest]
          ELSE /\ refresh' = [refresh EXCEPT ![c] = read]
               /\ UNCHANGED cache
  /\ UNCHANGED <<ship, dev, nas, req, left, stray>>

Blame == left.faults > 0 /\ left' = [left EXCEPT !.faults = @ - 1]

\* A SELECT fails: the old copy stays.
RefreshFails(c) ==
  /\ refresh[c].busy
  /\ Blame
  /\ refresh' = [refresh EXCEPT ![c] = AtRest]
  /\ UNCHANGED <<ship, dev, nas, cache, req, stray>>

-----------------------------------------------------------------------------
(* Requests arrive.                                                        *)

Busy(q) == req[q].op # "idle"

\* The addresses and the ship a request is about.
About(r) == {r.ip, r.ship} \union IF r.dev = None THEN {} ELSE {dev[r.dev].ip}

\* Slots that are free are all alike.
Admit(q, r) ==
  /\ ~Busy(q)
  /\ q = CHOOSE p \in Requests : ~Busy(p)
  /\ left.requests > 0
  /\ left' = [left EXCEPT !.requests = @ - 1]
  /\ req' = [req EXCEPT ![q] = r]
  /\ stray' = stray \union UNION {About(r) \intersect About(req[p]) : p \in Requests}
  /\ UNCHANGED <<ship, dev, nas, cache, refresh>>

\* A PATCH changes the address, the reference to the secret, or both; a push of the
\* router the address.
AddressOps == {"update", "updateBoth", "push"}
PatchedSecretOps == {"updateSecret", "updateBoth"}
SecretOps == {"setSecret", "revokeSecret"}
DeviceOps == AddressOps \union PatchedSecretOps \union SecretOps \union {"remove"}

\* What a request may carry: a POST or PATCH of a device may set a secret, or none.
NewAddresses(op) == CASE op \in {"push", "updateBoth"} -> Ips
                      [] op \in {"create", "update"} -> Ips \union {None}
                      [] OTHER -> {None}

NewSecrets(op) == CASE op = "setSecret" -> {left.requests + 1}
                    [] op \in {"create", "updateSecret"} -> {0, left.requests + 1}
                    [] op = "updateBoth" -> {left.requests + 1}
                    [] OTHER -> {0}

Arrive(q) ==
  \/ \E h \in Ships, i \in NewAddresses("create"), s \in NewSecrets("create") :
       Admit(q, [Idle EXCEPT !.op = "create", !.at = "findShip", !.ship = h, !.ip = i, !.secret = s])
  \/ \E d \in Devices, op \in DeviceOps :
       /\ dev[d].state # "absent"
       /\ \E i \in NewAddresses(op), s \in NewSecrets(op) :
            Admit(q, [Idle EXCEPT !.op = op, !.at = "find", !.dev = d, !.ip = i, !.secret = s])
  \/ \E h \in Ships :
       Admit(q, [Idle EXCEPT !.op = "removeShip", !.at = "findShip", !.ship = h])

-----------------------------------------------------------------------------
(* Statements.                                                             *)

Done(q) == req' = [req EXCEPT ![q] = Idle]
Goto(q, at) == req' = [req EXCEPT ![q].at = at]
Then(q, ok, at) == IF ok THEN Goto(q, at) ELSE Done(q)

\* create() and remove() of a ship look for the ship first.
FindShip(q) ==
  /\ req[q].at = "findShip"
  /\ Then(q, ship[req[q].ship] = "live", "findDevices")
  /\ UNCHANGED <<ship, dev, nas, cache, refresh, left, stray>>

\* Faulty variant: only devices that have pushed their address count.
OccupiedIfAddressed(h) == \E d \in DevicesOf(h) : dev[d].ip # None

\* A ship with a device takes no second one, and is not removed.
Occupied(h) == DevicesOf(h) # {}

FindDevices(q) ==
  /\ req[q].at = "findDevices"
  /\ Then(q, ~Occupied(req[q].ship), "write")
  /\ UNCHANGED <<ship, dev, nas, cache, refresh, left, stray>>

\* Every handler of a device keeps its copy of the row: the address it will
\* announce to FreeRADIUS is the one read here.
Find(q) ==
  /\ req[q].at = "find"
  /\ IF Live(req[q].dev)
       THEN req' = [req EXCEPT ![q].at = "write",
                               ![q].ip = IF req[q].op \in AddressOps THEN @
                                         ELSE dev[req[q].dev].ip]
       ELSE Done(q)
  /\ UNCHANGED <<ship, dev, nas, cache, refresh, left, stray>>

Written(r, row) ==
  CASE r.op = "create" -> [state |-> "live", ship |-> r.ship, ip |-> r.ip, secret |-> r.secret]
    [] r.op = "updateBoth" -> [row EXCEPT !.ip = r.ip, !.secret = r.secret]
    [] r.op \in {"update", "push"} -> [row EXCEPT !.ip = r.ip]
    [] r.op \in {"updateSecret", "setSecret", "revokeSecret"} -> [row EXCEPT !.secret = r.secret]
    [] OTHER -> [row EXCEPT !.state = "removed"]

\* The row of the device, live or not.  A push of the router ends here.  FreeRADIUS
\* is not told of what a POST, a PATCH, a push or a removal writes.
Write(q) ==
  /\ req[q].op = "create" => Unused # {}
  /\ LET r == IF req[q].op = "create" THEN [req[q] EXCEPT !.dev = Fresh] ELSE req[q]
         apart == CASE r.op \in AddressOps \union PatchedSecretOps -> {r.ip, dev[r.dev].ip}
                    [] r.op = "remove" -> {dev[r.dev].ip}
                    [] r.op = "create" /\ (DevicesAt(r.ip) # {} \/ r.secret # 0) -> {r.ip}
                    [] OTHER -> {}
     IN /\ r.at = "write" /\ r.op # "removeShip"
        /\ dev' = [dev EXCEPT ![r.dev] = Written(r, @)]
        /\ Then(q, r.op # "push", "audit")
        /\ stray' = stray \union apart
        /\ UNCHANGED <<ship, nas, cache, refresh, left>>

WriteShip(q) ==
  /\ req[q].at = "write" /\ req[q].op = "removeShip"
  /\ ship' = [ship EXCEPT ![req[q].ship] = "removed"]
  /\ Goto(q, "audit")
  /\ UNCHANGED <<dev, nas, cache, refresh, left, stray>>

\* Faulty variant: FreeRADIUS is not told of a secret revoked.
TellsOfIssue(r) == r.op = "setSecret" /\ r.ip # None

\* FreeRADIUS knows its clients by address.
Tells(r) == r.op \in SecretOps /\ r.ip # None

\* The audit row comes before the copy is refreshed and FreeRADIUS told.
Audit(q) ==
  /\ req[q].at = "audit"
  /\ IF Tells(req[q])
       THEN Goto(q, "deleteNas") /\ UNCHANGED refresh
       ELSE Done(q) /\ Invalidate
  /\ UNCHANGED <<ship, dev, nas, cache, left, stray>>

\* upsertNas and removeNas.
DeleteNas(q) ==
  /\ req[q].at = "deleteNas"
  /\ nas' = [nas EXCEPT ![req[q].ip] = 0]
  /\ IF req[q].op = "setSecret"
       THEN Goto(q, "insertNas") /\ UNCHANGED refresh
       ELSE Done(q) /\ Invalidate
  /\ UNCHANGED <<ship, dev, cache, left, stray>>

InsertNas(q) ==
  /\ req[q].at = "insertNas"
  /\ nas' = [nas EXCEPT ![req[q].ip] = req[q].secret]
  /\ Done(q) /\ Invalidate
  /\ UNCHANGED <<ship, dev, cache, left, stray>>

\* A statement fails: the request with it, except that FreeRADIUS's database
\* failing is only logged and the request goes on as if it had not.
Fail(q) ==
  /\ Busy(q)
  /\ Blame
  /\ Done(q)
  /\ IF req[q].at \in {"deleteNas", "insertNas"} THEN Invalidate ELSE UNCHANGED refresh
  /\ stray' = stray \union About(req[q])
  /\ UNCHANGED <<ship, dev, nas, cache>>

-----------------------------------------------------------------------------

Advance(q) ==
  \/ FindShip(q) \/ FindDevices(q) \/ Find(q) \/ Write(q) \/ WriteShip(q)
  \/ Audit(q) \/ DeleteNas(q) \/ InsertNas(q)

ReadCopy(c) == \E table \in {"devs", "ships"} : ReadRows(c, table)

NextInventory ==
  \/ \E q \in Requests : Arrive(q) \/ Advance(q) \/ Fail(q)
  \/ \E c \in Refreshers : Timer(c) \/ ReadCopy(c) \/ RefreshFails(c)

InventoryFairness ==
  /\ WF_<<invVars, left>>(\E q \in Requests : Advance(q))
  /\ WF_<<invVars, left>>(\E c \in Refreshers : Timer(c))
  /\ WF_<<invVars, left>>(\E c \in Refreshers : ReadCopy(c))

-----------------------------------------------------------------------------
(* Properties.                                                             *)

Ops == {"idle", "create", "removeShip"} \union DeviceOps
Ats == {"idle", "findShip", "findDevices", "find", "write", "audit", "deleteNas", "insertNas"}

\* Types; a live device has a ship, and a request that needs one has it at hand.
InventoryTypeOK ==
  /\ ship \in [Ships -> {"absent", "live", "removed"}]
  /\ dev \in [Devices -> [state : {"absent", "live", "removed"}, ship : Ships \union {None},
                          ip : Ips \union {None}, secret : Nat]]
  /\ nas \in [Ips -> Nat]
  /\ req \in [Requests -> [op : Ops, at : Ats, dev : Devices \union {None},
                           ship : Ships \union {None}, ip : Ips \union {None}, secret : Nat]]
  /\ left \in [requests : Nat, faults : Nat, packets : Nat, ticks : Nat,
               actors : SUBSET (Refreshers \union Timers)]
  /\ \A d \in Devices : Live(d) => dev[d].ship \in Ships
  /\ \A q \in Requests :
       /\ req[q].op = "create" => req[q].ship \in Ships
       /\ req[q].at = "find" => req[q].dev \in Devices

\* Unless requests about it overlap, a ship has at most one device, and is not
\* removed under it.
OneDevicePerShip ==
  \A h \in Ships \ stray :
    /\ \A d, e \in DevicesOf(h) : d = e
    /\ DevicesOf(h) # {} => ship[h] = "live"

\* Whatever refreshes overlap, fail or read an older state, the copy ends up
\* that of the database once the requests are over.
CacheSettles == <>[](cache = Rows0)

\* Where secrets come from the endpoints of the RADIUS secret alone, FreeRADIUS knows
\* an address by the secret of the device there, and knows no address without one:
\* unless the device was moved, removed, or shared the address; a POST or PATCH gave
\* it a secret; or requests about it overlapped or failed.
NasFollowsSecret ==
  \A i \in Ips \ stray :
    (\A q \in Requests : ~Busy(q)) =>
      nas[i] = IF DevicesAt(i) = {} THEN 0 ELSE dev[CHOOSE d \in DevicesAt(i) : TRUE].secret

-----------------------------------------------------------------------------
(* What makes it so.                                                       *)

\* What two requests under way have in common has been noted.
RequestsApart ==
  \A p, q \in Requests :
    p # q => About(req[p]) \intersect About(req[q]) \subseteq stray \union {None}

ShipOps == {"create", "removeShip"}

\* A request is about a row that exists; one that will tell FreeRADIUS of a
\* secret has read the address of the device as it is.
RequestFits(r) ==
  /\ r.at # "idle" => r.op # "idle"
  /\ r.dev # None => r.dev \in Devices /\ dev[r.dev].state # "absent"
  /\ r.op \in ShipOps => /\ r.ship \in Ships /\ r.dev = None
                         /\ r.at \in {"findShip", "findDevices", "write", "audit"}
  /\ r.at \in {"findShip", "findDevices"} => r.op \in ShipOps
  /\ r.op \notin ShipOps \union {"idle"} => r.dev \in Devices
  /\ r.op = "revokeSecret" => r.secret = 0
  /\ r.at \in {"deleteNas", "insertNas"} => r.op \in SecretOps
  /\ r.at = "insertNas" => r.op = "setSecret"
  /\ r.op \in SecretOps /\ r.at = "write" =>
       r.ip = dev[r.dev].ip \/ {r.ip, dev[r.dev].ip} \subseteq stray

RequestsFit == \A q \in Requests : RequestFits(req[q])

\* What create() and remove() of a ship have found out is still so when they
\* write.
ShipsFit ==
  \A q \in Requests, h \in Ships \ stray :
    req[q].op \in ShipOps /\ req[q].ship = h =>
      /\ req[q].op = "create" /\ req[q].at \in {"findDevices", "write"} => ship[h] = "live"
      /\ req[q].at = "write" => DevicesOf(h) = {}

HasSecret(i, secret) ==
  /\ DevicesAt(i) = {} => secret = 0
  /\ \A d \in DevicesAt(i) : dev[d].secret = secret

\* The request q has yet to tell FreeRADIUS of the secret at i.
ToBeTold(q, i) ==
  req[q].op \in SecretOps /\ req[q].at \in {"audit", "deleteNas", "insertNas"} /\ req[q].ip = i

\* An address has one device at most, whose secret FreeRADIUS has or is about to
\* be told.
AddressFits(i) ==
  /\ \A d \in Devices : dev[d].ip = i => Live(d)
  /\ \A d, e \in DevicesAt(i) : d = e
  /\ (\A q \in Requests : ~ToBeTold(q, i)) => HasSecret(i, nas[i])
  /\ \A q \in Requests : ToBeTold(q, i) => HasSecret(i, req[q].secret)

AddressesFit == \A i \in Ips \ stray : AddressFits(i)

\* What every step preserves beside the types.
InventoryInv == RequestsApart /\ RequestsFit /\ OneDevicePerShip /\ ShipsFit /\ AddressesFit

=============================================================================
