# Verification of the MikroTik management and payment system

The repository is a back end (NestJS) and an operator's portal (React) for ships that sell Internet
access to their crews.  A MikroTik router on board authenticates clients by RADIUS, reports their
sessions by RADIUS accounting, their flows by NetFlow/IPFIX and its byte counters by an HTTP push;
the back end turns these into sessions, bindings of addresses to subscribers, quotas and reports, and
watches the service endpoints it depends on; the portal shows it all and changes it.

The TLA+ modules here model the parts where several handlers, requests or answers share state.  Paths
are relative to `src/backend/src/` unless they start with `src/` or `frontend/`.

## 1. Inventory

What surprises in the back end is the same everywhere: Node runs one callback at a time, but every
`await` of a statement lets others in, **no database transaction spans a handler**, and nothing keeps
two handlers of the same kind from overlapping.  What keeps the data consistent are unique indexes,
one exclusion constraint, SQL increments, and the order of the statements.  The portal has the mirror
image of it: answers come in any order, and a handler goes on after its `await` with the selections
it closed over at the click.

| Component | State it keeps | Operations | Interacts with | Status |
|---|---|---|---|---|
| RADIUS server (`libs/radius-server`) | nothing per packet | Access-Request, decided from the subscriber row; Accounting-Request: answer, then ingest | limiter, telemetry, inventory copy | partly |
| Telemetry (`modules/telemetry`, `libs/telemetry-normalize`) | `raw_telemetry_events` with `processed_at`; a table per kind of event | store and normalise one event; catch up with the pending ones | bindings, sessions, subscribers | partly |
| Identity bindings | `identity_bindings` with an EXCLUDE constraint | open (close what is open, insert), close | RADIUS parser writes, flow parser reads | partly |
| Subscriber billing | byte totals of sessions, `quota_used_bytes` | overwrite the total, add the difference to the quota | access decisions | modelled |
| Ingest limiter (`libs/ingest-throttle`) | a counter, a FIFO of resolvers | `run(task)` | every UDP collector | modelled |
| Health sweep (`libs/health-checks`) | `service_health_state` | timer sweep, forced check, choice of the active endpoint | breaker, alerts, endpoints | partly |
| Circuit breaker (`libs/registry/circuit-breaker.ts`) | state, failures, probe in flight; in memory | `canProbe`, `onSuccess`, `onFailure` | sweep | modelled |
| Alerts (`modules/alerts`) | at most one open alert per fingerprint | fire or update, resolve by fingerprint or by hand | sweep | partly |
| Service endpoints | `service_endpoints` | enable, disable, remove, maintenance, under the last-healthy guard | sweep, registry | partly |
| Subscribers, packages, tenants | their rows | creation, change, removal, passwords, bulk assignment, guards | FreeRADIUS, finance | partly / modelled |
| FreeRADIUS synchronisation (`libs/freeradius-sync`) | watermark, `running`; `radcheck`, `radreply`, `nas` of another database | periodic copy of `radacct`; attributes and NAS clients pushed | inventory copy, sessions | modelled |
| Inventory copy (`libs/inventory-cache`) | ships and devices in memory | refresh by timer and by invalidation | every UDP server | modelled |
| Inventory, interfaces | areas, ships, devices, interfaces with zone and parent | guarded writes, zone assignment, pushes of counters | copy, FreeRADIUS, reports | partly |
| Interface counters | samples and the deltas between them | normalise one reading | telemetry, dashboard | modelled |
| NetFlow collector, flow normalisation | templates, connection table; flows | one datagram | limiter, telemetry | partly |
| Dashboard, business, crew, finance | none | reports over counters, sessions, flows and rows | everything above | partly |
| ZeroTier (`modules/zerotier`) | an external controller | networks and members: list, create, change, remove | portal | modelled |
| Settings | keys of an environment file | one save per form | portal | partly |
| Portal pages (`frontend/src/pages`) | panels, selections, busy flags, answers outstanding | select, act, load; 13 pages and the ZeroTier page | the HTTP interface | partly |
| Service registry, DNS cache, DNS log and other collectors, CoA, retry, authentication, audit, common code, API client, infrastructure | | | | not modelled, section 5 |

What makes each of them right, and hard:

* **Accounting.**  Datagrams come in any order, are retransmitted and lost; handlers of one session
  overlap; a statement in the middle fails; a catch-up replays rows that are pending because they
  failed *or because they are still in hand*.  Right means: a byte counted by the NAS is charged once
  and no more; an event marked processed has had its effect; an ended session stays ended; an address
  is handed over from one session to the next; what was stored gets processed.
* **Limiter.**  A slot is freed in one microtask and taken in a later one without a second test of the
  counter.  Right: no more tasks than slots, no idle slot while a task waits, no waiter forgotten.
* **Health.**  Sweeps overlap with sweeps, forced checks and the administrator.  Right: a half-open
  breaker has the probe it waits for, an open one is probed again, and a run that is alone puts right
  what overlapping ones have left.
* **Accounts.**  Each request is a dozen statements in two databases.  Right: both modes of the RADIUS
  service let the same people in once requests are answered.
* **Synchronisation.**  Copies lag behind what they copy, and are skipped by clocks, limits and
  moves of devices.  Right: no STOP is skipped, nothing goes backwards, the copy settles.
* **Counters.**  A counter resets with the router; readings arrive late or twice, and
  are normalised at once.  Right: no byte is counted twice or lost.
* **Flows.**  What one datagram teaches is needed to understand the next.  Right: records are decoded
  by the layout they were written in and given to the client they belong to.
* **Fleet.**  The same bytes appear in a dozen reports, each with its own join, filter and null.
  Right: they add up and agree, whatever was created, assigned and removed in whatever order.
* **Portal.**  Right: what is drawn belongs to what is selected, a change is seen by who made it,
  nothing is written to the wrong row, and nothing loads for ever.

## 2. Modules

| Module | Models |
|---|---|
| `BindingTable` | the table `identity_bindings`: closing, inserting, the EXCLUDE constraint and the interval check |
| `RadiusAccounting` | NAS, network, UDP handlers, catch-ups, failures and restarts; extends `BindingTable` |
| `SessionBilling` | the abstract promise: count bytes, bill at most what was counted, take no bill back; `RadiusAccounting` is shown to implement it |
| `IngestLimiter` | `run(task)` with the microtask queue of the event loop |
| `FlowAttribution` | the NetFlow collector behind the limiter; extends `IngestLimiter` |
| `CircuitBreaker` | the breaker of one endpoint, as operators on a record |
| `HealthSweep` | sweeps, forced checks, health rows, alerts, administrator; extends `CircuitBreaker` |
| `SubscriberAccounts` | subscriber requests over the control database and FreeRADIUS's tables |
| `DeviceInventory` | ships, devices, NAS clients, and the copy in memory |
| `FreeradiusSync` | the run that copies `radacct`; extends `DeviceInventory` |
| `InterfaceCounters` | pushes, samples, deltas and catch-ups of one interface |
| `BackOffice` | the rows an administrator keeps, and the guards between them |
| `FleetTraffic` | interfaces, zones and the traffic of a ship; extends `BackOffice` |
| `FleetReports` | every report as an operator over that state; extends `FleetTraffic` |
| `PortalViews` | the pages as data: panels, tabs, actions |
| `PortalPages` | one page with its requests under way; extends `PortalViews` |
| `OperatorConsole` | the ZeroTier page and the controller behind it, beside the other pages; extends `PortalPages` |
| `RadiusAccounting_proofs`, `HealthSweep_proofs`, `FreeradiusSync_proofs` (with the inventory), `InterfaceCounters_proofs`, `SubscriberAccounts_proofs`, `FlowAttribution_proofs` (with the limiter), `FleetReports_proofs` (with the back office and its traffic), `OperatorConsole_proofs` (with the pages) | theorems and their proofs |
| `MC*` | values of the constants for TLC |

Definitions called *faulty variant* are what a plausible mistake would make of the definition that
follows; no action uses them.  They show that each property can fail.

### RadiusAccounting

`evt`, `obs`, `seen` and `pc` are the locals of a handler: the packet, its receipt time, the session
row read by `findUnique` (`existing` in the code), and the statement it awaits.  The tables are `raw`
(with `rows`, `rawNo`, `at` for `received_at` and `observed_at`), `acctRows`, `sess`, `bindings` and
`accrued`.  `accrued` is the quota split by session: the pipeline only ever increments the column, so
the split loses nothing.  `charges` is a history variable.

| Code | Action |
|---|---|
| `onAccountingRequest` answers, builds the event | `Receive` |
| `findFirst` by source and idempotency key | `Lookup` |
| `INSERT ... ON CONFLICT DO NOTHING` | `InsertRaw` |
| `INSERT radius_accounting_events` | `InsertAcct` |
| read of the session row and the branch it decides | `FindSession` |
| `INSERT` / `UPDATE radius_sessions` | `InsertSession`, `UpdateSession` |
| `openRadiusBinding`, its two statements | `CloseOpen`, `OpenBinding` |
| `closeRadiusBinding` | `CloseOwn` |
| `accrueQuotaDelta` | `Accrue` |
| `processed_at = now()` | `Mark` |
| `processPending` | `StartCatchUp`, `TakePending`, then the same statements |
| any statement throws; the process dies | `Fault`, `Restart` |

The NAS actions are external.  `wire` is the set of packets ever sent: any of them may be delivered,
again and again, in any order.  `InOrder` and `MayLose` are the assumptions under which some of the
promises hold; a run says which it makes.  Under `InOrder` the packets of *one* session are handled
one by one and in order; sessions still interleave.  Left out: attributes that no branch reads, the
split in upload and download (the difference is taken of their sum), the limit of 200 rows per
catch-up, packets without octet counters, and columns that are the same for every event of one NAS.

### IngestLimiter and FlowAttribution

`queue` holds the tasks whose resolver waits, `micro` the continuations due.  `Arrive` is the call of
`run` in a datagram callback and needs an empty `micro`: the event loop drains the microtasks before
the next callback.  `Settle` is the end of the body, by return or exception; `Finally` the `finally`
block; `Resume` the continuation of a waiter.

`FlowAttribution` puts the collector's handler into the task.  `Receive` is a datagram arriving,
`Handle` the synchronous half of `handlePacket` (templates learnt, records decoded, the connection
table looked up and filled), which runs when the limiter lets the datagram in, `Ingested` and
`Leave` its end.  Layouts are numbers: decoding by another than the sender's yields
garbage.  The router (`NewLayout`, `Reuse`) and `Restart` are external.

### HealthSweep

`phase`, `chk`, `want`, `failed`, `pick`, `left` are the locals of a run: `checkOne` of every endpoint
at once, each at the statement `chk` names, with the status it is going to write; then
`recomputeActive` with the endpoint it has chosen and the rows still to write.  The checkers are a
probe that succeeds if the endpoint is up at its end.  HEALTHY stands for DEGRADED too, which the code
treats alike.  `Cool` is the passing of the cooldown.  The guard of the last healthy endpoint and the
update it guards are two statements (`AskToDrop`, `Drop`), as are the endpoint row and the health row
of `setMaintenance` (`SetMaintenance`, `Maintain`).

### SubscriberAccounts

A request is the list `todo` of statements it still awaits, built by the operator named after the
handler (`Create`, `Update`, `SetPassword`, `RevokePassword`, `Remove`, `BulkAssign`,
`UpdatePackage`, `RemovePackage`); `req` holds its patch and its copy of the row.  `setAttr` is a DELETE and an
INSERT, `clearAttr` a DELETE; with the four attributes of an account, a push is up to eight statements.
`Fault` is one that throws: what comes after it is
left undone, and past the write to the control database that is the push or the rest of it.
`Opens` is the decision of the portal's own RADIUS server, `FreeradiusOpens` (external) that of
FreeRADIUS on the rows it finds.

### DeviceInventory and FreeradiusSync

Requests (`create`, `update`, `remove`, `setRadiusSecret`, `revokeRadiusSecret` of a device, removal
of a ship) advance statement by statement; those the code ends with `invalidate()` start a refresh.
`ReadRows` is one of the two SELECTs of a refresh and, after the second, the replacement of the
copy.  A POST or PATCH may set the reference to a secret too (`NewSecrets`), and does not tell FreeRADIUS: its `nas` rows
follow, by a DELETE and an INSERT, only what the endpoints of the RADIUS secret write (`Tells`).

`FreeradiusSync` adds `radacct` (external: `Start`, `Interim`, `Stop`, with a stamp that may lag
behind the portal's clock by `MaxLag`), the watermark and the runs.  Rows in `Bare` have no username or start time and are passed over.  `StartSync` is the timer, which the
flag `running` keeps apart; `Select` reads the rows open or stamped since the watermark less
`OVERLAP_MS`, up to the limit; `Copy` writes one to the ship of a device at its NAS address, or passes it over; `Finish` sets the
watermark.

### InterfaceCounters

`Push`, `Stamp`, `Lookup`, `InsertRaw`, `InsertSample`, `FindPrevious`, `InsertDelta`, `Mark` are the
statements of one pushed reading, of which `Stamp` fixes `observed_at`.  `StartCatchUp` and
`TakePending` are the catch-up.  `moved` and `truth` are histories: what the interface really carried;
`late` is the set of samples that were stored after one observed later.

### BackOffice, FleetTraffic, FleetReports

`BackOffice` has six kinds of row (areas, ships, routers, tenants, packages, subscribers) and two
or three handlers for each.  A handler is a list of `FindRow`, `Check` and a final `Insert`,
`Update` or `Delete`; other requests come between.  A removal only marks, unless `Destroys`.
`FleetTraffic` adds `createForDevice` and `assignZone` with the look-ups of `assertNoDoubleCount`
(`FindChildren`, `FindConflicts`, `WriteAssignment`), and the traffic: `Carry` counts a packet on the
interface it passes and on those above it, each delta with the zone of the moment; `Account` is a
RADIUS session, whose bytes may be null in either direction, `Record` a flow, with the name DNS has found or none.
`FleetReports` translates the queries: `Summary`, `GlobalSummary`, `ByZone`, `ByInterface`, `Timeseries`, `ShipPage`,
`AreaPage`, `BusinessUsage`, `FlowsSummary`, `CrewUsers`, `Billing`, `Revenue` with its three breakdowns.  The direction
of a counter is written as each query writes it: `SumZone` picks columns by the zone it is asked for (`Received`, `Sent`),
`ByGroup` and the reports by interface and over time ask each delta for its group (`Down`, `Up`).  A user's domains are cut
to those with the most bytes (`DomainUsage`, `ShownDomains`, twenty in the code), the total of a user is null
where one direction is, and the bill is summed from what there is.  Rows are summed as functions (`DownOf` is the sum of
`Down` over a set of deltas), so that two rows of equal numbers both count.  A number that may be null is a set of at
most one number, so that a null total is not the same as zero.

### PortalViews, PortalPages, OperatorConsole

`PortalViews` says of each page which panels it has, which selections a panel is about, on which
tabs it is read, and how: whether it numbers its requests, cleans up, empties on failure, is quiet.
`PortalPages` is the machine: `Select` and `SelectTab` rerun the effects of the panels whose
dependencies changed; `LoadAnswer` applies an answer (or drops it, when numbers say it is outdated);
`Act` starts an action on a row, `ActAnswer` ends it and reloads what the code reloads, with the
selections of the click; `Refetch` is a button; `LeavePage` the router.  `OperatorConsole` adds the
ZeroTier page, which opens and edits what its answers return, with the controller's networks,
settings and members behind it.  `row` is one node that has joined every network: in the table of which network its
name and addresses were opened for an edit (`OpenRowEdit`, `CancelRowEdit`, `SaveRowEdit`) and its removal was first
clicked (`DeleteMember`, `ConfirmExpires`).  The page keeps these by node, so that they survive a selection.  A call
that fails may have been carried out: the controller's answer was late, or the read after the change failed.

Abstractions of the console: the controller's effect of a call and the code after its `await` are one
step; state updates of one handler are applied together, as React batches them; a page once left is not
returned to, since React builds it anew; the hiding of a revealed secret is not told apart from showing it; of the
other rows of a table of members only that a click on one takes over the flag of what is busy.  A panel's loading flag
starts as the code has it (`waits`), and a list of ships or areas may come back empty (`Scopes`).

Abstractions of the back office: a ship's area never changes (no handler writes it), a replaced
router is a new one, updates of columns that no report reads are left out, and a request refused is
the same as one never sent.

## 3. Runs

| Run | Question and answer | Environment and bounds | States, time |
|---|---|---|---|
| `radius_any_order` | Packets in any order, a handler and catch-ups racing, one failure or restart: `TypeOK`, `ProcessedLeavesSession`, `EndedForGood` hold | 1 session (START, two updates, STOP), 1 handler, 1 catch-up at a time (2 in all), 4 receipts | 2.6 M, 1 min |
| `radius_in_order` | Packets in order, any of them lost: the pipeline implements `SessionBilling`, the quota misses the update that came first and nothing else, an address is handed over and never dropped, an ended session holds none | 2 sessions with one address, START, an update, STOP, 2 handlers, 1 failure or restart | 2.9 M, 3 min |
| `radius_live` | Every stored event is processed, every byte billed | 2 sessions, START and STOP, one without User-Name | 7 k, 10 s |
| `radius_v_replay` | Finding 1 | 1 session | |
| `health` | A half-open breaker has its probe, an open one is probed again, maintenance settles; a sweep alone makes alert and selection follow the health | three budgets: `Disturbed` (1 endpoint, sweep, 2 forced checks, 1 administrator, 1 flip, 1 fault), `Selecting` (2 endpoints, sweep and forced check, 1 flip), `Racing` (2 endpoints, 2 sweeps) | 140 k, 1 min |
| `accounts` | Both RADIUS modes open for the same rows; packages outlive their subscribers | 2 rows of one username, 4 requests, 2 at a time, 1 failure | 2.6 M, 2 min |
| `sync` | No STOP is skipped or undone, and every session stopped is closed; one device per ship, the copy settles, NAS secrets follow | 3 packets, 2 ticks and a failure, or 2 packets and a request; 2 requests, 1 and a failure, or 1 beside 2 refreshes; 2 rows, one of them bare, 2 devices | 327 k, 2 min |
| `counters` | In order no byte is counted twice, and none is lost in any order; deltas overlap where a sample came late and nowhere else | 3 pushes of 0 or 1 byte, 2 at once, 1 reboot, 1 catch-up, 1 failure | 2.8 M, 1 min |
| `counters_v_retry` | Finding 2 | 2 pushes, 1 catch-up, 1 failure | |
| `flows` | Records decoded as sent and given to their owner; slots bounded, none idle, waiters run | 5 datagrams, 2 slots, 3 with flows, 1 change of layout, port or process | 230 k, 1 min |
| `fleet` | All reports add up and agree | six plans: `Assigning`, `Summing`, `Calling`, `Flowing`, `Building`, `Selling`; 3 names, 2 in the catalogue, 1 shown | 117 k, 3 min |
| `console` | A panel shows what is selected and every change made; nothing is written to the wrong network; loading ends | every page, 3 clicks (2 on the four pages with the most buttons: the router, the subscriber, the list of routers, settings), 1 failure, 2 values per selection, 2 rows | 473 k, 90 s |

Why these bounds are enough to be of interest.  A race needs two actors, and every run has them.  The
kinds of packet take different paths; `radius_any_order` has two updates, so that an older one can
come after a newer.  Two slots and five datagrams let two tasks settle in one turn of the loop
with waiters left and a datagram after them; an IPFIX datagram after a change of layout waits behind the
one that announces it.  In `health` the threshold 2 separates counting from opening, and
a forced check beside the sweep is the probe that is not the trial probe.  In `accounts` four requests make a row, disturb it
twice and repair it; the two rows of one username are the case the tables of FreeRADIUS, which know
no tenant, cannot tell apart.  In `sync` the limit of one row and the overlap of one tick make both
bite.  Three pushes make a sample come between two others.  In `fleet` each plan is the smallest story that has what its sums could get wrong: two
levels of interfaces, two ships, a removed ship with traffic, a package and a tenant removed under a
subscriber; packets have different sizes in their two directions, so that exchanging them shows, two sessions may each
lack a direction, and two flows of one user may be of more names than are shown.  In `console` three clicks are: select, act or select again, and one more that the answers of both can
race with.

Bounds stand in the guards of the actions they limit (`MaxClock`, `MaxCatchUps`, `MaxFaults`,
`MaxInterims`, `MaxRequests`, `MaxPushes`, `MaxResets`, `MaxFlows`, `MaxChanges`,
`MaxClicks`, `MaxFailures`, `LastTime`, the lengths of a session (`lasts` of a plan), and the budgets and plans, which are records of such bounds of
which a behaviour starts with one).  Symmetry is used over handlers and requests, in runs that check no
liveness.  Deadlock is not checked where the system may really stop: every packet handled, every
request answered, the last endpoint removed, the operator gone.

### Fairness and why the code justifies it

* Handlers, runs, requests, microtasks: weak.  A statement that was sent settles (the driver has time-outs)
  and Node runs the continuation.  Settling by an exception is a fault, which no fairness demands.
* `Delivery` (strong, per packet): a NAS retransmits until it is answered, so a packet that can be
  accepted again and again is accepted.  The real NAS gives up after some tries, so
  `EverythingIsBilled` is a statement about networks that lose no packet for good.
* Timers (`StartSweep`, `StartSync`, `Timer` of the copy): they are never cleared while the module lives.
  `Cool`: time passes.  `CheckOne`: every probe is wrapped in a time-out.
* The portal: every HTTP request ends, by an answer or an error.  `LoadingEnds` is what the code
  makes of that, for panels that have a ship or an area to ask for; for the others see section 6.
* Nothing is assumed of people: no click, catch-up, forced check or administrator need come; nor of
  failures, which may or may not happen.

### Conditions in the properties

Some promises hold only when certain things did not overlap, and the property says so with a history
variable, because the code does not promise more: `late` (the samples stored after one observed later),
`stray` and `disturbed` (requests about one row overlapped), `doubt` and `overlap` (requests of a
panel that numbers nothing overlapped), `row.moved` (a row left open in a table when another was selected), `raced` (a
package removed while it was being assigned), `missed` (a row a run passed over).  Each is set by the overlap of *those* requests only and, where the code repairs what was disturbed,
cleared by the repair.  What happens otherwise is in section 6.

## 4. What is proved

All theorems hold for every value of the constants that satisfies the named assumptions `ConstantsOK`,
`NoIpOK`, `MaxOK`, `ThresholdOK`, `EndpointsOK`, `InventoryOK`, `SyncOK`, `CountersOK`, `AccountsOK`,
`FlowOK`, `PortalOK`, `ConsoleOK`, `OfficeOK`, `TrafficOK` and `ShownOK`: any number of sessions, addresses, handlers, catch-ups,
endpoints, sweeps, devices, rows, packages, interfaces, requests, datagrams, networks, values of a selection,
clicks and failures, and any increments.  Every invariant of every run is among them.  These
give the constants their types and keep the "no value" ones apart.  Three theorems assume more about the
world and say so: `SyncOK` (the stamps of FreeRADIUS lag behind the portal's clock by less than
`OVERLAP_MS`), `Ordered` and `~MayLose` (below).

The strengthenings are operators of the modules they belong to, under "What makes it so".  Each is a
conjunction of named parts, and the proofs follow it: one lemma per statement or answer, and under it one step
per part that the statement can disturb.

### Accounting (`RadiusAccounting_proofs`)

* `TypeCorrect`: `TypeOK` is inductive on its own.
* `EndedSessionsStayEnded` (`EndedForGood`): the only statement that writes a status on an existing row
  writes either CLOSED or the status that is there (`RowsStay`).
* `ProcessedEventsLeaveSession` (`ProcessedLeavesSession`): not inductive, since it does not say what a
  handler about to mark its event has done.  `HandlersLeaveSession` does: a handler past the session row
  has left one, and past it with a STOP has left an ended one.  Preservation uses `RowsStay`: no other
  handler takes the row back.
* `AddressesAreHandedOver` (`AddressIsHandedOver`) assumes that no catch-up request runs, and nothing about the
  order of packets, loss or failures.  That two intervals of an address never overlap is the EXCLUDE
  constraint of the table and is not stated as a property: what the handlers owe is that a row refused, or an
  insert that fails, leaves its event to be found.  `OneHandPerEvent` says that a stored event is in one hand with
  the receipt time of its row, and `Opens` that whoever has the event in hand is at one of the two statements
  that open an interval; an event that `Opens` goes on to do so or stays pending (`OpensStays`), a closed interval
  was closed by such an event or by a STOP of its own session (`ClosedBy`), and a session becomes ACTIVE by
  such an event (`ActiveBy`).  With catch-ups it is false: the replay of an update that has made the session, and
  failed to get its interval, finds the session, opens nothing and is marked processed.
* `BillingImplemented` (`ImplementsBilling`), `QuotaEqualsSession` (`QuotaFollowsSession`) and
  `EndedSessionsHoldNoAddress` (`EndedHoldsNoAddress`) assume `Ordered`: the packets of *one* session
  are handled in order, and no catch-up runs.  Sessions still interleave, packets are lost, statements fail and the
  process restarts.  Without catch-ups is not a convenience: one that replays an older event left pending moves the stored total
  back, and the next update charges the difference again.  `SentInOrder` and `HandledInOrder` say that
  what a session has in hand is the newest it has sent, `RowsAsRead` that its row is still as it was read, and
  `NoneOvercharged` that the quota lags behind the total by exactly what the handler has yet to add:
  hence each step is an abstract one or a stutter (`BillingStep`).  Equality holds up
  to one term: the first update of a session whose START is lost creates the row and charges nothing
  (`Uncharged`).  `StoredLeavesRow` says that a row is made for the first event stored and for no other, `AllCharged`
  that the difference stays what it was from then on; a skipped packet changes nothing, since the next
  carries its bytes (`FirstStays`).  It needs that no statement fails.  The address needs no
  such condition and holds whatever fails, because `closeRadiusBinding` comes before the mark
  (`StopClosesBinding`).

### Limiter and flows (`FlowAttribution_proofs`)

* `SlotsBounded`, `SlotsInUse` (`Bounded`, `NoIdleSlot`): from `SlotsInv`.  `Counted` says the counter is
  the number of tasks that hold a slot and that, while a task waits, the slots held and promised are
  *all* of them: so waking one waiter per freed slot neither exceeds the limit nor wastes a slot.
  `CollectorBounded` carries both over to the collector's specification.
* `RecordsDecodedAsSent`, `BytesAttributedToOwner` (`DecodedAsSent`, `AttributedToOwner`): from
  `FlowInv`.  A layout is learnt when a datagram is *let in*, not when it arrives, so the invariant speaks of the line of
  those that wait (`LineInv`: microtasks before queue, first in first out): for each of them, the layout known *after all
  ahead of it have been let in* is its own or none (`LayoutInv`), and the same of the client of its port
  (`ClientInv`), provided the router tells before it uses.  The lemmas about `Precedes` say
  what each operation of the limiter does to the line; that it never lets one overtake another is what the
  theorem rests on.

### Health (`HealthSweep_proofs`)

* `HalfOpenIsProbed` (`HalfOpenHasProbe`): from `BInv`: with the types of the breakers, `ChecksFirst` (a
  run that is not checking has no probe under way).  The point is `ReportKeeps`: *any* report, also of an
  older probe or a forced check, takes the breaker out of HALF_OPEN.
* `AlertsFollowHealth`, `BestIsSelected` (`AlertFollowsHealth`, `BestIsActive`): from `SweepInv`.  While
  nothing has disturbed a run it is `Alone`; what its checks have written is still there when they fire or resolve
  (`ChecksFit`), an endpoint whose check is over has its alert right (`AlertsFit`), and the rows
  written so far agree with a choice that is still the best (`ChoiceFits`).  `BestIsSelected` holds for
  any preference: with two endpoints of one priority either may be chosen.

### Inventory and synchronisation (`FreeradiusSync_proofs`)

* `SyncTypeCorrect`, `SyncForgetsNothing`, `SyncNeverBackwards` (`TypeOK`, `NothingForgotten`,
  `NeverBackwards`): from `IInv`.  `NothingForgotten` is not inductive: a run sets the watermark to the
  time it *began*, so what makes it true is that a row stopped since then has a later stamp (`Clocks`),
  that what a run has read and not yet copied is in its batch (`BatchesHold`), and that no copy is ahead
  of its row (`CopiesFollow`).  `SyncOK` is needed exactly where the overlap makes up for the lag.  The
  same invariant gives `NeverBackwards`: a batch is a snapshot, and only one run is under way.
* `ShipsKeepOneDevice`, `RadiusKnowsSecrets` (`OneDevicePerShip`, `NasFollowsSecret`): from
  `InventoryInv`.  `RequestsApart`: whatever two requests under way have in common is in `stray`.
  `ShipsFit`: what a request about another ship or address found out is still so when it writes.  `AddressesFit`: the row in
  `nas` is the device's secret unless one request has yet to tell, and then that request carries it; an address
  whose device got a secret by POST or PATCH is in `stray`, for FreeRADIUS is not told of it (section 6).

### Counters (`InterfaceCounters_proofs`)

* `CountersTypeCorrect`, `CountersDeltasAreAdjacent` (`DeltasAreAdjacent`): from `IInv`.  `FoundIsAdjacent`
  is the strengthening: a handler that has found the sample before its own keeps it just before its own
  until its delta is stored, but for samples that come between and are late by that.
* `CountersAddUp` (`DeltasAddUp`): from `SumInv`.  The readings kept anywhere are in the order the router made them
  (`ReadInOrder`), a sample has one delta or a handler about to store it (`SamplesLeaveDeltas`), and each delta
  is the growth from the sample just before (`DeltasMeasure`).  Then the sum telescopes
  (`DeltasTelescope`): by induction over the samples, the deltas up to one add up to its reading less the
  first, and over a reboot to no more than what has moved.
* `CountersLoseNothing` (`NoByteIsLost`): from `SumInv` as well, however late samples come.  The sample a delta
  measures from is never before the first one stored (`FirstNotLate`): that one is not late, and only late ones
  may stand in between.  So the deltas down from any later sample form a chain to it, and their sum is part of
  the whole (`TotalOfPart`, `DeltasCover`).

These inductions use no operator parameter.  `LeastSubset` and `Smallest` take from the library that the subsets of a
finite set and the natural numbers are well-founded; the least counterexample is then an ordinary witness.  The lemmas
from `SumIsUnique` to `TotalTakesAny` derive in this way what `MapThenSumSet` of the community modules
returns: a sum takes its elements one by one, in any order.

### Accounts (`SubscriberAccounts_proofs`)

* `PackagesOutliveSubscribers` (`PackageOutlivesSubscribers`): from `PackageInv`.  A request that has
  found its package and is about to assign it finds it still there, and a removal that has found no
  subscriber finds none still (`PackagesFit`), unless the other was under way and is in `raced`.
* `LoginsFollowRows` (`LoginFollowsRow`): from `LoginInv`, over `RequestsFit`, which says of each kind of request which statements it
  still awaits, in their order.  A request that nothing about its username has overlapped is `clean`.
  Its copy of the row agrees with the row in what it is about to push (`CopyFits`), and what it has pushed so far
  has told FreeRADIUS just that (`PushFits`, up to the statements ahead); a subscriber not disturbed is
  right until a request writes its row (`UndisturbedGood`).  So the DELETE and INSERT of four
  attributes end where the row stands, from *whatever* an earlier failure left behind: a
  whole push needs no knowledge of the state before it.

### Fleet (`FleetReports_proofs`)

All five invariants of the `fleet` run are proved, for any fleet, any tree of interfaces, any plan and any number of
requests under way: `CountedOnce` (`NoPacketCountedTwice`), `FleetCountsAgree` (`FleetAddsUp`), `RevenueViewsAgree`
(`RevenueAddsUp`), `GapIsTheRest` (`GapIsWhatWasNotCounted`) and `ReportsTellOneStory` (`ReportsAgree`).

* `FleetInvariant`: `State` and `Line`, which are `TrafficInv` of `FleetTraffic` in two halves together with
  `NoPacketCountedTwice`, are inductive.
  `Line` speaks of each request and the statements ahead of it (`Fits`): one that is going to write a
  row has found those the row will rely on, or is going to look for them (`WriterFits`); one that is
  going to remove a row has found nothing that relies on it, or will look (`RemoverFits`); an assignment has compared
  its interface with those it counts with, or will (`AssignmentFits`).  Each has the exception that
  the request which undid the finding is noted in `raced`, and `RacesNoted` is why it is.  `State` is what follows for the rows: each
  has what it relies on (`RowsStand`), and no interface counts with one it is a member of (`BooksApart`).  There is
  one lemma per handler and per kind of statement.
* The properties then hold in each such state, by lemmas about sums: a total does not depend on the order, splits over
  disjoint parts, and is the total over the groups of the totals of the groups (by ship, package, tenant, zone,
  interface, time).  `SumFunction` is a recursive fold, so all of them rest on
  one induction over subsets, `LeastSubset`, written as a least counterexample (as for the counters, above).
* `ReportsTellOneStory` has four parts.  `ZonesHold` needs that the two ways of writing a direction agree (`ZonesByGroup`).
  `CrewHolds` compares three sums over sessions with nulls: a sum that leaves out nulls is the one that counts them as
  nought (`TotalOfGiven`, `SessionBytes`), sessions are parted among their users (`UserBytes`), and the total of a user
  is what is billed or nothing, so the totals shown are at most the bill, and equal it where no user lacks just one
  direction.  `FlowsHold` has the services of a user within the names shown only for a user of at most `ShownDomains`
  names; beyond that the cut makes it false, as TLC shows with one name shown.  `FleetHolds` sums the ships.
* `NoPacketCountedTwice` carries a packet up the tree of interfaces: `Above` is the smallest set closed under parents,
  and a packet is counted in the zone each of them has *at that moment*, so the property is about two deltas
  of the past and has to be kept by every later assignment.
* `OfficeOK` and `TrafficOK` type the constants and say that a plan starts from finitely many rows that have those they
  name in a foreign key (`Relied`).

### Console (`OperatorConsole_proofs`)

* `NetworksKeepSettings`, `NetworksKeepMembers` (`SettingsStay`, `MembersStay`): from `ConsoleInv`.  The form
  belongs to the network being edited, and one read of it is outstanding at most (`FormInv`); the
  table to the one selected (`TableInv`); or reads of that kind have overlapped.  What is open in a row is of the table
  shown, unless it was open when another network was selected (`RowMoves`).
* `PanelsShowSelection`, `ChangesSeen` (`PanelShowsSelection`, `ChangesAreShown`): from `PortalFitsAlways`,
  that `PortalInv` always holds, of any of the thirteen pages, for any values of the selections, any rows, clicks
  and failures, and answers in any order.  Neither property is inductive: both are about a panel that is settled and
  say nothing of the calls that will settle it.  `PanelFits` does: a panel not in doubt has one call at most
  whose answer it will take (`Writers`; where requests are numbered, those of the newest number only).  If
  that call is a read, the loading flag is up, it asks for what is selected now, and it began after the last
  change.  If there is none, what is shown is for what is selected and has every change, or the error notice is up.
  `NumbersFit` keeps the numbers of requests at or below the panel's, so that a new one or a cleanup
  outdates all before; `CallFits` says what a call carries, and that the panel an action needed is still there.
* Almost every step ends in a render, and `RenderFits` is the argument about it.  An effect that runs
  begins the panel's one call, and if others were outstanding on a panel without numbers that is `doubt`
  (`FreshRead`, `NoDoubt`).  An effect that does not run was watching the same selections before
  (`StillWatched`), so nothing it knows is out of date (`NotRead`).  `NoEffect` is why a handler's own read does not meet
  an effect's: the selections stay, and a panel that an action fills and others follow was there before.
* That last fact is not one of the machine but of the pages.  `PageFormed` lists what is used of a page (an
  action fills, and reads afterwards, only panels without numbers; what it fills and others follow is the panel it needs;
  ...), and `EveryPageFormed` proves it of all thirteen, read off their panels, actions and tabs.
  A page whose button filled a panel that numbers its requests would fail there.
* `PortalOK` says that the pages opened are pages of `PortalViews` and that the "no value" constant is
  neither a panel nor something a panel asks for.

### Only model-checked, and why

* Liveness (`EverythingIsBilled`, `WaitersRun`, `OpenIsProbedAgain`, `MaintenanceSettles`,
  `CacheSettles`, `StoppedIsClosed`, `LoadingEnds`) is out of the prover's reach: it needs ENABLED.
* What a run expects to be violated (section 6).

## 5. Not modelled

* **Service registry**: a cache in memory that events empty.  What a look-up returns while an update is
  under way is the open question (section 6).
* **Retry with time-out**: sequential; the sweep sees one probe that ends.
* **DNS cache, DNS log collector, other collectors**: a bounded map in front of a table; parsing of lines;
  polling of devices over vendor APIs.
* **Change of authorisation**: one datagram, one answer or a time-out, nothing written; the session ends,
  if it does, by the STOP of the router, which `RadiusAccounting` has.
* **Authentication, configuration, encryption, audit**: single statements and cryptography.
* **Portal client and layout**: the client is generated from the contract; the frame and the token
  check keep no state that a page depends on.  Of the pages: what is drawn, forms and their checks,
  dialogs and the clipboard.
* **Of modelled parts**: the look-up of a binding at the time of a flow and the age limit of the
  connection table; the reset of a quota; creation and revisions of service endpoints; raw counter
  samples and rates in the dashboard; the flows of single devices, raw flows and the sessions of one user, which are single reads; the environment keys a settings form writes; generated router scripts; decoding and
  authenticator checks of packets, which are filters before what is modelled.

`PROJECT.json` lists every component with its status.

## 6. What the runs found

1. `radius_v_replay`: the catch-up endpoint (`libs/telemetry-normalize/normalization.service.ts:90`) claims
   no row.  It normalises a row that a UDP handler has in hand; both read the old total and both charge
   the difference.  `radius-parser.ts:100-101` calls the delta of a repeated value zero "by design".
2. `counters_v_retry`: a statement fails between a sample and its delta.  The replay finds the sample,
   returns `SAMPLE_ALREADY_NORMALIZED` (`interface-parser.ts:77`) and the event is marked processed: the
   delta never comes.  `normalization.service.ts:59-60` says the event is left pending "instead of
   silently dropping" it.
Where the code does less than a document or a comment of the repository says, a property has a condition for it:

* A START that is handled after the STOP of its session finds the session ended and opens a binding all the same
  (`radius-parser.ts:195`), which nothing of that session closes.  `docs/backend/04-RISK_REGISTER.md:51` wants
  `valid_to` closed as soon as there is an Acct-Stop.  `EndedHoldsNoAddress` is about packets in order.
* `create` and `update` of a device store its `credential_ref` and address (`devices.service.ts:150`, `:179`, `:183`)
  and do not tell FreeRADIUS, which goes on with no secret or an old one.  `devices.service.ts:504-505` says the secret
  "must be in" its table `nas`, not in the control DB alone.  `NasFollowsSecret` leaves those addresses out (`stray`).
* The first click of a removal belongs to the node and not to its row in one network
  (`frontend/src/pages/VpnZeroTier.tsx:351`): after another network is selected, one click on the node removes it there.
  `docs/runbooks/zerotier-dashboard.md:37` has every removal confirmed in a second step.  An edit of its name or addresses
  stays open the same way, and is then saved in the other network.  `MembersStay` leaves such rows out (`row.moved`).
* The pages of an area and of a ship start with their loading flag up (`frontend/src/pages/AreaDashboard.tsx:21`,
  `ShipDashboard.tsx:115`), and the callback that is to lower it returns at once while nothing is selected (`:42`, `:241`).
  With no areas, or when the list of them fails, the spinner stays and the filters cannot be applied.  The comment at
  `AreaDashboard.tsx:58` has the callback own the flag.  `LoadingEnds` is about panels that have something to ask for.

What the attempt to prove found about the models, beyond the bounds of the runs:

* `MembersStay` held in the run and was false: with one more click, two reads of members begin together when a
  change and a selection are answered.  `overlap` now notes reads that *begin* together as well as those
  outstanding together.
* `DeltasAddUp` held with the increments of the run and failed with an increment of zero: two readings of one
  value may be stamped in either order, and only a reboot between them tells them apart.  `StampedInOrder` says so now.
* `EndedHoldsNoAddress` holds whatever is lost or fails, not only with the one failure of the run.
* `ImplementsBilling` needs that no catch-up runs, not only that packets are in order.
* That a cleanup may outdate a read rests on nothing being changed where requests are numbered
  (`NumbersFit`): the panel left behind has no newer read to come and yet shows every change.

Behaviours the models contain that no run singles out, because no sentence of the repository promises otherwise
or because the cause is shown above.

Accounting and health:

* The first INTERIM_UPDATE of a session whose START was missed creates the row with its bytes
  (`radius-parser.ts:228`) and charges none of them.  A failure between the update of the session and the
  increment of the quota loses the charge: the replay finds the total already stored.
* A START replayed after another session took its address fails the interval check for ever; an older
  INTERIM_UPDATE replayed later moves the stored total back, and the difference is charged again; one that made its
  session and failed to open its binding never opens it when it is replayed.
* `radius_accounting_events` gets one row per attempt.  The answer to the NAS precedes the store: a failure
  before `InsertRaw` loses the packet.
* A forced check that fails while a trial probe is under way reopens the breaker.  An alert may fire after
  the endpoint recovered, and two or no endpoints may be active, until a sweep runs alone.  A probe in flight overwrites
  MAINTENANCE.  A disabled or removed endpoint keeps `is_active` and its open alert.  The guard of the last healthy
  endpoint is not repeated by the update it guards.  `restore()` of the breaker has no caller.

Accounts, inventory and synchronisation:

* `bulkAssign` and `packages.update` push nothing to FreeRADIUS: rate limits stay until another change.
  `setPassword` pushes the row it found before its write, so that a suspension or removal in between is undone there.
* FreeRADIUS refuses no exhausted quota, while `handleAccessRequest` does.
* Two tenants' rows of one username share one set of rows in `radcheck`.
* A router that appears after its sessions: their rows are passed over, and once stopped are not looked at again.
* A device that changes its address, or is removed, leaves its row in `nas`; a failure to write `nas` is only logged.
* One device per ship is a look-up before an INSERT; two requests make two.
* A look-up of the service registry that started before an update may fill the cache after the event has emptied it.

Counters and reports:

* Pushes that overlap may be stamped in another order than the router read its counter; the late one looks like a
  reboot and its whole counter is counted again.
* A router that reboots and then outgrows its old counter hides the reset.
* An interface not counted, and one two levels above (`interfaces.service.ts:157`), count a packet of
  the same zone twice; `counted_in_reconciliation` is read by no report.
* `getUnknownFlows` returns what the raw records return, named flows included (comment at
  `business.service.ts:243`).  `getShip` shows a ship's area without asking whether it was removed.
* Creating a tenant with the code of a removed one passes the look-up and fails on the unique index with an
  internal error, where `tenants.service.ts:74-76` promises a conflict.

Portal:

* Panels that number nothing (routers, users, tenants, packages, RADIUS, settings, the ZeroTier page) keep
  whichever answer comes last; on the ZeroTier page that can put one network's settings or members under another.
* A handler reloads with the filters of the click.  A reload after `resetQuota` overwrites edits not yet
  saved; `saveEdit` sends the expiry it was shown, so a date set elsewhere is reset.  The end
  of a save deselects, and drops the edits of a row selected since.
* The audit and crew-user panels of a subscriber are never read again; the sessions of the former ship's crew
  user stay under the new ship until its own come.
* A secret revealed while another is being set may be shown after it (`DeviceDetail.tsx:249`).
* Closing the router wizard by its cross does not read the list again.  A bulk action that fails half-way reports
  the failure and reloads nothing of what succeeded.  Login has no guard against a second submit.

## 7. What could follow

1. The service registry's cache against updates and maintenance: a look-up that began after an update
   returned sees it.
2. The look-up of bindings by time for flows, composed with `BindingTable`: at most one answer.
3. Reset of a quota beside the accounting pipeline.
