---------------------------- MODULE FleetReports ----------------------------
(***************************************************************************)
(* What the reports say: of the traffic of a fleet over a period, the      *)
(* reconciliation of a ship and of the fleet, by zone, by interface and    *)
(* over time, the business zone, the crew and the flows; of the back       *)
(* office, how many rows there are and what the subscriptions are worth.   *)
(*                                                                         *)
(* A number that may be null is a set of at most one number.  A report is  *)
(* read in one state (InterfaceCounters has the queries of one that deltas *)
(* come between); how it is sorted, paged and worded is left out, and so   *)
(* are the percentages.                                                    *)
(***************************************************************************)
EXTENDS FleetTraffic, Functions

CONSTANT ShownDomains  \* how many names are shown with a user (20)
ASSUME ShownOK == ShownDomains \in Nat

(* Numbers that may be null; the numbers that are summed are a function.   *)

Zero(x) == IF x = {} THEN 0 ELSE CHOOSE n \in x : TRUE
TotalOf(f) == IF DOMAIN f = {} THEN {} ELSE {SumFunction(f)}
Plus(x, y) == IF x \union y = {} THEN {} ELSE {Zero(x) + Zero(y)}

\* computeGap.
Gap(measured, reported) == {m - r : m \in measured, r \in reported}

\* from and to of a query: refused unless the one is before the other.
Periods == {p \in [from : Times, to : Times] : p.from < p.to}
During(p, t) == p.from <= t /\ t <= p.to

Sailing == {s \in Ships : <<"ship", s>> \in live}

-----------------------------------------------------------------------------
(* Reports of the counters.                                                *)

Rx(d) == IF d.packet.down = (d.iface \in Uplinks) THEN d.packet.bytes ELSE 0
Tx(d) == IF d.packet.down = (d.iface \in Uplinks) THEN 0 ELSE d.packet.bytes

\* An uplink receives what is downloaded, an interface inside transmits it.  The
\* reports by interface, over time and of the fleet ask each delta for its group.
Down(d) == IF d.group = "WAN_INPUT" THEN Rx(d) ELSE Tx(d)
Up(d) == IF d.group = "WAN_INPUT" THEN Tx(d) ELSE Rx(d)

Measured(s, p) == {d \in deltas : d.packet.ship = s /\ During(p, d.packet.at)}
In(g, S) == {d \in S : d.group = g}

DownOf(S) == TotalOf([d \in S |-> Down(d)])
UpOf(S) == TotalOf([d \in S |-> Up(d)])

ByGroup(s, p, g) == [down |-> DownOf(In(g, Measured(s, p))), up |-> UpOf(In(g, Measured(s, p)))]

Received(S) == TotalOf([d \in S |-> Rx(d)])
Sent(S) == TotalOf([d \in S |-> Tx(d)])

\* Faulty variant: what any interface receives is a download.
SumZoneReceived(s, p, g) ==
  LET S == In(g, Measured(s, p)) IN [down |-> Received(S), up |-> Sent(S)]

\* sumZoneBytes: the zone that is asked for says which column is which.
SumZone(s, p, g) ==
  LET S == In(g, Measured(s, p))
  IN IF g = "WAN_INPUT" THEN [down |-> Received(S), up |-> Sent(S)]
                        ELSE [down |-> Sent(S), up |-> Received(S)]

\* getByZone; with the fields of no zone where it is unavailable.
ByZone(s, p) == [g \in {z \in Zones : \E y \in Zones : In(y, Measured(s, p)) # {}} |->
                   SumZone(s, p, g)]

\* byInterfaceGroup: a row for each interface and group it has had.
ByInterface(s, p) ==
  {[iface |-> i, group |-> g,
    down |-> DownOf({d \in In(g, Measured(s, p)) : d.iface = i}),
    up |-> UpOf({d \in In(g, Measured(s, p)) : d.iface = i})] :
      i \in Interfaces, g \in {d.group : d \in Measured(s, p)}}

Filled(S) == {r \in S : r.down # {}}

\* getTimeseries: the points of each moment, by zone.
Timeseries(s, p) ==
  [t \in {d.packet.at : d \in Measured(s, p)} |->
     [g \in Zones |-> LET here == {d \in In(g, Measured(s, p)) : d.packet.at = t}
                      IN [down |-> DownOf(here), up |-> UpOf(here)]]]

\* The sessions that have run in the period, with all their bytes: a sum leaves
\* out those that are null, and is null where all are.
SessionsIn(s, p) == {r \in sessions : r.ship = s /\ r.start <= p.to /\ p.from <= r.stop}
UserDown(S) == TotalOf([r \in {r \in S : r.down # {}} |-> Zero(r.down)])
UserUp(S) == TotalOf([r \in {r \in S : r.up # {}} |-> Zero(r.up)])

CountedDown(zone) ==
  Plus(Plus(zone["CREW_ACCESS"].down, zone["BUSINESS_ACCESS"].down), zone["MANAGEMENT"].down)
CountedUp(zone) ==
  Plus(Plus(zone["CREW_ACCESS"].up, zone["BUSINESS_ACCESS"].up), zone["MANAGEMENT"].up)

\* getSummary, of a ship with a delta of some zone (else it is unavailable).
Summary(s, p) ==
  LET zone == [g \in Zones |-> SumZone(s, p, g)]
      users == SessionsIn(s, p)
  IN [zone |-> zone,
      user |-> [down |-> UserDown(users), up |-> UserUp(users)],
      crewGap |-> [down |-> Gap(zone["CREW_ACCESS"].down, UserDown(users)),
                   up |-> Gap(zone["CREW_ACCESS"].up, UserUp(users))],
      wanGap |-> [down |-> Gap(zone["WAN_INPUT"].down, CountedDown(zone)),
                  up |-> Gap(zone["WAN_INPUT"].up, CountedUp(zone))],
      complete |-> zone["WAN_INPUT"].down # {} /\ zone["CREW_ACCESS"].down # {}]

HasSummary(s, p) == \E g \in Zones : In(g, Measured(s, p)) # {}

\* Faulty variant: the ships are not asked whether they are removed.
FleetSessionsAll(p) == UNION {SessionsIn(s, p) : s \in Ships}

FleetSessions(p) == UNION {SessionsIn(s, p) : s \in Sailing}

\* getGlobalSummary: ships not removed that have a delta, of any group.
GlobalSummary(p) ==
  LET ships == {s \in Sailing : Measured(s, p) # {}}
      zone == [s \in ships |-> [g \in Zones |-> ByGroup(s, p, g)]]
      having(g) == {s \in ships : zone[s][g].down # {}}
      fleet == [g \in Zones |->
                  [down |-> TotalOf([s \in having(g) |-> Zero(zone[s][g].down)]),
                   up |-> TotalOf([s \in having(g) |-> Zero(zone[s][g].up)])]]
      users == FleetSessions(p)
  IN [ships |-> [s \in ships |-> [gap |-> Gap(zone[s]["WAN_INPUT"].down, CountedDown(zone[s])),
                                  counted |-> CountedDown(zone[s])]],
      zone |-> fleet,
      user |-> [down |-> UserDown(users), up |-> UserUp(users)],
      wanGap |-> Gap(fleet["WAN_INPUT"].down, CountedDown(fleet)),
      crewGap |-> Gap(fleet["CREW_ACCESS"].down, UserDown(users))]

-----------------------------------------------------------------------------
(* Reports of the business zone and of the crew.                           *)

FlowsIn(s, p) == {f \in flows : f.ship = s /\ During(p, f.at)}
FlowBytes(S) == SumFunction([f \in S |-> f.bytes])

\* getUsage, one sum for its points.
BusinessUsage(s, p) ==
  LET S == In("BUSINESS_ACCESS", Measured(s, p)) IN [down |-> Sent(S), up |-> Received(S)]

\* getFlowsSummary: by_app has what DNS has named, "other" where the name is in
\* no catalogue; by_domain (of which only ten are shown) what has a name.
Named(S) == {f \in S : f.name # None}
FlowsSummary(s, p) ==
  [total |-> FlowBytes(FlowsIn(s, p)),
   byApp |-> [service |-> FlowBytes({f \in Named(FlowsIn(s, p)) : f.name \in Catalogue}),
              other |-> FlowBytes({f \in Named(FlowsIn(s, p)) : f.name \notin Catalogue})],
   unattributed |-> FlowBytes(FlowsIn(s, p)) - FlowBytes(Named(FlowsIn(s, p)))]

\* domain_usage: the names of some flows with their bytes, of which those with
\* the most are shown.
DomainUsage(S) ==
  LET names == {f.name : f \in S}
      bytes == [n \in names |-> FlowBytes({f \in S : f.name = n})]
      shown == IF Cardinality(names) <= ShownDomains THEN names
               ELSE CHOOSE T \in SUBSET names :
                      /\ Cardinality(T) = ShownDomains
                      /\ \A m \in T, n \in names \ T : bytes[m] >= bytes[n]
  IN Restrict(bytes, shown)

SessionsOf(u, s, p) == {r \in SessionsIn(s, p) : r.user = u}
FlowsOf(u, s, p) == {f \in FlowsIn(s, p) : f.user = u}

\* listUsers of a ship: the subscribers of its router, and whoever has had a
\* session; what their sessions and named flows add up to.
CrewUsers(s, p) ==
  [u \in {r.user : r \in SessionsIn(s, p)} \union {r[2] : r \in HeldBy("nas", s)} |->
     LET up == UserUp(SessionsOf(u, s, p))
         down == UserDown(SessionsOf(u, s, p))
     IN [up |-> up, down |-> down,
         total |-> {m + n : m \in up, n \in down},
         services |-> FlowBytes({f \in FlowsOf(u, s, p) : f.name \in Catalogue}),
         domains |-> DomainUsage(Named(FlowsOf(u, s, p)))]]

\* billing_reconciliation: what flows have seen of users, beside what was billed,
\* user by user.
Billing(s, p) ==
  LET bill(u) == Zero(UserUp(SessionsOf(u, s, p))) + Zero(UserDown(SessionsOf(u, s, p)))
  IN [netflow |-> FlowBytes({f \in FlowsIn(s, p) : f.user # None}),
      billed |-> SumFunction([u \in {r.user : r \in SessionsIn(s, p)} |-> bill(u)])]

-----------------------------------------------------------------------------
(* Reports of the back office.                                             *)

\* getArea: the ships of an area.  getShip: a ship's area, which is looked up
\* without asking whether it is removed, and how many routers it has.
AreaPage(a) == {r[2] : r \in ShipsOf(a)}
ShipPage(s) == [area |-> AreaOf[s], routers |-> Cardinality(RoutersOf(s))]

PriceOf(r) == Price[account[r[2]].package]
Worth(S) == [count |-> Cardinality(S), value |-> SumFunction([r \in S |-> PriceOf(r)])]
Active == HeldBy("status", "ACTIVE")

\* getGlobalSummary of finance.  by_ship has a row of None for a subscriber
\* without a router, or whose router's ship is removed.
ByShip ==
  LET shipOf(r) == IF account[r[2]].nas \in Sailing THEN account[r[2]].nas ELSE None
  IN [s \in {shipOf(r) : r \in Active} |-> Worth({r \in Active : shipOf(r) = s})]

ByPackage == [k \in {r[2] : r \in Of("package")} |-> Worth(Active \intersect HeldBy("package", k))]

ByTenant == [t \in {r[2] : r \in Of("tenant")} |-> Worth(Active \intersect HeldBy("tenant", t))]

Revenue ==
  [totals |-> Worth(Active),
   expiring |-> Worth(Active \intersect HeldBy("ends", "soon")),
   breakdown |-> [x \in Statuses |-> Cardinality(HeldBy("status", x))]]

-----------------------------------------------------------------------------
(* Properties.                                                             *)

\* An interface and the one it is a member of never count the same packet in
\* the same group, whatever is assigned in whatever order: unless one of them
\* was said not to count, or requests about them overlapped.  (Two levels
\* apart, or with that flag, they do.)
NoPacketCountedTwice ==
  \A d, e \in deltas :
    /\ d.packet = e.packet /\ parent[d.iface] = e.iface
    /\ d.group = e.group /\ d.group # "NONE"
    /\ d.counted /\ e.counted
    => {<<"interface", d.iface>>, <<"interface", e.iface>>} \intersect raced # {}

\* The two directions are never mixed: where uplinks are in WAN_INPUT and only
\* they, and every packet is counted there once and inside at most once, the
\* gap of each direction is what went that way and was counted nowhere inside.
Crossings(S, k) == {d \in S : d.packet = k}
Straight(S) ==
  /\ \A d \in S : d.group = "WAN_INPUT" => d.iface \in Uplinks
  /\ \A d \in S : d.group \in Access => d.iface \notin Uplinks
  /\ \A k \in {d.packet : d \in S} :
       /\ Cardinality(In("WAN_INPUT", Crossings(S, k))) = 1
       /\ Cardinality({d \in Crossings(S, k) : d.group \in Access}) <= 1

Lost(S, down) ==
  SumFunction([k \in {k \in {d.packet : d \in S} :
                     k.down = down /\ \A d \in Crossings(S, k) : d.group \notin Access} |->
                 k.bytes])

GapIsWhatWasNotCounted ==
  \A s \in Sailing, p \in Periods :
    LET S == Measured(s, p)
    IN Straight(S) /\ S # {} =>
         /\ \A gap \in Summary(s, p).wanGap.down : gap = Lost(S, TRUE)
         /\ \A gap \in Summary(s, p).wanGap.up : gap = Lost(S, FALSE)

\* The reports of one ship do not contradict each other, though each has a query
\* of its own: a zone is the sum of its interfaces, of its points in time and, for
\* business, of its usage.
ZonesAgree ==
  \A s \in Sailing, p \in Periods :
    LET rows == Filled(ByInterface(s, p))
        points == Timeseries(s, p)
        zones == ByZone(s, p)
    IN /\ rows = {} => zones = <<>>
       /\ \A g \in DOMAIN zones :
            /\ zones[g].down = TotalOf([r \in In(g, rows) |-> Zero(r.down)])
            /\ Zero(zones[g].up) =
                 SumFunction([t \in DOMAIN points |-> Zero(points[t][g].up)])
            /\ g = "BUSINESS_ACCESS" => zones[g] = BusinessUsage(s, p)

\* The users have had, in each direction, what the summary says they had, and are
\* billed both.  The totals beside their names are less where one direction is
\* null, since they are null there.
CrewAgrees ==
  \A s \in Sailing, p \in Periods :
    LET crew == CrewUsers(s, p)
        user == Summary(s, p).user
        billed == Billing(s, p).billed
        totals == SumFunction([u \in DOMAIN crew |-> Zero(crew[u].total)])
    IN /\ SumFunction([u \in DOMAIN crew |-> Zero(crew[u].down)]) = Zero(user.down)
       /\ SumFunction([u \in DOMAIN crew |-> Zero(crew[u].up)]) = Zero(user.up)
       /\ billed = Zero(user.up) + Zero(user.down)
       /\ totals <= billed
       /\ (\A u \in DOMAIN crew : crew[u].up = {} <=> crew[u].down = {}) => totals = billed

\* The report of the fleet is the sum of those of its ships, for the ships not
\* removed, and its gap the sum of theirs where each has both ends.
FleetIsItsShips ==
  \A p \in Periods :
    LET fleet == GlobalSummary(p)
        own == [s \in Sailing |-> Summary(s, p)]
        all(g) == {s \in Sailing : own[s].zone[g].down # {}}
    IN /\ \A g \in Zones :
            /\ fleet.zone[g].down = TotalOf([s \in all(g) |-> Zero(own[s].zone[g].down)])
            /\ fleet.zone[g].up = TotalOf([s \in all(g) |-> Zero(own[s].zone[g].up)])
       /\ {s \in Sailing : HasSummary(s, p)} \subseteq DOMAIN fleet.ships
       /\ \A s \in DOMAIN fleet.ships :
            HasSummary(s, p) => fleet.ships[s].gap = own[s].wanGap.down
       /\ Zero(fleet.user.down) = SumFunction([s \in Sailing |-> Zero(own[s].user.down)])
       /\ (\A s \in DOMAIN fleet.ships : fleet.ships[s].gap # {}) /\ fleet.wanGap # {} =>
            fleet.wanGap = {SumFunction([s \in DOMAIN fleet.ships |-> Zero(fleet.ships[s].gap)])}

\* What users are said to have had of services is part of what the ship has had,
\* and of what is compared with their bills; and of what is said of the names they
\* have asked for, unless these are more than are shown.
FlowsAgree ==
  \A s \in Sailing, p \in Periods :
    LET crew == CrewUsers(s, p)
        services == SumFunction([u \in DOMAIN crew |-> crew[u].services])
    IN /\ services <= FlowsSummary(s, p).byApp.service
       /\ services <= Billing(s, p).netflow
       /\ \A u \in DOMAIN crew :
            Cardinality({f.name : f \in Named(FlowsOf(u, s, p))}) <= ShownDomains
              => crew[u].services <= SumFunction(crew[u].domains)

\* The reports of one ship and those of the fleet tell one story.
ReportsAgree == ZonesAgree /\ CrewAgrees /\ FleetIsItsShips /\ FlowsAgree

\* The rows counted from above and from below are the same: every ship is in
\* an area that is there and that lists it, every router on a ship that is.
\* Only what was removed while another request relied on it is lost.
FleetAddsUp ==
  /\ ~(\E r \in raced : r[1] = "area") =>
       /\ Totals.ships = SumFunction([r \in Of("area") |-> ShipCount(r[2])])
       /\ \A s \in Sailing :
            \E r \in Of("area") : s \in AreaPage(r[2]) /\ ShipPage(s).area = r[2]
  /\ ~(\E r \in raced : r[1] = "ship") =>
       /\ Totals.routers = SumFunction([r \in Of("ship") |-> RouterCount(r[2])])
       /\ Totals.routers = SumFunction([s \in Sailing |-> ShipPage(s).routers])

\* What the subscriptions are worth is the same by ship, by package and by
\* tenant, though each report joins other tables, some of which leave rows
\* out: the look-ups before each removal are what keeps them equal.
SumOf(report) == SumFunction([x \in DOMAIN report |-> report[x].value])
RevenueAddsUp ==
  /\ SumOf(ByShip) = Revenue.totals.value
  /\ ~(\E r \in raced : r[1] = "package") => SumOf(ByPackage) = Revenue.totals.value
  /\ ~(\E r \in raced : r[1] = "tenant") => SumOf(ByTenant) = Revenue.totals.value
  /\ Revenue.expiring.value <= Revenue.totals.value
  /\ Revenue.breakdown["ACTIVE"] = Revenue.totals.count
  /\ SumFunction(Revenue.breakdown) = Cardinality(Of("subscriber"))

=============================================================================
