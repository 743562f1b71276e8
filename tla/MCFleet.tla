------------------------------ MODULE MCFleet ------------------------------
(* Values of FleetReports's constants for TLC.                             *)
EXTENDS FleetReports, TLC

CONSTANTS a1, a2, s1, s2, t1, t2, k1, k2, u1, u2, w, a, b, x, p1, p2, d1, d2, d3

Home == [i \in Interfaces |-> IF i = x THEN s2 ELSE s1]
InFirst == [s \in Ships |-> a1]
OwnCode == [t \in Tenants |-> t]
Prices == [k \in Packages |-> IF k = k1 THEN 1 ELSE 3]

Sure == {<<"area", a1>>, <<"ship", s1>>, <<"router", s1>>}
Both == Sure \union {<<"ship", s2>>, <<"router", s2>>}

There(S) == [i \in Interfaces |-> IF i \in S THEN "NONE" ELSE "ABSENT"]
Customer == [tenant |-> t1, package |-> k1, nas |-> s1, status |-> "ACTIVE", ends |-> "soon"]

Plan == [rows |-> Sure, customer |-> Customer, accounts |-> {}, kinds |-> {}, requests |-> 0, overlap |-> TRUE,
         groups |-> {}, interfaces |-> {}, first |-> {There({})}, events |-> {}, traffic |-> 0, moments |-> {1}, lasts |-> {}]

\* Two interfaces, one a member of the other, are assigned and carry a packet.
Assigning == [Plan EXCEPT !.first = {There({a})}, !.interfaces = {b}, !.kinds = {"createInterface", "assignZone"},
                          !.requests = 3, !.groups = {"CREW_ACCESS"},
                          !.events = {"carry"}, !.traffic = 1]

\* Two ships carry packets, and change.
Summing == [Plan EXCEPT !.rows = Both, !.events = {"carry"}, !.traffic = 2, !.moments = {0, 2},
  !.first = {[i \in Interfaces |-> CASE i = w -> "WAN_INPUT" [] i = a -> "CREW_ACCESS" [] i = b -> "ABSENT"
                                     [] i = x -> g] : g \in {"WAN_INPUT", "NONE"}},
  !.kinds = {"assignZone"}, !.groups = {"BUSINESS_ACCESS"}, !.requests = 1, !.overlap = FALSE]

\* Users are seen on two ships, one of which is removed.
Calling == [Plan EXCEPT !.rows = Both \union {<<"tenant", t1>>, <<"package", k1>>, <<"subscriber", u1>>}, !.events = {"account"}, !.traffic = 2,
  !.moments = {0, 2}, !.lasts = {0}, !.kinds = {"removeRouter", "removeShip"}, !.requests = 2, !.overlap = FALSE]

\* Flows of a subscriber, for one name or for two, who is removed.
Flowing == [Plan EXCEPT !.rows = Sure \union {<<"tenant", t1>>, <<"package", k1>>, <<"subscriber", u1>>}, !.events = {"record"}, !.traffic = 2,
  !.moments = {0, 2}, !.kinds = {"removeSubscriber"}, !.requests = 1]

\* Ships and routers come and go, while areas do.
Building == [Plan EXCEPT !.kinds = {"createArea", "removeArea", "createShip", "removeShip", "createRouter", "removeRouter"},
                         !.requests = 4]

\* Subscribers, their tenants and their packages come and go.
Selling == [Plan EXCEPT
  !.rows = Both \union {<<"tenant", t1>>, <<"package", k1>>, <<"package", k2>>, <<"subscriber", u1>>},
  !.accounts = {[tenant |-> t, package |-> k, nas |-> s1, status |-> st, ends |-> "soon"] :
                  t \in {t1, t2}, k \in Packages, st \in {"ACTIVE", "SUSPENDED"}},
  !.kinds = {"createTenant", "removeTenant", "createPackage", "removePackage", "createSubscriber", "updateSubscriber", "removeSubscriber"},
  !.requests = 3]

OneOfSix == {Assigning, Summing, Calling, Flowing, Building, Selling}
Symmetry == Permutations(Requests)

=============================================================================
