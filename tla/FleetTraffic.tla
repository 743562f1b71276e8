---------------------------- MODULE FleetTraffic ----------------------------
(***************************************************************************)
(* What the reports of a fleet are made from.  The interfaces of a ship's  *)
(* router are entered and assigned to accounting groups; a packet is       *)
(* counted by every interface it crosses, and each delta keeps the group   *)
(* its interface has at that moment.  RADIUS sessions and flow records     *)
(* come beside them.                                                       *)
(***************************************************************************)
EXTENDS BackOffice

CONSTANTS
  Interfaces,  \* interface rows
  HomeOf,      \* the ship whose router has the interface
  Uplinks,     \* the interfaces on the side of the Internet
  Users,       \* users of the crew
  Domains,     \* names that DNS finds for addresses
  Catalogue,   \* those of a service that is known
  LastTime     \* bound: moments

\* The four groups reports are about; NONE is an interface not assigned.
Access == {"CREW_ACCESS", "BUSINESS_ACCESS", "MANAGEMENT"}
Zones == Access \union {"WAN_INPUT"}
Groups == Zones \union {"NONE"}

ASSUME TrafficOK ==
  /\ None \notin Interfaces \union Users \union Subscribers \union Domains
  /\ Catalogue \subseteq Domains /\ IsFiniteSet(Interfaces)
  /\ HomeOf \in [Interfaces -> Ships] /\ Uplinks \subseteq Interfaces
  /\ LastTime \in Nat \ {0}
  /\ \A p \in Plans :
       /\ p.first \subseteq [Interfaces -> Groups \union {"ABSENT"}]
       /\ "interfaces" \in DOMAIN p /\ p.interfaces \subseteq Interfaces

VARIABLES
  entered,  \* interfaces: those there
  parent,   \* interfaces: the one each is a member of, or None
  group,    \* interfaces: accounting_group
  counted,  \* interfaces: counted_in_reconciliation
  packets,  \* what the interfaces have carried (the outside world)
  deltas,   \* interface_counter_deltas: interface, group, and the packet measured
  sessions, \* radius_sessions
  flows     \* ipfix_flow_records

books == <<entered, parent, group, counted>>
traffic == <<packets, deltas, sessions, flows>>
fleetVars == <<officeVars, plan, books, traffic>>

Times == 0..LastTime
Open == LastTime + 1

InitFleet ==
  /\ InitOffice
  /\ \E first \in plan.first :
       /\ entered = {i \in Interfaces : first[i] # "ABSENT"}
       /\ group = [i \in Interfaces |-> IF i \in entered THEN first[i] ELSE "NONE"]
  /\ parent = [i \in Interfaces |-> None]
  /\ counted = [i \in Interfaces |-> i \in entered]
  /\ packets = {}
  /\ deltas = {}
  /\ sessions = {}
  /\ flows = {}

-----------------------------------------------------------------------------
(* The inventory of interfaces.                                            *)

\* Faulty variant: the children are forgotten.
RelatedAbove(i) == {parent[i]} \ {None}

\* The parent and the children, not what is further away.
Related(i) == ({parent[i]} \ {None}) \union {j \in entered : parent[j] = i}

\* createForDevice: a member of another interface of the same router, or of none.
CreateInterface(p) == \E i \in plan.interfaces \ entered :
  \E over \in {j \in entered : HomeOf[j] = HomeOf[i]} \union {None} :
    /\ Admit(p, About("createInterface", <<"interface", i>>, {<<"interface", over>>}, over),
             Find(<<"router", HomeOf[i]>>) \o << <<"insertInterface">> >>)
    /\ UNCHANGED <<books, traffic>>

\* assignZone: an interface that is not to be counted is not checked.
AssignZone(p) == \E i \in entered, g \in plan.groups, count \in BOOLEAN :
  /\ Admit(p, About("assignZone", <<"interface", i>>, {<<"interface", j>> : j \in Related(i)},
                    [group |-> g, counted |-> count, related |-> {}]),
           IF count /\ g # "NONE" THEN << <<"findChildren">>, <<"findConflicts">>, <<"assign">> >>
                               ELSE << <<"assign">> >>)
  /\ UNCHANGED <<books, traffic>>

InsertInterface(p) == LET i == req[p].row[2] IN
  /\ Awaits(p, "insertInterface")
  /\ IF i \in entered
       THEN Refuse(p) /\ UNCHANGED <<entered, parent>>
       ELSE /\ entered' = entered \union {i}
            /\ parent' = [parent EXCEPT ![i] = req[p].patch]
            /\ GoOn(p)
  /\ UNCHANGED <<live, removed, above, account, plan, raced, group, counted, traffic>>

FindChildren(p) ==
  /\ Awaits(p, "findChildren")
  /\ todo' = [todo EXCEPT ![p] = Tail(@)]
  /\ req' = [req EXCEPT ![p].patch.related = Related(req[p].row[2])]
  /\ UNCHANGED <<live, removed, above, account, plan, raced, books, traffic>>

\* assertNoDoubleCount refuses the request, or it goes on.
FindConflicts(p) ==
  /\ Awaits(p, "findConflicts")
  /\ Guarded(p, ~ \E j \in req[p].patch.related : group[j] = req[p].patch.group /\ counted[j])
  /\ UNCHANGED <<live, removed, above, account, plan, raced, books, traffic>>

WriteAssignment(p) == LET i == req[p].row[2] IN
  /\ Awaits(p, "assign")
  /\ group' = [group EXCEPT ![i] = req[p].patch.group]
  /\ counted' = [counted EXCEPT ![i] = req[p].patch.counted]
  /\ GoOn(p)
  /\ UNCHANGED <<live, removed, above, account, plan, raced, entered, parent, traffic>>

-----------------------------------------------------------------------------
(* Traffic of a ship whose router is there.                                *)

Happens(what, s, t) ==
  /\ what \in plan.events /\ plan.traffic > 0
  /\ t \in plan.moments
  /\ <<"router", s>> \in live
  /\ plan' = [plan EXCEPT !.traffic = @ - 1]
  /\ UNCHANGED <<officeVars, books>>

\* An interface and those it is a member of, all of which count its packets: what
\* every set has that has the interface and, of its members, the parents.
Above(i) ==
  {j \in Interfaces : \A S \in SUBSET Interfaces :
     i \in S /\ (\A k \in S : parent[k] \in S \union {None}) => j \in S}

\* A packet crosses an uplink, an interface inside, or both; each interface on
\* its way pushes its counter, and the delta takes the group of the interface.
Carry(s, t) ==
  \E from \in (Uplinks \intersect entered) \union {None},
     to \in (entered \ Uplinks) \union {None}, down \in BOOLEAN :
    LET ends == {from, to} \ {None}
        packet == [ship |-> s, at |-> t, down |-> down, bytes |-> Cardinality(packets) + 1]
    IN /\ ends # {} /\ \A i \in ends : HomeOf[i] = s
       /\ Happens("carry", s, t)
       /\ packets' = packets \union {packet}
       /\ deltas' = deltas \union
            {[iface |-> i, group |-> group[i], counted |-> counted[i], packet |-> packet] :
               i \in UNION {Above(j) : j \in ends}}
       /\ UNCHANGED <<sessions, flows>>

\* RadiusAccounting has how a session comes about.  Packets may have left out the
\* bytes of either direction, which then are null.
Account(s, t) == \E u \in Users, stop \in {x \in t..LastTime : x - t \in plan.lasts} \union {Open} :
  LET n == 2 * Cardinality(sessions) IN
  \E up \in {{}, {n + 1}}, down \in {{}, {n + 2}} :
    /\ Happens("account", s, t)
    /\ sessions' = sessions \union
         {[ship |-> s, user |-> u, start |-> t, stop |-> stop, up |-> up, down |-> down]}
    /\ UNCHANGED <<packets, deltas, flows>>

\* FlowAttribution has how a flow record comes about.  A name is found for an
\* address, or none.
Record(s, t) == \E i \in {i \in entered : HomeOf[i] = s} \union {None}, u \in Users \union {None},
                   name \in Domains \union {None} :
  /\ Happens("record", s, t)
  /\ flows' = flows \union
       {[ship |-> s, iface |-> i, user |-> u, at |-> t, name |-> name,
         bytes |-> Cardinality(flows) + 1]}
  /\ UNCHANGED <<packets, deltas, sessions>>

NextFleet ==
  \/ \E p \in Requests :
       \/ (Arrive(p) \/ Statement(p)) /\ UNCHANGED <<books, traffic>>
       \/ CreateInterface(p) \/ AssignZone(p) \/ InsertInterface(p) \/ FindChildren(p)
       \/ FindConflicts(p) \/ WriteAssignment(p)
  \/ \E s \in Ships, t \in Times : Carry(s, t) \/ Account(s, t) \/ Record(s, t)

Spec == InitFleet /\ [][NextFleet]_fleetVars

-----------------------------------------------------------------------------
(* What makes the reports add up.  First the types, as far as they matter. *)

Steps(names) == {<<n>> : n \in names}
Statements ==
  ({"find"} \X Rows) \union
  Steps({"countShips", "countRouters", "findChild", "findSubscriber", "findInUse", "findCode",
         "insert", "update", "delete", "insertInterface", "findChildren", "findConflicts",
         "assign"})

OfficeTypeOK ==
  /\ live \subseteq Rows /\ IsFiniteSet(live)
  /\ account \in [Subscribers -> Accounts]
  /\ "accounts" \in DOMAIN plan /\ plan.accounts \subseteq Accounts
  /\ DOMAIN req = Requests
  /\ \A p \in Requests : DOMAIN req[p] = {"kind", "row", "names", "patch"}
  /\ todo \in [Requests -> Seq(Statements)]
  /\ \A p \in Requests : todo[p] # <<>> => Busy(p)

TrafficTypeOK ==
  /\ "interfaces" \in DOMAIN plan /\ plan.interfaces \subseteq Interfaces
  /\ DOMAIN parent = Interfaces /\ DOMAIN group = Interfaces /\ DOMAIN counted = Interfaces
  /\ entered \subseteq Interfaces
  /\ \A i \in entered : parent[i] \in (entered \ {i}) \union {None}
  /\ \A i \in Interfaces \ entered : group[i] = "NONE"
  /\ IsFiniteSet(packets) /\ IsFiniteSet(deltas) /\ IsFiniteSet(sessions) /\ IsFiniteSet(flows)
  /\ packets \subseteq [ship : Ships, at : Times, down : BOOLEAN, bytes : 1..Cardinality(packets)]
  /\ \A d \in deltas : d.iface \in entered /\ d.packet \in packets
  /\ sessions \subseteq [ship : Ships, user : Users, start : Times, stop : 0..Open,
                        up : SUBSET Nat, down : SUBSET Nat]
  /\ flows \subseteq [ship : Ships, iface : entered \union {None}, user : Users \union {None},
                     at : Times, name : Domains \union {None}, bytes : Nat]

\* What two requests under way have in common, one of which takes it away from
\* the other, has been noted.
RacesNoted ==
  \A p, q \in Requests :
    p # q /\ Busy(p) /\ Busy(q) /\ Destroys(req[p].kind) => req[p].names \intersect req[q].names \subseteq raced

\* The statements ahead of a request; it ends with a write.
Ahead(steps) == {steps[i] : i \in 1..Len(steps)}
Writes == Steps({"insert", "update", "delete", "insertInterface", "assign"})
WritesLast(steps) == \A i \in 1..Len(steps) : steps[i] \in Writes => i = Len(steps)

\* One that writes a row has found those that the row will rely on, or is going
\* to look for them.
WriterFits(r, steps) ==
  /\ <<"insert">> \in Ahead(steps) =>
       /\ r.row \in Rows /\ Relied(r.row, r.patch) \subseteq r.names \ {r.row}
       /\ r.row[1] = "subscriber" => r.patch \in Accounts
  /\ <<"update">> \in Ahead(steps) =>
       /\ r.row \in {"subscriber"} \X Subscribers
       /\ \/ r.patch \in [status : Statuses, ends : Ends]
          \/ /\ r.patch \in [package : Packages, nas : Ships \union {None}]
             /\ <<"package", r.patch.package>> \in r.names \ {r.row}
  /\ {<<"insert">>, <<"update">>} \intersect Ahead(steps) # {} =>
       \A n \in r.names \ {r.row} :
         n[1] # "subscriber" /\ (n \in live \union raced \/ <<"find", n>> \in Ahead(steps))

Relies(r) == Relied(r, account[r[2]])

LastLook == [area |-> "countShips", ship |-> "countRouters",
             tenant |-> "findSubscriber", package |-> "findInUse"]

\* One that removes a row has found nothing that relies on it, or will look.
RemoverFits(r, steps) ==
  <<"delete">> \in Ahead(steps) =>
    /\ r.row \in Rows /\ r.row \in r.names
    /\ Destroys(r.kind) \/ r.row[1] = "subscriber"
    /\ r.row[1] \in DOMAIN LastLook =>
         \/ r.row \in raced
         \/ <<LastLook[r.row[1]]>> \in Ahead(steps)
         \/ \A x \in live : r.row \notin Relies(x)

\* So every row has what it relies on, unless that was taken away in a race.
RowsStand == \A r \in live : Relies(r) \subseteq live \union raced

\* Two interfaces count for the same group.
Doubled(i, j) == group[i] = group[j] /\ group[i] # "NONE" /\ counted[i] /\ counted[j]
Noted(i, j) == {<<"interface", i>>, <<"interface", j>>} \intersect raced # {}

\* An interface that is entered has its parent.
EntryFits(r, steps) ==
  <<"insertInterface">> \in Ahead(steps) =>
    /\ r.row \in {"interface"} \X Interfaces
    /\ r.patch # None => r.patch \in entered /\ <<"interface", r.patch>> \in r.names

\* One that is assigned has been compared with those that count with it, or
\* will be: the assignment names them, and has looked for them or will.
AssignmentFits(r, steps) ==
  Steps({"findChildren", "findConflicts", "assign"}) \intersect Ahead(steps) # {} =>
    /\ r.kind = "assignZone"
    /\ r.row \in {"interface"} \X entered /\ r.row \in r.names
    /\ DOMAIN r.patch = {"group", "counted", "related"}
    /\ LET i == r.row[2]
       IN /\ \A j \in Related(i) : Noted(i, j) \/ <<"interface", j>> \in r.names
          /\ \/ steps = << <<"findChildren">>, <<"findConflicts">>, <<"assign">> >>
             \/ /\ steps = << <<"findConflicts">>, <<"assign">> >>
                /\ \A j \in Related(i) : Noted(i, j) \/ j \in r.patch.related
             \/ /\ steps = << <<"assign">> >>
                /\ r.patch.counted /\ r.patch.group # "NONE" =>
                     \A j \in Related(i) : Noted(i, j) \/ ~(group[j] = r.patch.group /\ counted[j])

Fits(r, steps) ==
  /\ WritesLast(steps) /\ WriterFits(r, steps) /\ RemoverFits(r, steps)
  /\ EntryFits(r, steps) /\ AssignmentFits(r, steps)

RequestsFit == \A p \in Requests : Fits(req[p], todo[p])

\* So no interface counts with its parent, unless that was noted.
BooksApart == \A i \in entered : \A j \in Related(i) : Doubled(i, j) => Noted(i, j)

TrafficInv ==
  /\ OfficeTypeOK /\ TrafficTypeOK /\ RacesNoted /\ RequestsFit
  /\ RowsStand /\ BooksApart

=============================================================================
