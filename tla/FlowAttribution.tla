--------------------------- MODULE FlowAttribution ---------------------------
(***************************************************************************)
(* The NetFlow collector behind the ingest limiter.  A router sends record *)
(* layouts (templates) and flow records in datagrams.  Records of the way  *)
(* back have lost the client to NAT and are given to the client whose      *)
(* outgoing record had the same port.  What a datagram teaches is kept in  *)
(* memory for the ones after it, so the order in which the limiter lets    *)
(* them in matters.                                                        *)
(*                                                                         *)
(* Layouts are numbered: decoding by another than the router used gives    *)
(* garbage.  There is one router, source id, template id, remote address   *)
(* and port: a port of the client is a key of the connection table.        *)
(***************************************************************************)
EXTENDS IngestLimiter

CONSTANTS
  Clients,      \* machines behind the router
  Ports,        \* ports the router maps them to
  Nobody,       \* no client
  MaxFlows,     \* bound: datagrams that carry something
  MaxChanges    \* bound: new layouts, ports given to another client, and restarts

ASSUME FlowOK ==
  /\ Nobody \notin Clients
  /\ MaxFlows \in Nat /\ MaxChanges \in Nat

VARIABLES
  router,    \* its layout, the client of each port, and what it has told of both
  datagram,  \* what the datagrams not handled yet carry
  template,  \* NetflowTemplateCache: the layout known, 0 is none
  table,     \* connectionTable: the client of each port
  decoded,   \* layouts used, beside those the router had used (history)
  flows,     \* clients of the events ingested, beside those they were of (history)
  count      \* how much of each bound is used

flowVars == <<router, datagram, template, table, decoded, flows, count>>
allVars == <<vars, flowVars>>

Blank == [taught |-> 0, layout |-> 0, port |-> Nobody, client |-> Nobody, ways |-> {}]

FlowInit ==
  /\ Init
  /\ router = [layout |-> 1, told |-> 0, client |-> [p \in Ports |-> CHOOSE c \in Clients : TRUE],
               knownAs |-> [p \in Ports |-> Nobody]]
  /\ datagram = [t \in Tasks |-> Blank]
  /\ template = 0
  /\ table = [p \in Ports |-> Nobody]
  /\ decoded = {}
  /\ flows = {}
  /\ count = [flows |-> 0, changes |-> 0]

-----------------------------------------------------------------------------
(* The router, which is not in the repository.  Nothing it sends is lost   *)
(* or overtaken.  It tells a layout before it uses it, and the outgoing    *)
(* record of a connection before, or beside, the one of the way back.      *)

Change ==
  /\ count.changes < MaxChanges
  /\ count' = [count EXCEPT !.changes = @ + 1]

NewLayout ==
  /\ Change
  /\ router' = [router EXCEPT !.layout = @ + 1]
  /\ UNCHANGED <<vars, datagram, template, table, decoded, flows>>

Reuse(p, c) ==
  /\ router.client[p] # c
  /\ Change
  /\ router' = [router EXCEPT !.client[p] = c]
  /\ UNCHANGED <<vars, datagram, template, table, decoded, flows>>

\* What a datagram with records of port p may carry.
Carries(p, ways, teach) ==
  LET client == router.client[p]
  IN /\ ways # {} => teach \/ router.told = router.layout
     /\ "back" \in ways => "out" \in ways \/ router.knownAs[p] = client
     /\ router' = [router EXCEPT
                     !.told = IF teach THEN router.layout ELSE @,
                     !.knownAs[p] = IF "out" \in ways THEN client ELSE @]

-----------------------------------------------------------------------------
(* handlePacket, up to the first statement it awaits.                      *)

\* Faulty variant: records are given to clients as they are read.
LookupFirst(d) == table[d.port]

\* First all records teach the table, then the table is asked.
Lookup(d) == IF "out" \in d.ways THEN d.client ELSE table[d.port]

\* A datagram without records, of a layout not known, or of another collector
\* leaves no event.
Handle(d) ==
  LET known == IF d.taught # 0 THEN d.taught ELSE template
      found == IF d.ways = {} THEN Nobody ELSE Lookup(d)
  IN /\ template' = known
     /\ IF d.ways = {} \/ known = 0
          THEN UNCHANGED <<table, decoded, flows>>
          ELSE /\ decoded' = decoded \union {<<known, d.layout>>}
               /\ table' = IF "out" \in d.ways THEN [table EXCEPT ![d.port] = d.client] ELSE table
               /\ flows' = flows
                    \union (IF "out" \in d.ways THEN {<<d.client, d.client>>} ELSE {})
                    \union (IF "back" \in d.ways /\ found # Nobody THEN {<<found, d.client>>} ELSE {})

\* The bodies that begin in this step: one, or none.
Begins(t, d) ==
  IF st[t] # "running" /\ st'[t] = "running"
    THEN Handle(d) /\ datagram' = [datagram EXCEPT ![t] = Blank]
    ELSE datagram' = [datagram EXCEPT ![t] = d] /\ UNCHANGED <<template, table, decoded, flows>>

\* A datagram arrives; they are all alike before.
Receive(t) ==
  /\ st[t] = "new"
  /\ t = CHOOSE u \in In({"new"}) : TRUE
  /\ Arrive(t)
  /\ \/ /\ Begins(t, Blank)
        /\ UNCHANGED <<router, count>>
     \/ \E p \in Ports, ways \in SUBSET {"out", "back"}, teach \in BOOLEAN :
          /\ ways # {} \/ teach
          /\ count.flows < MaxFlows
          /\ count' = [count EXCEPT !.flows = @ + 1]
          /\ Carries(p, ways, teach)
          /\ Begins(t, [taught |-> IF teach THEN router.layout ELSE 0, layout |-> router.layout,
                        port |-> p, client |-> router.client[p], ways |-> ways])

Continue(t) ==
  /\ Resume(t)
  /\ Begins(t, datagram[t])
  /\ UNCHANGED <<router, count>>

\* The batches are stored, or the rest of them is dropped.
Ingested(t) == Settle(t) /\ UNCHANGED flowVars

Leave(t) == Finally(t) /\ UNCHANGED flowVars

\* The collector restarts: what it had learned, and every datagram, is gone.
Restart ==
  /\ Change
  /\ template' = 0
  /\ table' = [p \in Ports |-> Nobody]
  /\ datagram' = [t \in Tasks |-> Blank]
  /\ st' = [t \in Tasks |-> IF st[t] = "new" THEN "new" ELSE "done"]
  /\ active' = 0
  /\ queue' = <<>>
  /\ micro' = <<>>
  /\ UNCHANGED <<router, decoded, flows>>

FlowNext ==
  \/ NewLayout
  \/ \E p \in Ports, c \in Clients : Reuse(p, c)
  \/ \E t \in Tasks : Receive(t) \/ Continue(t) \/ Ingested(t) \/ Leave(t)
  \/ Restart

\* As in IngestLimiter: microtasks run, and bodies settle.
FlowSpec ==
  /\ FlowInit
  /\ [][FlowNext]_allVars
  /\ \A t \in Tasks : WF_allVars(Ingested(t))
  /\ WF_allVars(\E t \in Tasks : Leave(t) \/ Continue(t))

-----------------------------------------------------------------------------
(* Properties.                                                             *)

\* Records are decoded by the layout they were written in, although the layout
\* is taken from memory when their datagram gets its turn.
DecodedAsSent == \A d \in decoded : d[1] = d[2]

\* No bytes are given to another client than the one they went to, although
\* ports are reused and a record of the way back names nobody.
AttributedToOwner == \A f \in flows : f[1] = f[2]

-----------------------------------------------------------------------------
(* What makes it so: the limiter lets the datagrams that wait in the order *)
(* they came.                                                              *)

Waiting == In({"queued", "woken"})

Precedes(seq, v, w) == \E i, j \in 1..Len(seq) : i < j /\ seq[i] = v /\ seq[j] = w

Before(v, w) ==
  \/ st[v] = "woken" /\ st[w] = "queued"
  \/ st[v] = "woken" /\ st[w] = "woken" /\ Precedes(micro, v, w)
  \/ st[v] = "queued" /\ st[w] = "queued" /\ Precedes(queue, v, w)

Line == {pair \in Waiting \X Waiting : Before(pair[1], pair[2])}

Ahead(t) == {v \in Waiting : <<v, t>> \in Line}

\* Each microtask is due once, and whoever is queued can be woken.
LineInv ==
  /\ \A i \in 1..Len(micro) : st[micro[i]] \in {"woken", "returned", "threw"}
  /\ \A i, j \in 1..Len(micro) : micro[i] = micro[j] => i = j
  /\ \A t \in Tasks : st[t] = "queued" => \E i \in 1..Len(queue) : queue[i] = t

\* Something remembered, now known and overwritten by what the tasks in ahead
\* say of it when their turn comes, will be x after them, or none.
Learns(x, known, none, says, ahead) ==
  /\ known \in {none, x} \/ \E w \in ahead : x \in says[w]
  /\ \A v \in ahead : says[v] \subseteq {x} \/ \E w \in ahead : <<v, w>> \in Line /\ x \in says[w]

Teaches == [t \in Tasks |-> IF datagram[t].taught = 0 THEN {} ELSE {datagram[t].taught}]

Names(p) == [t \in Tasks |-> IF "out" \in datagram[t].ways /\ datagram[t].port = p
                               THEN {datagram[t].client} ELSE {}]

FlowTypeOK ==
  /\ DOMAIN router = {"layout", "told", "client", "knownAs"}
  /\ router.layout \in Nat \ {0} /\ router.told \in Nat /\ router.told <= router.layout
  /\ DOMAIN router.knownAs = Ports
  /\ DOMAIN datagram = Tasks
  /\ template \in Nat
  /\ DOMAIN table = Ports
  /\ \A t \in Waiting : /\ datagram[t].layout \in Nat
                        /\ datagram[t].taught \in {0, datagram[t].layout}
                        /\ datagram[t].ways # {} => datagram[t].port \in Ports

\* The layout of a datagram without one of its own is learned by its turn...
LayoutInv ==
  /\ \A t \in Waiting : datagram[t].ways # {} /\ datagram[t].taught = 0 =>
       Learns(datagram[t].layout, template, 0, Teaches, Ahead(t))
  /\ router.told = router.layout => Learns(router.layout, template, 0, Teaches, Waiting)

\* ... and so is the client of one without an outgoing record.
ClientInv ==
  /\ \A t \in Waiting : "back" \in datagram[t].ways /\ "out" \notin datagram[t].ways =>
       Learns(datagram[t].client, table[datagram[t].port], Nobody, Names(datagram[t].port), Ahead(t))
  /\ \A p \in Ports : Learns(router.knownAs[p], table[p], Nobody, Names(p), Waiting)
  /\ template = 0 => \A p \in Ports : table[p] = Nobody

FlowInv == LineInv /\ FlowTypeOK /\ LayoutInv /\ ClientInv

=============================================================================
