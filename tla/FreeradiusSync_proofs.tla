------------------------ MODULE FreeradiusSync_proofs ------------------------
(***************************************************************************)
(* Proofs about FreeradiusSync and the inventory it extends, for any       *)
(* number of ships, devices, radacct rows, requests and timer callbacks,   *)
(* any limit of the SELECT, and any overlap that exceeds the lag of        *)
(* FreeRADIUS's stamps.                                                    *)
(***************************************************************************)
EXTENDS FreeradiusSync, TLAPS

-----------------------------------------------------------------------------
(* The inventory keeps its types.                                          *)

LEMMA InventoryInit == InitInventory => InventoryTypeOK
<1> SUFFICES ASSUME InitInventory PROVE InventoryTypeOK
  OBVIOUS
<1> DEFINE h == CHOOSE h \in Ships : TRUE
           i == CHOOSE i \in Ips : TRUE
<1>1. h \in Ships /\ i \in Ips
  BY InventoryOK DEF InventoryOK
<1> HIDE DEF h, i
<1>2. PICK first \in {{}, {CHOOSE d \in Devices : TRUE}} :
        /\ dev = [e \in Devices |->
                    IF e \in first
                      THEN [state |-> "live", ship |-> h, ip |-> i, secret |-> 1]
                      ELSE [state |-> "absent", ship |-> None, ip |-> None, secret |-> 0]]
        /\ nas = [j \in Ips |-> IF j = i /\ first # {} THEN 1 ELSE 0]
  BY DEF InitInventory, h, i
<1>3. /\ dev \in [Devices -> [state : {"absent", "live", "removed"}, ship : Ships \union {None},
                              ip : Ips \union {None}, secret : Nat]]
      /\ \A d \in Devices : dev[d].state = "live" => dev[d].ship \in Ships
  BY <1>1, <1>2
<1>4. nas \in [Ips -> Nat] /\ ship \in [Ships -> {"absent", "live", "removed"}]
  BY <1>2 DEF InitInventory
<1>5. left \in [requests : Nat, faults : Nat, packets : Nat, ticks : Nat,
                actors : SUBSET (Refreshers \union Timers)]
  BY InventoryOK DEF InventoryOK, InitInventory
<1>6. /\ req \in [Requests -> [op : Ops, at : Ats, dev : Devices \union {None},
                               ship : Ships \union {None}, ip : Ips \union {None}, secret : Nat]]
      /\ \A q \in Requests : req[q].op = "create" => req[q].ship \in Ships
      /\ \A q \in Requests : req[q].at = "find" => req[q].dev \in Devices
  BY DEF InitInventory, Idle, Ops, Ats
<1> QED
  BY <1>3, <1>4, <1>5, <1>6 DEF InventoryTypeOK, Live

\* A request that ends or goes on to another statement stays well typed.
LEMMA RequestMoves ==
  ASSUME InventoryTypeOK, NEW q \in Requests, NEW at \in Ats \ {"find"},
         Done(q) \/ Goto(q, at)
  PROVE  /\ req' \in [Requests -> [op : Ops, at : Ats, dev : Devices \union {None},
                                   ship : Ships \union {None}, ip : Ips \union {None},
                                   secret : Nat]]
         /\ \A p \in Requests :
              /\ req'[p].op = "create" => req'[p].ship \in Ships
              /\ req'[p].at = "find" => req'[p].dev \in Devices
<1> DEFINE Request == [op : Ops, at : Ats, dev : Devices \union {None},
                       ship : Ships \union {None}, ip : Ips \union {None}, secret : Nat]
<1>1. req \in [Requests -> Request]
  BY DEF InventoryTypeOK
<1>2. Idle \in Request /\ Idle.op # "create" /\ Idle.at # "find"
  BY DEF Idle, Ops, Ats
<1>3. req[q] \in Request /\ at \in Ats /\ at # "find"
  BY <1>1
<1> DEFINE moved == [req[q] EXCEPT !.at = at]
<1>4. moved \in Request /\ moved.op = req[q].op /\ moved.ship = req[q].ship /\ moved.at # "find"
  BY <1>3
<1> HIDE DEF Request
<1>5. req' = [req EXCEPT ![q] = Idle] \/ req' = [req EXCEPT ![q] = moved]
  BY DEF Done, Goto
<1> HIDE DEF moved
<1>6. req' \in [Requests -> Request]
  BY <1>1, <1>2, <1>4, <1>5
<1>7. \A p \in Requests : /\ req'[p].op = "create" => req'[p].ship \in Ships
                          /\ req'[p].at = "find" => req'[p].dev \in Devices
  BY <1>1, <1>2, <1>4, <1>5 DEF InventoryTypeOK
<1> QED
  BY <1>6, <1>7 DEF Request

\* What is left of a budget only shrinks.
LEMMA BlameType ==
  ASSUME InventoryTypeOK, Blame
  PROVE  left' \in [requests : Nat, faults : Nat, packets : Nat, ticks : Nat,
                    actors : SUBSET (Refreshers \union Timers)]
BY DEF InventoryTypeOK, Blame

LEMMA InventoryArrive ==
  ASSUME InventoryTypeOK, NEW q \in Requests, Arrive(q)
  PROVE  InventoryTypeOK'
<1> DEFINE Request == [op : Ops, at : Ats, dev : Devices \union {None},
                       ship : Ships \union {None}, ip : Ips \union {None}, secret : Nat]
<1>1. ASSUME NEW r \in Request, r.op = "create" => r.ship \in Ships,
             r.at = "find" => r.dev \in Devices, Admit(q, r)
      PROVE  InventoryTypeOK'
  BY <1>1 DEF InventoryTypeOK, Admit, Live
<1>2. left.requests + 1 \in Nat
  BY DEF InventoryTypeOK
<1>3. \A op : NewAddresses(op) \subseteq Ips \union {None} /\ NewSecrets(op) \subseteq Nat
  BY <1>2 DEF NewAddresses, NewSecrets
<1>4. ASSUME NEW h \in Ships, NEW i \in Ips \union {None}, NEW s \in Nat,
             Admit(q, [Idle EXCEPT !.op = "create", !.at = "findShip", !.ship = h, !.ip = i, !.secret = s])
      PROVE  InventoryTypeOK'
  BY <1>1, <1>4 DEF Idle, Ops, Ats
<1>5. ASSUME NEW d \in Devices, NEW op \in DeviceOps, NEW i \in Ips \union {None}, NEW s \in Nat,
             Admit(q, [Idle EXCEPT !.op = op, !.at = "find", !.dev = d, !.ip = i, !.secret = s])
      PROVE  InventoryTypeOK'
  BY <1>1, <1>5 DEF Idle, Ops, Ats, DeviceOps, AddressOps, PatchedSecretOps, SecretOps
<1>6. ASSUME NEW h \in Ships,
             Admit(q, [Idle EXCEPT !.op = "removeShip", !.at = "findShip", !.ship = h])
      PROVE  InventoryTypeOK'
  BY <1>1, <1>6 DEF Idle, Ops, Ats
<1> QED
  BY <1>3, <1>4, <1>5, <1>6 DEF Arrive

LEMMA InventoryAdvance ==
  ASSUME InventoryTypeOK, NEW q \in Requests, Advance(q)
  PROVE  InventoryTypeOK'
<1>1. CASE FindShip(q)
  BY <1>1, RequestMoves DEF FindShip, Then, InventoryTypeOK, Live, Ats
<1>2. CASE FindDevices(q)
  BY <1>2, RequestMoves DEF FindDevices, Then, InventoryTypeOK, Live, Ats
<1>3. CASE Find(q)
  <2>1. CASE Live(req[q].dev)
    <3> DEFINE ip == IF req[q].op \in AddressOps THEN req[q].ip
                     ELSE dev[req[q].dev].ip
    <3>1. ip \in Ips \union {None}
      BY <1>3 DEF InventoryTypeOK, Find
    <3>2. req' = [req EXCEPT ![q].at = "write", ![q].ip = ip]
      BY <1>3, <2>1 DEF Find
    <3> HIDE DEF ip
    <3> QED
      BY <1>3, <3>1, <3>2 DEF Find, InventoryTypeOK, Live, Ats
  <2>2. CASE ~Live(req[q].dev)
    <3>1. Done(q) /\ UNCHANGED <<ship, dev, nas, left>>
      BY <1>3, <2>2 DEF Find
    <3>2. "idle" \in Ats \ {"find"}
      BY DEF Ats
    <3> QED
      BY <3>1, <3>2, RequestMoves DEF InventoryTypeOK, Live
  <2> QED
    BY <2>1, <2>2
<1>4. CASE Write(q)
  <2> DEFINE r == IF req[q].op = "create" THEN [req[q] EXCEPT !.dev = Fresh] ELSE req[q]
  <2>1. /\ r.op = req[q].op /\ r.ship = req[q].ship
        /\ r.ip = req[q].ip /\ r.secret = req[q].secret
    BY DEF InventoryTypeOK
  <2>2. /\ dev' = [dev EXCEPT ![r.dev] = Written(r, @)]
        /\ Done(q) \/ Goto(q, "audit")
        /\ UNCHANGED <<ship, nas, left>>
    BY <1>4 DEF Write, Then
  <2> HIDE DEF r
  <2>3. ASSUME NEW row \in [state : {"absent", "live", "removed"}, ship : Ships \union {None},
                            ip : Ips \union {None}, secret : Nat],
               row.state = "live" => row.ship \in Ships
        PROVE  /\ Written(r, row) \in [state : {"absent", "live", "removed"},
                                       ship : Ships \union {None},
                                       ip : Ips \union {None}, secret : Nat]
               /\ Written(r, row).state = "live" => Written(r, row).ship \in Ships
    BY <2>1, <2>3 DEF Written, InventoryTypeOK
  <2>4. /\ dev' \in [Devices -> [state : {"absent", "live", "removed"}, ship : Ships \union {None},
                                 ip : Ips \union {None}, secret : Nat]]
        /\ \A d \in Devices : dev'[d].state = "live" => dev'[d].ship \in Ships
    BY <2>2, <2>3 DEF InventoryTypeOK, Live
  <2> QED
    BY <2>2, <2>4, RequestMoves DEF InventoryTypeOK, Live, Ats
<1>5. CASE WriteShip(q)
  BY <1>5, RequestMoves DEF WriteShip, InventoryTypeOK, Live, Ats
<1>6. CASE Audit(q)
  BY <1>6, RequestMoves DEF Audit, InventoryTypeOK, Live, Ats
<1>7. CASE DeleteNas(q)
  BY <1>7, RequestMoves DEF DeleteNas, InventoryTypeOK, Live, Ats
<1>8. CASE InsertNas(q)
  BY <1>8, RequestMoves DEF InsertNas, InventoryTypeOK, Live, Ats
<1> QED
  BY <1>1, <1>2, <1>3, <1>4, <1>5, <1>6, <1>7, <1>8 DEF Advance
LEMMA InventoryFail ==
  ASSUME InventoryTypeOK, NEW q \in Requests, Fail(q)
  PROVE  InventoryTypeOK'
BY RequestMoves, BlameType DEF Fail, InventoryTypeOK, Live, Ats

LEMMA InventoryNext == InventoryTypeOK /\ NextInventory => InventoryTypeOK'
<1> SUFFICES ASSUME InventoryTypeOK, NextInventory PROVE InventoryTypeOK'
  OBVIOUS
<1>1. ASSUME NEW q \in Requests, Arrive(q) \/ Advance(q) \/ Fail(q) PROVE InventoryTypeOK'
  BY <1>1, InventoryArrive, InventoryAdvance, InventoryFail
<1>2. ASSUME NEW c \in Refreshers, Timer(c) \/ ReadCopy(c) \/ RefreshFails(c)
      PROVE  InventoryTypeOK'
  <2>1. UNCHANGED <<ship, dev, nas, req>> /\ (UNCHANGED left \/ Blame)
    BY <1>2 DEF Timer, ReadCopy, ReadRows, RefreshFails
  <2> QED
    BY <2>1, BlameType DEF InventoryTypeOK, Live
<1> QED
  BY <1>1, <1>2 DEF NextInventory
-----------------------------------------------------------------------------
(* The synchronisation.                                                    *)

Entries == [row : Rows, nas : Ips \union {None}, version : Nat, status : Statuses]
AcctRows == [state : {"none", "open", "stopped"}, nas : Ips \union {None}, stamp : Int,
             version : Nat]

LEMMA SnapshotType ==
  ASSUME TypeOK, NEW r \in Rows
  PROVE  /\ Snapshot(r) \in Entries
         /\ Snapshot(r).row = r
         /\ Snapshot(r).version = acct[r].version
BY DEF TypeOK, Snapshot, Entries, Statuses

\* Steps that leave the tables, the clock and the run alone keep everything.
LEMMA KeepsIInv ==
  ASSUME IInv, UNCHANGED syncVars, InventoryTypeOK'
  PROVE  IInv'
BY DEF IInv, TypeOK, Clocks, CopiesFollow, BatchesHold, NothingForgotten, Mirrored, Snapshot,
       Within, syncVars

Budget == [requests : Nat, faults : Nat, packets : Nat, ticks : Nat,
           actors : SUBSET (Refreshers \union Timers)]

\* A step of FreeRADIUS, the clock or the synchronisation spends of the budget only.
LEMMA InventoryKeeps ==
  ASSUME InventoryTypeOK, UNCHANGED invVars, left' \in Budget
  PROVE  InventoryTypeOK'
BY DEF InventoryTypeOK, invVars, Budget, Live

LEMMA SpendType ==
  ASSUME TypeOK
  PROVE  /\ left \in Budget
         /\ Blame => left' \in Budget
         /\ left.ticks > 0 => [left EXCEPT !.ticks = @ - 1] \in Budget
         /\ left.packets > 0 => [left EXCEPT !.packets = @ - 1] \in Budget
<1>1. left \in Budget
  BY DEF TypeOK, InventoryTypeOK, Budget
<1>2. \A n \in Nat : n > 0 => n - 1 \in Nat
  OBVIOUS
<1>3. Blame => left' \in Budget
  BY <1>1, <1>2 DEF Budget, Blame
<1> QED
  BY <1>1, <1>2, <1>3 DEF Budget

LEMMA IInvInit == Init => IInv
<1> SUFFICES ASSUME Init PROVE IInv
  OBVIOUS
<1>1. InventoryTypeOK
  BY InventoryInit DEF Init
<1>2. TypeOK
  <2>1. session \in [Ships -> [Rows -> [version : Nat, status : Statuses]]]
    BY DEF Init, NoSession, Statuses
  <2>2. acct \in [Rows -> [state : {"none", "open", "stopped"}, nas : Ips \union {None},
                           stamp : Int, version : Nat]]
    BY DEF Init
  <2>3. run \in [Timers -> [at : {"idle", "select", "copy"}, started : Nat,
                            batch : SUBSET [row : Rows, nas : Ips \union {None}, version : Nat,
                                            status : Statuses]]]
    BY DEF Init, NoRun
  <2>4. /\ \A t, u \in Timers : run[t] # NoRun /\ run[u] # NoRun => t = u
        /\ running <=> \E t \in Timers : run[t] # NoRun
        /\ clock \in Nat /\ watermark \in Nat /\ running \in BOOLEAN /\ missed \subseteq Rows
    BY DEF Init
  <2> QED
    BY <1>1, <2>1, <2>2, <2>3, <2>4 DEF TypeOK
<1>3. Clocks /\ CopiesFollow /\ BatchesHold /\ NothingForgotten
  BY DEF Init, Clocks, CopiesFollow, BatchesHold, NothingForgotten, NoRun, NoSession
<1> QED
  BY <1>2, <1>3 DEF IInv

LEMMA TickStep ==
  ASSUME IInv, Tick
  PROVE  IInv'
<1>1. InventoryTypeOK'
  BY InventoryKeeps, SpendType DEF IInv, TypeOK, Tick
<1>2. TypeOK'
  BY <1>1 DEF IInv, TypeOK, Tick
<1>3. Clocks'
  BY DEF IInv, TypeOK, Tick, Clocks
<1>4. CopiesFollow' /\ BatchesHold' /\ NothingForgotten'
  BY DEF IInv, Tick, CopiesFollow, BatchesHold, NothingForgotten, Mirrored, Snapshot, Within
<1> QED
  BY <1>2, <1>3, <1>4 DEF IInv

\* Only one callback is past its look at the flag.
LEMMA OnlyRun ==
  ASSUME TypeOK, NEW t \in Timers, run[t] # NoRun, NEW u \in Timers, u # t
  PROVE  run[u] = NoRun
BY DEF TypeOK

LEMMA StartSyncStep ==
  ASSUME IInv, NEW t \in Timers, StartSync(t)
  PROVE  IInv'
<1>1. \A u \in Timers : run[u] = NoRun
  BY DEF IInv, TypeOK, StartSync, MayRun
<1>2. /\ run' = [run EXCEPT ![t] = [at |-> "select", started |-> clock, batch |-> {}]]
      /\ running'
      /\ UNCHANGED <<invVars, left, clock, acct, session, watermark, missed>>
  BY DEF StartSync
<1>3. InventoryTypeOK'
  BY <1>2, InventoryKeeps, SpendType DEF IInv, TypeOK
<1>4. TypeOK'
  BY <1>1, <1>2, <1>3 DEF IInv, TypeOK, NoRun
<1>5. \A u \in Timers : run'[u].batch = {} /\ run'[u].at # "copy"
  BY <1>1, <1>2 DEF IInv, TypeOK, NoRun
<1>6. Clocks'
  BY <1>1, <1>2 DEF IInv, TypeOK, Clocks
<1>7. CopiesFollow' /\ BatchesHold'
  BY <1>2, <1>5 DEF IInv, CopiesFollow, BatchesHold
<1>8. NothingForgotten'
  BY <1>1, <1>2, <1>5 DEF IInv, NothingForgotten, Mirrored, NoRun
<1> QED
  BY <1>4, <1>6, <1>7, <1>8 DEF IInv

LEMMA FinishStep ==
  ASSUME IInv, NEW t \in Timers, Finish(t)
  PROVE  IInv'
<1>1. /\ run[t].at = "copy" /\ run[t].batch = {} /\ run[t] # NoRun
      /\ run' = [run EXCEPT ![t] = NoRun]
      /\ watermark' = run[t].started
      /\ running' = FALSE
      /\ UNCHANGED <<invVars, left, clock, acct, session, missed>>
  BY DEF Finish, Mark, NoRun, IInv, TypeOK
<1>2. \A u \in Timers : run'[u] = NoRun
  BY <1>1, OnlyRun DEF IInv, TypeOK
<1>3. InventoryTypeOK'
  BY <1>1, InventoryKeeps, SpendType DEF IInv, TypeOK
<1>4. /\ run'[t] = NoRun
      /\ run' \in [Timers -> [at : {"idle", "select", "copy"}, started : Nat,
                              batch : SUBSET [row : Rows, nas : Ips \union {None},
                                              version : Nat, status : Statuses]]]
      /\ run[t].started \in Nat
  BY <1>1 DEF IInv, TypeOK, NoRun
<1>5. TypeOK'
  BY <1>1, <1>2, <1>3, <1>4 DEF IInv, TypeOK
<1>6. Clocks'
  BY <1>1, <1>2 DEF IInv, TypeOK, Clocks
<1>7. CopiesFollow' /\ BatchesHold'
  BY <1>1, <1>2 DEF IInv, CopiesFollow, BatchesHold, NoRun
<1>8. NothingForgotten'
  <2> SUFFICES ASSUME NEW r \in Rows, acct[r].state = "stopped", r \notin missed, ~Mirrored(r)
               PROVE  acct[r].stamp > run[t].started - Overlap
    BY <1>1, <1>2 DEF NothingForgotten, Mirrored, NoRun
  <2>1. \A u \in Timers : run[u].at = "copy" => u = t
    BY <1>1, OnlyRun DEF IInv, NoRun
  <2> QED
    BY <1>1, <2>1 DEF IInv, NothingForgotten
<1> QED
  BY <1>5, <1>6, <1>7, <1>8 DEF IInv

\* A run that ends without having finished leaves its span to the next one.
LEMMA SyncFailsStep ==
  ASSUME IInv, NEW t \in Timers, SyncFails(t)
  PROVE  IInv'
<1>1. /\ run[t] # NoRun
      /\ run' = [run EXCEPT ![t] = NoRun]
      /\ running' = FALSE
      /\ Blame
      /\ UNCHANGED <<invVars, clock, acct, session, watermark, missed>>
  BY DEF SyncFails
<1>2. \A u \in Timers : run'[u] = NoRun
  BY <1>1, OnlyRun DEF IInv, TypeOK
<1>3. InventoryTypeOK'
  BY <1>1, InventoryKeeps, SpendType DEF IInv, TypeOK
<1>4. /\ run'[t] = NoRun
      /\ run' \in [Timers -> [at : {"idle", "select", "copy"}, started : Nat,
                              batch : SUBSET [row : Rows, nas : Ips \union {None},
                                              version : Nat, status : Statuses]]]
      /\ run[t].started \in Nat
  BY <1>1 DEF IInv, TypeOK, NoRun
<1>5. TypeOK'
  BY <1>1, <1>2, <1>3, <1>4 DEF IInv, TypeOK
<1>6. Clocks'
  BY <1>1, <1>2 DEF IInv, TypeOK, Clocks
<1>7. CopiesFollow' /\ BatchesHold'
  BY <1>1, <1>2 DEF IInv, CopiesFollow, BatchesHold, NoRun
<1>8. NothingForgotten'
  <2> SUFFICES ASSUME NEW r \in Rows, acct[r].state = "stopped", r \notin missed, ~Mirrored(r)
               PROVE  acct[r].stamp > watermark - Overlap
    BY <1>1, <1>2 DEF NothingForgotten, Mirrored, NoRun
  <2>1. CASE \E u \in Timers : run[u].at = "copy" /\ Snapshot(r) \in run[u].batch
    BY <2>1, SnapshotType DEF IInv, BatchesHold, Within
  <2>2. CASE \E u \in Timers : run[u].at = "copy" /\ acct[r].stamp > run[u].started - Overlap
    <3>1. PICK u \in Timers : run[u].at = "copy" /\ acct[r].stamp > run[u].started - Overlap
      BY <2>2
    <3>2. watermark <= run[u].started
      BY <3>1 DEF IInv, Clocks, NoRun
    <3>3. /\ watermark \in Int /\ run[u].started \in Int /\ Overlap \in Int
          /\ acct[r].stamp \in Int
      BY SyncOK DEF IInv, TypeOK, SyncOK
    <3> QED
      BY <3>1, <3>2, <3>3
  <2> QED
    BY <2>1, <2>2 DEF IInv, NothingForgotten
<1> QED
  BY <1>5, <1>6, <1>7, <1>8 DEF IInv

\* The first SELECT after a restart reaches every stamp there is.
LEMMA RestartStep ==
  ASSUME IInv, Restart
  PROVE  IInv'
<1>1. /\ run' = [t \in Timers |-> NoRun]
      /\ running' = FALSE
      /\ watermark' = 0
      /\ req' = [q \in Requests |-> Idle]
      /\ Blame
      /\ UNCHANGED <<ship, dev, nas, clock, acct, session, missed>>
  BY DEF Restart
<1>2. InventoryTypeOK'
  BY <1>1, BlameType DEF IInv, TypeOK, InventoryTypeOK, Live, Idle, Ops, Ats
<1>3. \A u \in Timers : run'[u] = NoRun
  BY <1>1
<1>4. run' \in [Timers -> [at : {"idle", "select", "copy"}, started : Nat,
                           batch : SUBSET [row : Rows, nas : Ips \union {None},
                                           version : Nat, status : Statuses]]]
  BY <1>1 DEF NoRun
<1>5. TypeOK'
  BY <1>1, <1>2, <1>3, <1>4 DEF IInv, TypeOK
<1>6. Clocks'
  BY <1>1, <1>3 DEF IInv, TypeOK, Clocks
<1>7. CopiesFollow' /\ BatchesHold'
  BY <1>1, <1>3 DEF IInv, CopiesFollow, BatchesHold, NoRun
<1>8. NothingForgotten'
  <2> SUFFICES ASSUME NEW r \in Rows, acct[r].state = "stopped"
               PROVE  acct[r].stamp > 0 - Overlap
    BY <1>1, <1>3 DEF NothingForgotten, NoRun
  <2>1. acct[r].stamp >= -MaxLag /\ acct[r].stamp \in Int
    BY DEF IInv, TypeOK, Clocks
  <2> QED
    BY <2>1, SyncOK DEF SyncOK
<1> QED
  BY <1>5, <1>6, <1>7, <1>8 DEF IInv

\* A packet that comes while a run is under way is stamped in reach of the next.
LEMMA PacketStep ==
  ASSUME IInv, NEW r \in Rows, NEW from \in {"none", "open"}, NEW to \in {"open", "stopped"},
         NEW i \in Ips \union {None}, Packet(r, from, to, i)
  PROVE  IInv'
<1>1. PICK lag \in 0..MaxLag :
        acct' = [acct EXCEPT ![r] = [state |-> to, nas |-> i, stamp |-> Later(r, lag),
                                     version |-> @.version + 1]]
  BY DEF Packet
<1>2. /\ left' = [left EXCEPT !.packets = @ - 1] /\ left.packets > 0
      /\ UNCHANGED <<invVars, clock, session, watermark, running, run, missed>>
  BY DEF Packet
<1>3. /\ acct[r].stamp \in Int /\ acct[r].version \in Nat /\ clock \in Nat
      /\ MaxLag \in Nat /\ Overlap \in Nat /\ MaxLag < Overlap
  BY SyncOK DEF IInv, TypeOK, SyncOK
<1>4. Later(r, lag) \in Int /\ Later(r, lag) >= clock - MaxLag
  BY <1>3 DEF Later
<1>5. InventoryTypeOK'
  BY <1>2, InventoryKeeps, SpendType DEF IInv, TypeOK
<1>6. /\ acct' \in [Rows -> AcctRows]
      /\ acct'[r].version = acct[r].version + 1
      /\ acct'[r].stamp >= clock - MaxLag
      /\ acct'[r].stamp \in Int
      /\ \A x \in Rows \ {r} : acct'[x] = acct[x]
  BY <1>1, <1>3, <1>4 DEF IInv, TypeOK, AcctRows
<1>7. TypeOK'
  BY <1>2, <1>5, <1>6 DEF IInv, TypeOK, AcctRows
<1>8. Clocks'
  BY <1>2, <1>3, <1>6 DEF IInv, Clocks
<1>9. CopiesFollow'
  BY <1>2, <1>3, <1>6 DEF IInv, TypeOK, CopiesFollow
<1>10. \A t \in Timers : run[t] # NoRun => acct'[r].stamp > run[t].started - Overlap
  <2> SUFFICES ASSUME NEW t \in Timers, run[t] # NoRun
               PROVE  acct'[r].stamp > run[t].started - Overlap
    OBVIOUS
  <2>1. run[t].started \in Nat /\ run[t].started <= clock
    BY DEF IInv, TypeOK, Clocks
  <2> QED
    BY <1>3, <1>6, <2>1
<1>11. BatchesHold'
  <2> SUFFICES ASSUME NEW t \in Timers, NEW b \in run[t].batch
               PROVE  /\ run[t].at = "copy"
                      /\ b.version <= acct'[b.row].version
                      /\ \A h \in Ships : session[h][b.row].version <= b.version
                      /\ b.version < acct'[b.row].version =>
                           acct'[b.row].stamp > run[t].started - Overlap
                      /\ b.version = acct'[b.row].version =>
                           b = Snapshot(b.row)' /\ Within(b.row, watermark)'
                      /\ \A c \in run[t].batch : c.row = b.row => c = b
    BY <1>2 DEF BatchesHold
  <2>1. /\ run[t].at = "copy" /\ run[t] # NoRun
        /\ b.version <= acct[b.row].version
        /\ \A h \in Ships : session[h][b.row].version <= b.version
        /\ \A c \in run[t].batch : c.row = b.row => c = b
    BY DEF IInv, BatchesHold, NoRun
  <2>2. b.row \in Rows /\ b.version \in Nat
    BY DEF IInv, TypeOK
  <2>3. CASE b.row = r
    BY <1>3, <1>6, <1>10, <2>1, <2>2, <2>3
  <2>4. CASE b.row # r
    <3>1. acct'[b.row] = acct[b.row]
      BY <1>6, <2>2, <2>4
    <3>2. Snapshot(b.row)' = Snapshot(b.row) /\ (Within(b.row, watermark)' <=> Within(b.row, watermark))
      BY <1>2, <3>1 DEF Snapshot, Within
    <3> QED
      BY <3>1, <3>2 DEF IInv, BatchesHold
  <2> QED
    BY <2>3, <2>4
<1>12. NothingForgotten'
  <2> SUFFICES ASSUME NEW x \in Rows, acct'[x].state = "stopped"
               PROVE  \/ x \in missed
                      \/ Mirrored(x)'
                      \/ acct'[x].stamp > watermark - Overlap /\ \A t \in Timers : run[t].at # "copy"
                      \/ \E t \in Timers : run[t].at = "copy" /\ Snapshot(x)' \in run[t].batch
                      \/ \E t \in Timers : run[t].at = "copy" /\ acct'[x].stamp > run[t].started - Overlap
    BY <1>2 DEF NothingForgotten
  <2>1. CASE x = r
    <3>1. watermark \in Nat /\ watermark <= clock
      BY DEF IInv, TypeOK, Clocks
    <3>2. acct'[r].stamp > watermark - Overlap
      BY <1>3, <1>6, <3>1
    <3>3. \A t \in Timers : run[t].at = "copy" => acct'[r].stamp > run[t].started - Overlap
      BY <1>10 DEF NoRun
    <3> QED
      BY <2>1, <3>2, <3>3
  <2>2. CASE x # r
    <3>1. acct'[x] = acct[x]
      BY <1>6, <2>2
    <3>2. Snapshot(x)' = Snapshot(x) /\ (Mirrored(x)' <=> Mirrored(x))
      BY <1>2, <3>1 DEF Snapshot, Mirrored
    <3> QED
      BY <3>1, <3>2 DEF IInv, NothingForgotten
  <2> QED
    BY <2>1, <2>2
<1> QED
  BY <1>7, <1>8, <1>9, <1>11, <1>12 DEF IInv

RunRows == [at : {"idle", "select", "copy"}, started : Nat, batch : SUBSET Entries]

\* What the SELECT leaves out for its limit is remembered as missed.
LEMMA SelectStep ==
  ASSUME IInv, NEW t \in Timers, Select(t)
  PROVE  IInv'
<1>1. PICK S \in SUBSET Touched :
        /\ run' = [run EXCEPT ![t].at = "copy", ![t].batch = {Snapshot(r) : r \in S}]
        /\ missed' = missed \union (Touched \ S)
  BY DEF Select
<1>2. /\ run[t].at = "select" /\ run[t] # NoRun
      /\ UNCHANGED <<invVars, left, clock, acct, session, watermark, running>>
  BY DEF Select, NoRun
<1>3. S \subseteq Rows /\ Touched \subseteq Rows
  BY DEF Touched
<1>4. {Snapshot(r) : r \in S} \subseteq Entries
  BY <1>3, SnapshotType DEF IInv
<1>5. /\ run' \in [Timers -> RunRows]
      /\ run'[t].at = "copy" /\ run'[t].batch = {Snapshot(r) : r \in S}
      /\ run'[t].started = run[t].started
      /\ \A u \in Timers \ {t} : run'[u] = run[u]
  BY <1>1, <1>4 DEF IInv, TypeOK, RunRows, Entries
<1>6. \A u \in Timers \ {t} : run'[u] = NoRun
  BY <1>2, <1>5, OnlyRun DEF IInv
<1>7. run'[t] # NoRun
  BY <1>5 DEF NoRun
<1>8. InventoryTypeOK'
  BY <1>2, InventoryKeeps, SpendType DEF IInv, TypeOK
<1>9. TypeOK'
  <2>1. /\ \A v, u \in Timers : run'[v] # NoRun /\ run'[u] # NoRun => v = u
        /\ running' <=> \E u \in Timers : run'[u] # NoRun
    BY <1>2, <1>6, <1>7 DEF IInv, TypeOK
  <2>2. missed' \subseteq Rows
    BY <1>1, <1>3 DEF IInv, TypeOK
  <2> QED
    BY <1>2, <1>5, <1>8, <2>1, <2>2 DEF IInv, TypeOK, RunRows, Entries
<1>10. Clocks'
  BY <1>2, <1>5, <1>6 DEF IInv, Clocks
<1>11. CopiesFollow'
  BY <1>2 DEF IInv, CopiesFollow
<1>12. BatchesHold'
  <2> SUFFICES ASSUME NEW b \in {Snapshot(r) : r \in S}
               PROVE  /\ b.version <= acct[b.row].version
                      /\ \A h \in Ships : session[h][b.row].version <= b.version
                      /\ ~(b.version < acct[b.row].version)
                      /\ b = Snapshot(b.row) /\ Within(b.row, watermark)
                      /\ \A c \in {Snapshot(r) : r \in S} : c.row = b.row => c = b
    BY <1>2, <1>5, <1>6 DEF BatchesHold, NoRun, Snapshot, Within
  <2>1. PICK r \in S : b = Snapshot(r)
    OBVIOUS
  <2>2. b.row = r /\ b.version = acct[r].version /\ acct[r].version \in Nat
    BY <1>3, <2>1, SnapshotType DEF IInv, TypeOK
  <2>3. \A c \in {Snapshot(x) : x \in S} : c = Snapshot(c.row)
    BY <1>3, SnapshotType DEF IInv
  <2>4. Within(r, watermark)
    BY DEF Touched
  <2>5. \A h \in Ships : session[h][r].version <= acct[r].version
    BY <1>3 DEF IInv, CopiesFollow
  <2> QED
    BY <2>1, <2>2, <2>3, <2>4, <2>5
<1>13. NothingForgotten'
  <2> SUFFICES ASSUME NEW r \in Rows, acct[r].state = "stopped",
                      r \notin missed, ~Mirrored(r), r \notin Touched \ S
               PROVE  Snapshot(r) \in {Snapshot(x) : x \in S}
    BY <1>1, <1>2, <1>5 DEF NothingForgotten, Mirrored, Snapshot
  <2>1. \A u \in Timers : run[u].at # "copy"
    BY <1>2, OnlyRun DEF IInv, NoRun
  <2>2. acct[r].stamp > watermark - Overlap
    BY <2>1 DEF IInv, NothingForgotten
  <2>3. r \in Touched
    BY <2>2 DEF Touched, Within
  <2> QED
    BY <2>3
<1> QED
  BY <1>9, <1>10, <1>11, <1>12, <1>13 DEF IInv

\* The device a session is copied to has a ship.
LEMMA ShipOfDevice ==
  ASSUME InventoryTypeOK, NEW i, NEW d \in DevicesAt(i)
  PROVE  dev[d].ship \in Ships
BY DEF DevicesAt, InventoryTypeOK

\* Copying a row or passing over it: the copy is as new as the row, or the row
\* was stamped in reach of the next run.
LEMMA CopyStep ==
  ASSUME IInv, NEW t \in Timers, NEW b \in run[t].batch, Copy(t, b)
  PROVE  IInv' /\ \A h \in Ships, r \in Rows : session'[h][r].version >= session[h][r].version
<1>1. /\ run[t].at = "copy" /\ run[t] # NoRun
      /\ run' = [run EXCEPT ![t].batch = @ \ {b}]
      /\ UNCHANGED <<invVars, left, clock, acct, watermark, running>>
  BY DEF Copy, NoRun
<1>2. /\ b \in Entries
      /\ b.version <= acct[b.row].version
      /\ \A h \in Ships : session[h][b.row].version <= b.version
      /\ b.version < acct[b.row].version => acct[b.row].stamp > run[t].started - Overlap
      /\ b.version = acct[b.row].version => b = Snapshot(b.row)
      /\ \A c \in run[t].batch : c.row = b.row => c = b
  BY DEF IInv, TypeOK, BatchesHold, Entries
<1>3. /\ run' \in [Timers -> RunRows]
      /\ run'[t].at = "copy" /\ run'[t].batch = run[t].batch \ {b}
      /\ run'[t].started = run[t].started
      /\ \A u \in Timers \ {t} : run'[u] = run[u]
  BY <1>1 DEF IInv, TypeOK, RunRows, Entries
<1>4. \A u \in Timers \ {t} : run'[u] = NoRun
  BY <1>1, <1>3, OnlyRun DEF IInv
<1>5. run'[t] # NoRun
  BY <1>3 DEF NoRun
<1>6. InventoryTypeOK'
  BY <1>1, InventoryKeeps, SpendType DEF IInv, TypeOK
<1>7. /\ session' \in [Ships -> [Rows -> [version : Nat, status : Statuses]]]
      /\ \A h \in Ships : \A x \in Rows \ {b.row} : session'[h][x] = session[h][x]
      /\ \A h \in Ships : session'[h][b.row].version \in {session[h][b.row].version, b.version}
      /\ missed' \subseteq Rows
      /\ \A x \in Rows \ {b.row} : x \in missed => x \in missed'
      /\ b.row \in missed' \/ \E h \in Ships : session'[h][b.row].version = b.version
  <2>1. CASE b.row \in Bare \/ DevicesAt(b.nas) = {}
    BY <1>2, <2>1 DEF Copy, IInv, TypeOK, Entries
  <2>2. CASE ~(b.row \in Bare \/ DevicesAt(b.nas) = {})
    <3>1. PICK h \in Ships :
            /\ session' = [session EXCEPT ![h][b.row] =
                             [version |-> b.version, status |-> b.status]]
            /\ missed' = missed \ {b.row}
      BY <2>2, ShipOfDevice DEF Copy, IInv, TypeOK
    <3> QED
      BY <1>2, <3>1 DEF IInv, TypeOK, Entries
  <2> QED
    BY <2>1, <2>2
<1>8. b.row \in Rows /\ b.version \in Nat
  BY <1>2 DEF Entries
<1>9. \A h \in Ships, r \in Rows : session'[h][r].version >= session[h][r].version
  <2> SUFFICES ASSUME NEW h \in Ships, NEW r \in Rows
               PROVE  session'[h][r].version >= session[h][r].version
    OBVIOUS
  <2>1. session[h][r].version \in Nat
    BY DEF IInv, TypeOK
  <2> QED
    BY <1>2, <1>7, <1>8, <2>1
<1>10. TypeOK'
  <2>1. /\ \A v, u \in Timers : run'[v] # NoRun /\ run'[u] # NoRun => v = u
        /\ running' <=> \E u \in Timers : run'[u] # NoRun
    BY <1>1, <1>4, <1>5 DEF IInv, TypeOK
  <2> QED
    BY <1>1, <1>3, <1>6, <1>7, <2>1 DEF IInv, TypeOK, RunRows, Entries
<1>11. Clocks'
  BY <1>1, <1>3, <1>4 DEF IInv, Clocks
<1>12. CopiesFollow'
  <2> SUFFICES ASSUME NEW h \in Ships, NEW r \in Rows
               PROVE  session'[h][r].version <= acct[r].version
    BY <1>1 DEF CopiesFollow
  <2>1. session[h][r].version <= acct[r].version
    BY DEF IInv, CopiesFollow
  <2> QED
    BY <1>2, <1>7, <2>1
<1>13. BatchesHold'
  <2> SUFFICES ASSUME NEW c \in run[t].batch \ {b}
               PROVE  /\ c.version <= acct[c.row].version
                      /\ \A h \in Ships : session'[h][c.row].version <= c.version
                      /\ c.version < acct[c.row].version =>
                           acct[c.row].stamp > run[t].started - Overlap
                      /\ c.version = acct[c.row].version =>
                           c = Snapshot(c.row) /\ Within(c.row, watermark)
                      /\ \A e \in run[t].batch \ {b} : e.row = c.row => e = c
    BY <1>1, <1>3, <1>4 DEF BatchesHold, NoRun, Snapshot, Within
  <2>1. c.row \in Rows
    BY DEF IInv, TypeOK
  <2>2. c.row # b.row
    BY <1>2
  <2>3. \A h \in Ships : session'[h][c.row] = session[h][c.row]
    BY <1>7, <2>1, <2>2
  <2> QED
    BY <2>3 DEF IInv, BatchesHold
<1>14. NothingForgotten'
  <2> SUFFICES ASSUME NEW r \in Rows, acct[r].state = "stopped", r \notin missed',
                      ~\E h \in Ships : session'[h][r].version = acct[r].version
               PROVE  \/ Snapshot(r) \in run[t].batch \ {b}
                      \/ acct[r].stamp > run[t].started - Overlap
    BY <1>1, <1>3 DEF NothingForgotten, Mirrored, Snapshot
  <2>1. CASE r = b.row
    <3>1. b.version # acct[r].version
      BY <1>7, <2>1
    <3>2. acct[r].version \in Nat
      BY DEF IInv, TypeOK
    <3> QED
      BY <1>2, <1>8, <2>1, <3>1, <3>2
  <2>2. CASE r # b.row
    <3>1. r \notin missed /\ ~Mirrored(r)
      BY <1>7, <2>2 DEF Mirrored
    <3>2. \A u \in Timers : run[u].at = "copy" => u = t
      BY <1>1, OnlyRun DEF IInv, NoRun
    <3>3. Snapshot(r) \in run[t].batch \/ acct[r].stamp > run[t].started - Overlap
      BY <1>1, <3>1, <3>2 DEF IInv, NothingForgotten
    <3>4. Snapshot(r) # b
      BY <2>2, SnapshotType DEF IInv
    <3> QED
      BY <3>3, <3>4
  <2> QED
    BY <2>1, <2>2
<1> QED
  BY <1>9, <1>10, <1>11, <1>12, <1>13, <1>14 DEF IInv

-----------------------------------------------------------------------------
(* The theorems.                                                           *)

\* A step of a run keeps the invariant and turns no copy back.
LEMMA SyncStep ==
  ASSUME IInv, [Next]_vars
  PROVE  IInv' /\ \A h \in Ships, r \in Rows : session'[h][r].version >= session[h][r].version
<1>1. ASSUME UNCHANGED session, IInv'
      PROVE  IInv' /\ \A h \in Ships, r \in Rows : session'[h][r].version >= session[h][r].version
  BY <1>1 DEF IInv, TypeOK
<1>2. CASE NextInventory /\ UNCHANGED syncVars
  BY <1>1, <1>2, InventoryNext, KeepsIInv DEF IInv, TypeOK, syncVars
<1>3. CASE Tick
  BY <1>1, <1>3, TickStep DEF Tick
<1>4. ASSUME NEW r \in Rows, Start(r) \/ Interim(r) \/ Stop(r)
      PROVE  IInv' /\ UNCHANGED session
  <2>1. ASSUME NEW from \in {"none", "open"}, NEW to \in {"open", "stopped"},
               NEW i \in Ips \union {None}, Packet(r, from, to, i)
        PROVE  IInv' /\ UNCHANGED session
    <3>1. UNCHANGED session
      BY <2>1 DEF Packet
    <3> QED
      BY <2>1, <3>1, PacketStep
  <2>2. acct[r].nas \in Ips \union {None}
    BY DEF IInv, TypeOK
  <2>3. CASE Start(r)
    BY <2>1, <2>3 DEF Start
  <2>4. CASE Interim(r)
    BY <2>1, <2>2, <2>4 DEF Interim
  <2>5. CASE Stop(r)
    BY <2>1, <2>2, <2>5 DEF Stop
  <2> QED
    BY <1>4, <2>3, <2>4, <2>5
<1>5. ASSUME NEW t \in Timers, StartSync(t) \/ Select(t) \/ Finish(t) \/ SyncFails(t)
      PROVE  IInv' /\ UNCHANGED session
  BY <1>5, StartSyncStep, SelectStep, FinishStep, SyncFailsStep
     DEF StartSync, Select, Finish, SyncFails
<1>6. CASE Restart
  BY <1>1, <1>6, RestartStep DEF Restart
<1>7. CASE UNCHANGED vars
  BY <1>1, <1>7, KeepsIInv, InventoryKeeps, SpendType DEF vars, syncVars, IInv, TypeOK
<1> QED
  BY <1>1, <1>2, <1>3, <1>4, <1>5, <1>6, <1>7, CopyStep DEF Next, Sync

\* IInv holds in every reachable state.
LEMMA SyncInvariant == Spec => []IInv
<1>1. Init => IInv
  BY IInvInit
<1>2. IInv /\ [Next]_vars => IInv'
  BY SyncStep
<1> QED
  BY <1>1, <1>2, PTL DEF Spec

\* The tables, the copy and the run under way keep their types, and no two runs
\* of syncOnce overlap.
THEOREM SyncTypeCorrect == Spec => []TypeOK
<1>1. IInv => TypeOK
  BY DEF IInv
<1> QED
  BY <1>1, SyncInvariant, PTL

\* A session that has stopped is copied, in the hands of a run, in reach of the
\* next run, or was passed over, whatever fails, restarts or stops meanwhile.
THEOREM SyncForgetsNothing == Spec => []NothingForgotten
<1>1. IInv => NothingForgotten
  BY DEF IInv
<1> QED
  BY <1>1, SyncInvariant, PTL

\* No run writes an older state of a session over a newer one.
THEOREM SyncNeverBackwards == Spec => NeverBackwards
<1>1. IInv /\ [Next]_vars =>
        [\A h \in Ships, r \in Rows : session'[h][r].version >= session[h][r].version]_vars
  BY SyncStep
<1> QED
  BY <1>1, SyncInvariant, PTL DEF Spec, NeverBackwards

-----------------------------------------------------------------------------
(* Ships, devices and the secrets FreeRADIUS knows.                        *)

\* A request ends, or goes on to another statement and is otherwise the same.
LEMMA MoveFacts ==
  ASSUME InventoryTypeOK, NEW q \in Requests
  PROVE  /\ Done(q) => req'[q] = Idle /\ \A p \in Requests \ {q} : req'[p] = req[p]
         /\ \A at \in Ats : Goto(q, at) =>
              /\ \A p \in Requests \ {q} : req'[p] = req[p]
              /\ req'[q].at = at
              /\ req'[q].op = req[q].op /\ req'[q].dev = req[q].dev /\ req'[q].ship = req[q].ship
              /\ req'[q].ip = req[q].ip /\ req'[q].secret = req[q].secret
BY DEF InventoryTypeOK, Done, Goto

\* A handler of a device takes the address of the row it has read.
LEMMA FindFacts ==
  ASSUME InventoryTypeOK, NEW q \in Requests, Find(q)
  PROVE  /\ UNCHANGED <<ship, dev, nas, stray>>
         /\ \A p \in Requests \ {q} : req'[p] = req[p]
         /\ req[q].at = "find" /\ req[q].dev \in Devices
         /\ \/ req'[q] = Idle
            \/ /\ Live(req[q].dev)
               /\ req'[q].at = "write"
               /\ req'[q].op = req[q].op /\ req'[q].dev = req[q].dev /\ req'[q].ship = req[q].ship
               /\ req'[q].secret = req[q].secret
               /\ req'[q].ip = IF req[q].op \in AddressOps THEN req[q].ip
                               ELSE dev[req[q].dev].ip
<1>1. CASE Live(req[q].dev)
  <2> DEFINE ip == IF req[q].op \in AddressOps THEN req[q].ip ELSE dev[req[q].dev].ip
  <2>1. req' = [req EXCEPT ![q].at = "write", ![q].ip = ip]
    BY <1>1 DEF Find
  <2> HIDE DEF ip
  <2>2. /\ \A p \in Requests \ {q} : req'[p] = req[p]
        /\ req'[q].at = "write"
        /\ req'[q].op = req[q].op /\ req'[q].dev = req[q].dev /\ req'[q].ship = req[q].ship
        /\ req'[q].secret = req[q].secret
        /\ req'[q].ip = ip
    BY <2>1 DEF InventoryTypeOK
  <2> QED
    BY <1>1, <2>2 DEF Find, InventoryTypeOK, ip
<1>2. CASE ~Live(req[q].dev)
  BY <1>2, MoveFacts DEF Find, InventoryTypeOK
<1> QED
  BY <1>1, <1>2

\* One device row is written, in the way of the request.
LEMMA WriteFacts ==
  ASSUME InventoryTypeOK, RequestsFit, NEW q \in Requests, Write(q)
  PROVE  /\ UNCHANGED <<ship, nas>> /\ stray \subseteq stray'
         /\ req[q].at = "write"
         /\ Done(q) \/ Goto(q, "audit")
         /\ \E d \in Devices :
              /\ \A e \in Devices \ {d} : dev'[e] = dev[e]
              /\ \/ /\ req[q].op = "create" /\ dev[d].state = "absent"
                    /\ dev'[d].state = "live" /\ dev'[d].ship = req[q].ship /\ dev'[d].ip = req[q].ip
                    /\ dev'[d].secret = req[q].secret
                    /\ DevicesAt(req[q].ip) # {} \/ req[q].secret # 0 => req[q].ip \in stray'
                 \/ /\ req[q].op \in AddressOps \union PatchedSecretOps /\ d = req[q].dev
                    /\ dev'[d].state = dev[d].state /\ dev'[d].ship = dev[d].ship
                    /\ dev'[d].ip \in {req[q].ip, dev[d].ip}
                    /\ {req[q].ip, dev[d].ip} \subseteq stray'
                 \/ /\ req[q].op = "remove" /\ d = req[q].dev
                    /\ dev'[d].state = "removed" /\ dev'[d].ship = dev[d].ship
                    /\ dev'[d].ip = dev[d].ip
                    /\ dev[d].ip \in stray'
                 \/ /\ req[q].op \in SecretOps /\ d = req[q].dev
                    /\ dev'[d].state = dev[d].state /\ dev'[d].ship = dev[d].ship
                    /\ dev'[d].ip = dev[d].ip /\ dev'[d].secret = req[q].secret
                    /\ Goto(q, "audit")
<1> DEFINE r == IF req[q].op = "create" THEN [req[q] EXCEPT !.dev = Fresh] ELSE req[q]
           apart == CASE r.op \in AddressOps \union PatchedSecretOps -> {r.ip, dev[r.dev].ip}
                      [] r.op = "remove" -> {dev[r.dev].ip}
                      [] r.op = "create" /\ (DevicesAt(r.ip) # {} \/ r.secret # 0) -> {r.ip}
                      [] OTHER -> {}
<1>1. /\ r.op = req[q].op /\ r.ship = req[q].ship /\ r.at = req[q].at
      /\ r.ip = req[q].ip /\ r.secret = req[q].secret
      /\ req[q].op # "create" => r.dev = req[q].dev
      /\ req[q].op = "create" => r.dev = Fresh
  BY DEF InventoryTypeOK
<1>2. /\ r.at = "write" /\ r.op # "removeShip"
      /\ dev' = [dev EXCEPT ![r.dev] = Written(r, @)]
      /\ Then(q, r.op # "push", "audit")
      /\ stray' = stray \union apart
      /\ req[q].op = "create" => Unused # {}
      /\ UNCHANGED <<ship, nas>>
  BY DEF Write
<1> HIDE DEF r
<1> USE DEF AddressOps, PatchedSecretOps, SecretOps, DeviceOps
<1>3. req[q].op \in {"create"} \union DeviceOps
  BY <1>1, <1>2 DEF RequestsFit, RequestFits, InventoryTypeOK, Ops
<1>4. req[q].op = "create" => Fresh \in Devices /\ dev[Fresh].state = "absent"
  BY <1>2 DEF Fresh, Unused
<1>5. r.dev \in Devices /\ (req[q].op = "create" => dev[r.dev].state = "absent")
  BY <1>1, <1>3, <1>4 DEF RequestsFit, RequestFits, ShipOps
<1>6. /\ \A e \in Devices \ {r.dev} : dev'[e] = dev[e]
      /\ dev'[r.dev] = Written(r, dev[r.dev])
  BY <1>2, <1>5 DEF InventoryTypeOK
<1>7. Done(q) \/ Goto(q, "audit")
  BY <1>2 DEF Then
<1>8. CASE req[q].op = "create"
  <2>1. dev'[r.dev] = [state |-> "live", ship |-> r.ship, ip |-> r.ip, secret |-> r.secret]
    BY <1>1, <1>6, <1>8 DEF Written
  <2>2. DevicesAt(r.ip) # {} \/ r.secret # 0 => r.ip \in stray'
    BY <1>1, <1>2, <1>8
  <2> QED
    BY <1>1, <1>2, <1>5, <1>6, <1>7, <1>8, <2>1, <2>2
<1>9. CASE req[q].op \in AddressOps \union PatchedSecretOps
  <2>1. \/ dev'[r.dev] = [dev[r.dev] EXCEPT !.ip = r.ip]
        \/ dev'[r.dev] = [dev[r.dev] EXCEPT !.secret = r.secret]
        \/ dev'[r.dev] = [dev[r.dev] EXCEPT !.ip = r.ip, !.secret = r.secret]
    BY <1>1, <1>6, <1>9 DEF Written
  <2>2. /\ dev'[r.dev].state = dev[r.dev].state /\ dev'[r.dev].ship = dev[r.dev].ship
        /\ dev'[r.dev].ip \in {r.ip, dev[r.dev].ip}
    BY <1>5, <2>1 DEF InventoryTypeOK
  <2>3. {r.ip, dev[r.dev].ip} \subseteq stray'
    BY <1>1, <1>2, <1>9
  <2> QED
    BY <1>1, <1>2, <1>5, <1>6, <1>7, <1>9, <2>2, <2>3
<1>10. CASE req[q].op = "remove"
  <2>1. dev'[r.dev] = [dev[r.dev] EXCEPT !.state = "removed"]
    BY <1>1, <1>6, <1>10 DEF Written
  <2>2. /\ dev'[r.dev].state = "removed" /\ dev'[r.dev].ship = dev[r.dev].ship
        /\ dev'[r.dev].ip = dev[r.dev].ip
    BY <1>5, <2>1 DEF InventoryTypeOK
  <2>3. dev[r.dev].ip \in stray'
    BY <1>1, <1>2, <1>10
  <2> QED
    BY <1>1, <1>2, <1>5, <1>6, <1>7, <1>10, <2>2, <2>3
<1>11. CASE req[q].op \in {"setSecret", "revokeSecret"}
  <2>1. dev'[r.dev] = [dev[r.dev] EXCEPT !.secret = r.secret]
    BY <1>1, <1>6, <1>11 DEF Written
  <2>2. /\ dev'[r.dev].state = dev[r.dev].state /\ dev'[r.dev].ship = dev[r.dev].ship
        /\ dev'[r.dev].ip = dev[r.dev].ip /\ dev'[r.dev].secret = r.secret
    BY <1>5, <2>1 DEF InventoryTypeOK
  <2>3. Goto(q, "audit")
    BY <1>1, <1>2, <1>11 DEF Then
  <2> QED
    BY <1>1, <1>2, <1>5, <1>6, <1>11, <2>2, <2>3 DEF SecretOps
<1> QED
  BY <1>3, <1>8, <1>9, <1>10, <1>11

\* The steps of the inventory that are not an arrival or a written device.
Quiet(q) == FindShip(q) \/ FindDevices(q) \/ WriteShip(q) \/ Audit(q) \/ DeleteNas(q) \/ InsertNas(q) \/ Fail(q)

\* Such a step ends a request or takes it to its next statement.
LEMMA QuietFacts ==
  ASSUME InventoryTypeOK, NEW q \in Requests, Quiet(q)
  PROVE  /\ dev' = dev /\ stray \subseteq stray'
         /\ \A p \in Requests \ {q} : req'[p] = req[p]
         /\ \/ req'[q] = Idle
            \/ /\ req'[q].at \in Ats \ {"find", "idle"}
               /\ req'[q].op = req[q].op /\ req'[q].dev = req[q].dev /\ req'[q].ship = req[q].ship
               /\ req'[q].ip = req[q].ip /\ req'[q].secret = req[q].secret
<1>1. dev' = dev /\ stray \subseteq stray'
  BY DEF Quiet, FindShip, FindDevices, WriteShip, Audit, DeleteNas, InsertNas, Fail
<1>2. Done(q) \/ \E at \in Ats \ {"find", "idle"} : Goto(q, at)
  BY DEF Quiet, FindShip, FindDevices, WriteShip, Audit, DeleteNas, InsertNas, Fail, Then, Ats
<1> QED
  BY <1>1, <1>2, MoveFacts

\* What an arrival is about it shares with nobody, or it is noted.
LEMMA AdmitFacts ==
  ASSUME InventoryTypeOK, NEW q \in Requests, Arrive(q)
  PROVE  /\ UNCHANGED <<ship, dev, nas>> /\ stray \subseteq stray'
         /\ req[q] = Idle \/ req[q].op = "idle"
         /\ \A p \in Requests \ {q} :
              req'[p] = req[p] /\ About(req'[q]) \intersect About(req[p]) \subseteq stray'
         /\ \/ /\ req'[q].op \in ShipOps /\ req'[q].at = "findShip" /\ req'[q].dev = None
               /\ req'[q].ship \in Ships
            \/ /\ req'[q].op \in Ops \ (ShipOps \union {"idle"}) /\ req'[q].at = "find"
               /\ req'[q].dev \in Devices /\ dev[req'[q].dev].state # "absent"
               /\ req'[q].op = "revokeSecret" => req'[q].secret = 0
               /\ req'[q].ship = None
<1>1. ASSUME NEW r, Admit(q, r)
      PROVE  /\ UNCHANGED <<ship, dev, nas>> /\ stray \subseteq stray'
             /\ req[q].op = "idle" /\ req'[q] = r
             /\ \A p \in Requests \ {q} :
                  req'[p] = req[p] /\ About(r) \intersect About(req[p]) \subseteq stray'
  BY <1>1 DEF Admit, Busy, InventoryTypeOK
<1>2. ASSUME NEW h \in Ships, NEW i, NEW s,
             Admit(q, [Idle EXCEPT !.op = "create", !.at = "findShip", !.ship = h, !.ip = i, !.secret = s])
      PROVE  req'[q].op \in ShipOps /\ req'[q].at = "findShip" /\ req'[q].dev = None /\ req'[q].ship \in Ships
  BY <1>2 DEF Admit, Idle, ShipOps, InventoryTypeOK
<1>3. \A op \in DeviceOps : op \in Ops \ (ShipOps \union {"idle"})
  BY DEF ShipOps, Ops, DeviceOps, AddressOps, PatchedSecretOps, SecretOps
<1>4. ASSUME NEW d \in Devices, NEW op \in DeviceOps, NEW i, NEW s \in NewSecrets(op),
             Admit(q, [Idle EXCEPT !.op = op, !.at = "find", !.dev = d, !.ip = i, !.secret = s])
      PROVE  /\ req'[q].op \in Ops \ (ShipOps \union {"idle"}) /\ req'[q].at = "find"
             /\ req'[q].dev = d /\ (req'[q].op = "revokeSecret" => req'[q].secret = 0) /\ req'[q].ship = None
  <2>1. op = "revokeSecret" => s = 0
    BY DEF NewSecrets, PatchedSecretOps
  <2> QED
    BY <1>3, <1>4, <2>1 DEF Admit, Idle, InventoryTypeOK
<1>5. ASSUME NEW h \in Ships,
             Admit(q, [Idle EXCEPT !.op = "removeShip", !.at = "findShip", !.ship = h])
      PROVE  req'[q].op \in ShipOps /\ req'[q].at = "findShip" /\ req'[q].dev = None /\ req'[q].ship \in Ships
  BY <1>5 DEF Admit, Idle, ShipOps, InventoryTypeOK
<1>6. \E r : Admit(q, r)
  BY DEF Arrive
<1>7. /\ UNCHANGED <<ship, dev, nas>> /\ stray \subseteq stray'
      /\ req[q].op = "idle"
      /\ \A p \in Requests \ {q} :
           req'[p] = req[p] /\ About(req'[q]) \intersect About(req[p]) \subseteq stray'
  BY <1>1, <1>6
<1> QED
  BY <1>2, <1>4, <1>5, <1>7 DEF Arrive

\* A process restart ends every request and notes what it was about.
LEMMA RestartFacts ==
  ASSUME Restart
  PROVE  /\ UNCHANGED <<ship, dev, nas>>
         /\ \A q \in Requests : req'[q] = Idle /\ About(req[q]) \subseteq stray'
         /\ stray \subseteq stray'
BY DEF Restart

\* The steps that change the tables of the inventory or its requests.
LEMMA InventorySteps ==
  ASSUME [Next]_vars
  PROVE  \/ \E q \in Requests : Arrive(q) \/ Find(q) \/ Write(q) \/ Quiet(q)
         \/ Restart
         \/ UNCHANGED <<ship, dev, nas, req, stray>>
BY DEF Next, NextInventory, Advance, Quiet, Timer, ReadCopy, ReadRows, RefreshFails, Tick, Start, Interim, Stop,
   Packet, StartSync, Sync, Select, Copy, Finish, SyncFails, invVars, vars

-----------------------------------------------------------------------------
\* While nobody comes, requests are about less and less, or it is noted.
LEMMA ApartKept ==
  ASSUME RequestsApart, stray \subseteq stray',
         \A p \in Requests : About(req[p])' \subseteq About(req[p]) \union {None} \union stray'
  PROVE  RequestsApart'
<1> SUFFICES ASSUME NEW p \in Requests, NEW q \in Requests, p # q
             PROVE  About(req[p])' \intersect About(req[q])' \subseteq stray' \union {None}
  BY DEF RequestsApart
<1> QED
  BY DEF RequestsApart

LEMMA ApartNext ==
  ASSUME InventoryTypeOK, RequestsFit, RequestsApart, [Next]_vars
  PROVE  RequestsApart'
<1>1. ASSUME NEW q \in Requests, Arrive(q) PROVE RequestsApart'
  <2>1. dev' = dev /\ stray \subseteq stray'
    BY <1>1, AdmitFacts
  <2>2. \A p \in Requests \ {q} : req'[p] = req[p] /\ About(req'[q]) \intersect About(req[p]) \subseteq stray'
    BY <1>1, AdmitFacts
  <2>3. \A p \in Requests : About(req[p])' = About(req'[p])
    BY <2>1 DEF About
  <2> SUFFICES ASSUME NEW x \in Requests, NEW y \in Requests, x # y
               PROVE  About(req'[x]) \intersect About(req'[y]) \subseteq stray' \union {None}
    BY <2>3 DEF RequestsApart
  <2>4. CASE x = q \/ y = q
    BY <2>2, <2>4
  <2>5. CASE x # q /\ y # q
    BY <2>1, <2>2, <2>5 DEF RequestsApart
  <2> QED
    BY <2>4, <2>5
<1>2. ASSUME NEW q \in Requests, Find(q) PROVE RequestsApart'
  <2>1. \A p \in Requests : About(req[p])' \subseteq About(req[p]) \union {None}
    BY <1>2, FindFacts, InventoryOK DEF About, Idle, InventoryOK
  <2> QED
    BY <1>2, <2>1, FindFacts, ApartKept
<1>3. ASSUME NEW q \in Requests, Write(q) PROVE RequestsApart'
  <2>1. PICK d \in Devices :
          /\ \A e \in Devices \ {d} : dev'[e] = dev[e]
          /\ dev'[d].ip = dev[d].ip \/ dev'[d].ip \in stray' \/ dev[d].state = "absent"
    BY <1>3, WriteFacts
  <2>2. \A p \in Requests : /\ req'[p].ip \in {req[p].ip, None} /\ req'[p].ship \in {req[p].ship, None}
                            /\ req'[p].dev \in {req[p].dev, None}
    <3>1. Done(q) \/ Goto(q, "audit")
      BY <1>3, WriteFacts
    <3> QED
      BY <3>1, MoveFacts DEF Idle, Ats
  <2>3. \A p \in Requests : req[p].dev # None =>
          req[p].dev \in Devices /\ dev'[req[p].dev].ip \in {dev[req[p].dev].ip} \union stray'
    BY <2>1 DEF RequestsFit, RequestFits
  <2>4. \A p \in Requests : About(req[p])' \subseteq About(req[p]) \union {None} \union stray'
    BY <2>2, <2>3 DEF About
  <2> QED
    BY <1>3, <2>4, WriteFacts, ApartKept
<1>4. ASSUME NEW q \in Requests, Quiet(q) PROVE RequestsApart'
  <2>1. \A p \in Requests : About(req[p])' \subseteq About(req[p]) \union {None}
    BY <1>4, QuietFacts DEF About, Idle
  <2> QED
    BY <1>4, <2>1, QuietFacts, ApartKept
<1>5. CASE Restart
  <2>1. \A p \in Requests : About(req[p])' \subseteq About(req[p]) \union {None}
    BY <1>5, RestartFacts DEF About, Idle
  <2> QED
    BY <1>5, <2>1, RestartFacts, ApartKept
<1>6. CASE UNCHANGED <<ship, dev, nas, req, stray>>
  BY <1>6 DEF RequestsApart, About
<1> QED
  BY <1>1, <1>2, <1>3, <1>4, <1>5, <1>6, InventorySteps

\* A row once created stays a row.
LEMMA RowsRemain ==
  ASSUME InventoryTypeOK, RequestsFit, [Next]_vars, NEW d \in Devices, dev[d].state # "absent"
  PROVE  dev'[d].state # "absent"
<1>1. ASSUME NEW q \in Requests, Write(q) PROVE dev'[d].state # "absent"
  BY <1>1, WriteFacts
<1>2. CASE dev' = dev
  BY <1>2
<1> QED
  BY <1>1, <1>2, InventorySteps, AdmitFacts, FindFacts, QuietFacts, RestartFacts

\* The statements of a request come in the order of its kind, and one that sets
\* a secret has the address of its device, or that address is noted.
LEMMA FitNext ==
  ASSUME InventoryTypeOK, RequestsFit, [Next]_vars
  PROVE  RequestsFit'
<1> USE InventoryOK DEF InventoryOK
<1>0. \A p \in Requests : RequestFits(req[p])
  BY DEF RequestsFit
<1>1. \A d \in Devices : dev[d].state # "absent" => dev'[d].state # "absent"
  BY RowsRemain
<1>2. ASSUME NEW p \in Requests, req'[p] = req[p], stray \subseteq stray',
             req[p].op \in SecretOps => dev'[req[p].dev].ip = dev[req[p].dev].ip
                                        \/ {dev[req[p].dev].ip, dev'[req[p].dev].ip} \subseteq stray'
      PROVE  RequestFits(req[p])'
  BY <1>0, <1>1, <1>2 DEF RequestFits
<1>3. ASSUME NEW p \in Requests, req'[p] = Idle
      PROVE  RequestFits(req[p])'
  BY <1>3 DEF RequestFits, Idle, ShipOps, SecretOps
<1>4. ASSUME NEW q \in Requests, Arrive(q) PROVE RequestsFit'
  <2>1. dev' = dev /\ stray \subseteq stray' /\ \A p \in Requests \ {q} : req'[p] = req[p]
    BY <1>4, AdmitFacts
  <2>2. RequestFits(req[q])'
    <3>1. CASE req'[q].op \in ShipOps /\ req'[q].at = "findShip" /\ req'[q].dev = None /\ req'[q].ship \in Ships
      BY <3>1 DEF RequestFits, ShipOps, SecretOps
    <3>2. CASE /\ req'[q].op \in Ops \ (ShipOps \union {"idle"}) /\ req'[q].at = "find"
               /\ req'[q].dev \in Devices /\ dev[req'[q].dev].state # "absent"
               /\ req'[q].op = "revokeSecret" => req'[q].secret = 0
      BY <2>1, <3>2 DEF RequestFits, ShipOps, SecretOps
    <3> QED
      BY <1>4, <3>1, <3>2, AdmitFacts
  <2> QED
    BY <1>2, <2>1, <2>2 DEF RequestsFit
<1>5. ASSUME NEW q \in Requests, Find(q) PROVE RequestsFit'
  <2>1. dev' = dev /\ stray' = stray /\ \A p \in Requests \ {q} : req'[p] = req[p]
    BY <1>5, FindFacts
  <2>2. RequestFits(req[q])'
    <3>1. CASE req'[q] = Idle
      BY <1>3, <3>1
    <3>2. CASE req'[q] # Idle
      <4>1. /\ req[q].at = "find" /\ req[q].dev \in Devices /\ Live(req[q].dev)
            /\ req'[q].at = "write"
            /\ req'[q].op = req[q].op /\ req'[q].dev = req[q].dev /\ req'[q].ship = req[q].ship
            /\ req'[q].secret = req[q].secret
            /\ req'[q].ip = IF req[q].op \in AddressOps THEN req[q].ip ELSE dev[req[q].dev].ip
        BY <1>5, <3>2, FindFacts
      <4> QED
        BY <1>0, <2>1, <4>1 DEF RequestFits, ShipOps, SecretOps, AddressOps
    <3> QED
      BY <3>1, <3>2
  <2> QED
    BY <1>2, <2>1, <2>2 DEF RequestsFit
<1>6. ASSUME NEW q \in Requests, Write(q) PROVE RequestsFit'
  <2>1. stray \subseteq stray' /\ req[q].at = "write" /\ (Done(q) \/ Goto(q, "audit"))
    BY <1>6, WriteFacts
  <2>2. PICK d \in Devices :
          /\ \A e \in Devices \ {d} : dev'[e] = dev[e]
          /\ dev'[d].ip = dev[d].ip \/ {dev'[d].ip, dev[d].ip} \subseteq stray' \/ dev[d].state = "absent"
    BY <1>6, WriteFacts
  <2>3. ASSUME NEW p \in Requests \ {q} PROVE RequestFits(req[p])'
    <3>1. req'[p] = req[p]
      BY <2>1, MoveFacts DEF Ats
    <3>2. req[p].op \in SecretOps => req[p].dev \in Devices /\ dev[req[p].dev].state # "absent"
      BY <1>0 DEF RequestFits, SecretOps, ShipOps
    <3> QED
      BY <1>2, <2>1, <2>2, <3>1, <3>2
  <2>4. RequestFits(req[q])'
    <3>1. CASE Done(q)
      BY <1>3, <3>1, MoveFacts
    <3>2. CASE Goto(q, "audit")
      <4>1. /\ req'[q].at = "audit"
            /\ req'[q].op = req[q].op /\ req'[q].dev = req[q].dev /\ req'[q].ship = req[q].ship
            /\ req'[q].ip = req[q].ip /\ req'[q].secret = req[q].secret
        BY <3>2, MoveFacts DEF Ats
      <4> QED
        BY <1>0, <1>1, <2>1, <4>1 DEF RequestFits, ShipOps, SecretOps
    <3> QED
      BY <2>1, <3>1, <3>2
  <2> QED
    BY <2>3, <2>4 DEF RequestsFit
<1>7. ASSUME NEW q \in Requests, Quiet(q) PROVE RequestsFit'
  <2>1. dev' = dev /\ stray \subseteq stray' /\ \A p \in Requests \ {q} : req'[p] = req[p]
    BY <1>7, QuietFacts
  <2>2. RequestFits(req[q])'
    <3>1. CASE req'[q] = Idle
      BY <1>3, <3>1
    <3>2. CASE req'[q] # Idle
      <4>1. /\ req'[q].op = req[q].op /\ req'[q].dev = req[q].dev /\ req'[q].ship = req[q].ship
            /\ req'[q].ip = req[q].ip /\ req'[q].secret = req[q].secret
            /\ req'[q].at \in Ats \ {"find", "idle"}
        BY <1>7, <3>2, QuietFacts
      <4>2. \/ req[q].at = "findShip" /\ req'[q].at = "findDevices"
            \/ req[q].at = "findDevices" /\ req'[q].at = "write"
            \/ req[q].at = "write" /\ req'[q].at = "audit"
            \/ req[q].at = "audit" /\ req'[q].at = "deleteNas" /\ req[q].op \in SecretOps
            \/ req[q].at = "deleteNas" /\ req'[q].at = "insertNas" /\ req[q].op = "setSecret"
        BY <1>7, <3>2, MoveFacts DEF Quiet, FindShip, FindDevices, WriteShip, Audit, DeleteNas, InsertNas, Fail,
           Then, Ats, Tells, SecretOps
      <4> QED
        BY <1>0, <2>1, <4>1, <4>2 DEF RequestFits, ShipOps, SecretOps
    <3> QED
      BY <3>1, <3>2
  <2> QED
    BY <1>2, <2>1, <2>2 DEF RequestsFit
<1>8. CASE Restart
  BY <1>3, <1>8, RestartFacts DEF RequestsFit
<1>9. CASE UNCHANGED <<ship, dev, nas, req, stray>>
  BY <1>9 DEF RequestsFit, RequestFits
<1> QED
  BY <1>4, <1>5, <1>6, <1>7, <1>8, <1>9, InventorySteps

-----------------------------------------------------------------------------
\* A step that adds no live device keeps the devices of each ship.
LEMMA DevicesKept ==
  ASSUME \A d \in Devices : dev'[d].state = "live" => dev[d].state = "live" /\ dev'[d].ship = dev[d].ship
  PROVE  \A h : DevicesOf(h)' \subseteq DevicesOf(h)
<1> SUFFICES ASSUME NEW h, NEW d \in Devices, Live(d)', dev'[d].ship = h
             PROVE  Live(d) /\ dev[d].ship = h
  BY DEF DevicesOf
<1> QED
  BY DEF Live

LEMMA ShipsKept ==
  ASSUME OneDevicePerShip, ship' = ship, stray \subseteq stray',
         \A h \in Ships : DevicesOf(h)' \subseteq DevicesOf(h)
  PROVE  OneDevicePerShip'
<1> SUFFICES ASSUME NEW h \in Ships, h \notin stray'
             PROVE  /\ \A d, e \in DevicesOf(h)' : d = e
                    /\ DevicesOf(h)' # {} => ship'[h] = "live"
  BY DEF OneDevicePerShip
<1> QED
  BY DEF OneDevicePerShip

\* What a request has found out about a ship that does not change stays so.
LEMMA FoundKept ==
  ASSUME ShipsFit, stray \subseteq stray', NEW p \in Requests, NEW h \in Ships \ stray',
         req'[p].op \in ShipOps => req'[p] = req[p],
         req'[p].op \in ShipOps /\ req'[p].ship = h => ship'[h] = ship[h] /\ DevicesOf(h)' \subseteq DevicesOf(h)
  PROVE  req'[p].op \in ShipOps /\ req'[p].ship = h =>
           /\ req'[p].op = "create" /\ req'[p].at \in {"findDevices", "write"} => ship'[h] = "live"
           /\ req'[p].at = "write" => DevicesOf(h)' = {}
BY DEF ShipsFit

LEMMA ShipsNext ==
  ASSUME InventoryTypeOK, RequestsFit, RequestsApart, OneDevicePerShip, ShipsFit, [Next]_vars
  PROVE  OneDevicePerShip' /\ ShipsFit'
<1> USE InventoryOK DEF InventoryOK
<1>0. "idle" \notin ShipOps /\ Idle.op = "idle"
  BY DEF ShipOps, Idle
<1>1. ASSUME NEW q \in Requests, Arrive(q) PROVE OneDevicePerShip' /\ ShipsFit'
  <2>1. ship' = ship /\ dev' = dev /\ stray \subseteq stray' /\ \A p \in Requests \ {q} : req'[p] = req[p]
    BY <1>1, AdmitFacts
  <2>2. req'[q].op \notin ShipOps \/ req'[q].at = "findShip"
    BY <1>1, AdmitFacts
  <2>3. \A h : DevicesOf(h)' \subseteq DevicesOf(h)
    BY <2>1, DevicesKept
  <2>4. ShipsFit'
    BY <2>1, <2>2, <2>3, FoundKept DEF ShipsFit
  <2> QED
    BY <2>1, <2>3, <2>4, ShipsKept
<1>2. ASSUME NEW q \in Requests, Find(q) PROVE OneDevicePerShip' /\ ShipsFit'
  <2>1. ship' = ship /\ dev' = dev /\ stray \subseteq stray' /\ \A p \in Requests \ {q} : req'[p] = req[p]
    BY <1>2, FindFacts
  <2>2. req'[q].op \notin ShipOps
    BY <1>0, <1>2, FindFacts DEF RequestsFit, RequestFits
  <2>3. \A h : DevicesOf(h)' \subseteq DevicesOf(h)
    BY <2>1, DevicesKept
  <2>4. ShipsFit'
    BY <2>1, <2>2, <2>3, FoundKept DEF ShipsFit
  <2> QED
    BY <2>1, <2>3, <2>4, ShipsKept
<1>3. ASSUME NEW q \in Requests, Write(q) PROVE OneDevicePerShip' /\ ShipsFit'
  <2>1. ship' = ship /\ stray \subseteq stray' /\ req[q].at = "write" /\ (Done(q) \/ Goto(q, "audit"))
    BY <1>3, WriteFacts
  <2>2. /\ \A p \in Requests \ {q} : req'[p] = req[p]
        /\ req'[q].op \in ShipOps => req'[q].at = "audit"
    BY <1>0, <2>1, MoveFacts DEF Ats
  <2>3. CASE req[q].op = "create"
    <3>1. PICK d \in Devices :
            /\ \A e \in Devices \ {d} : dev'[e] = dev[e]
            /\ dev[d].state = "absent"
            /\ dev'[d].state = "live" /\ dev'[d].ship = req[q].ship
      BY <1>3, <2>3, WriteFacts DEF SecretOps, AddressOps, PatchedSecretOps
    <3>2. PICK k \in Ships : req[q].ship = k
      BY <2>3 DEF InventoryTypeOK
    <3>3. \A h : h # k => DevicesOf(h)' \subseteq DevicesOf(h)
      BY <3>1, <3>2 DEF DevicesOf, Live
    <3>4. DevicesOf(k)' \subseteq DevicesOf(k) \union {d}
      BY <3>1, <3>2 DEF DevicesOf, Live
    <3>5. k \notin stray' => DevicesOf(k) = {} /\ ship[k] = "live"
      BY <2>1, <2>3, <3>2 DEF ShipsFit, ShipOps
    <3>6. \A h \in Ships : h \notin stray' =>
            (\A x, y \in DevicesOf(h)' : x = y) /\ (DevicesOf(h)' # {} => ship'[h] = "live")
      <4> TAKE h \in Ships
      <4> HAVE h \notin stray'
      <4>1. CASE h = k
        BY <2>1, <3>4, <3>5, <4>1
      <4>2. CASE h # k
        <5>1. (\A x, y \in DevicesOf(h) : x = y) /\ (DevicesOf(h) # {} => ship[h] = "live")
          BY <2>1 DEF OneDevicePerShip
        <5> QED
          BY <2>1, <3>3, <4>2, <5>1
      <4> QED
        BY <4>1, <4>2
    <3>7. \A p \in Requests \ {q} : req[p].op \in ShipOps /\ req[p].ship = k => k \in stray'
      BY <2>1, <3>2 DEF RequestsApart, About
    <3>8. ShipsFit'
      BY <2>1, <2>2, <3>3, <3>7, FoundKept DEF ShipsFit
    <3> QED
      BY <3>6, <3>8 DEF OneDevicePerShip
  <2>4. CASE req[q].op # "create"
    <3>1. \A d \in Devices : dev'[d].state = "live" => dev[d].state = "live" /\ dev'[d].ship = dev[d].ship
      BY <1>3, <2>4, WriteFacts
    <3>2. \A h : DevicesOf(h)' \subseteq DevicesOf(h)
      BY <3>1, DevicesKept
    <3>3. ShipsFit'
      BY <2>1, <2>2, <3>2, FoundKept DEF ShipsFit
    <3> QED
      BY <2>1, <3>2, <3>3, ShipsKept
  <2> QED
    BY <2>3, <2>4
<1>4. ASSUME NEW q \in Requests, Quiet(q) PROVE OneDevicePerShip' /\ ShipsFit'
  <2>1. dev' = dev /\ stray \subseteq stray' /\ \A p \in Requests \ {q} : req'[p] = req[p]
    BY <1>4, QuietFacts
  <2>2. \A h : DevicesOf(h)' = DevicesOf(h)
    BY <2>1 DEF DevicesOf, Live
  <2>3. req'[q] = Idle \/ (req'[q].op = req[q].op /\ req'[q].ship = req[q].ship)
    BY <1>4, QuietFacts
  <2>4. CASE WriteShip(q)
    <3>1. /\ req[q].at = "write" /\ req[q].op = "removeShip" /\ req[q].ship \in Ships
          /\ ship' = [ship EXCEPT ![req[q].ship] = "removed"]
          /\ req'[q].at = "audit"
      BY <2>4, MoveFacts DEF WriteShip, RequestsFit, RequestFits, ShipOps, Ats
    <3>2. PICK k \in Ships : req[q].ship = k
      BY <3>1
    <3>3. \A h \in Ships : h # k => ship'[h] = ship[h]
      BY <3>1, <3>2 DEF InventoryTypeOK
    <3>4. k \notin stray' => DevicesOf(k) = {}
      BY <2>1, <3>1, <3>2 DEF ShipsFit, ShipOps
    <3>5. \A p \in Requests \ {q} : req[p].op \in ShipOps /\ req[p].ship = k => k \in stray'
      BY <2>1, <3>2 DEF RequestsApart, About
    <3>6. ShipsFit'
      BY <2>1, <2>2, <3>1, <3>3, <3>5, FoundKept DEF ShipsFit
    <3>7. \A h \in Ships : h \notin stray' =>
            (\A x, y \in DevicesOf(h)' : x = y) /\ (DevicesOf(h)' # {} => ship'[h] = "live")
      BY <2>1, <2>2, <3>3, <3>4 DEF OneDevicePerShip
    <3> QED
      BY <3>6, <3>7 DEF OneDevicePerShip
  <2>5. CASE ~WriteShip(q)
    <3>1. ship' = ship
      BY <1>4, <2>5 DEF Quiet, FindShip, FindDevices, Audit, DeleteNas, InsertNas, Fail
    <3>2. ASSUME NEW h \in Ships \ stray', req'[q].op \in ShipOps, req'[q].ship = h
          PROVE  /\ req'[q].op = "create" /\ req'[q].at \in {"findDevices", "write"} => ship'[h] = "live"
                 /\ req'[q].at = "write" => DevicesOf(h)' = {}
      <4>1. req[q].op = req'[q].op /\ req[q].ship = h /\ h \notin stray
        BY <1>0, <2>1, <2>3, <3>2
      <4>2. CASE FindShip(q)
        BY <2>2, <3>1, <4>1, <4>2, <3>2, MoveFacts, <1>0 DEF FindShip, Then, Ats
      <4>3. CASE FindDevices(q)
        BY <2>2, <3>1, <4>1, <4>3, <3>2, MoveFacts, <1>0 DEF FindDevices, Then, Ats, Occupied, ShipsFit
      <4>4. CASE Audit(q) \/ DeleteNas(q) \/ InsertNas(q) \/ Fail(q)
        BY <3>2, <4>4, MoveFacts, <1>0 DEF Audit, DeleteNas, InsertNas, Fail, Ats
      <4> QED
        BY <1>4, <2>5, <4>2, <4>3, <4>4 DEF Quiet
    <3>3. ShipsFit'
      BY <2>1, <2>2, <3>1, <3>2, FoundKept DEF ShipsFit
    <3> QED
      BY <2>1, <2>2, <3>1, <3>3, ShipsKept
  <2> QED
    BY <2>4, <2>5
<1>5. CASE Restart
  <2>1. ship' = ship /\ dev' = dev /\ stray \subseteq stray' /\ \A p \in Requests : req'[p].op \notin ShipOps
    BY <1>0, <1>5, RestartFacts
  <2>2. \A h : DevicesOf(h)' \subseteq DevicesOf(h)
    BY <2>1, DevicesKept
  <2> QED
    BY <2>1, <2>2, ShipsKept DEF ShipsFit
<1>6. CASE UNCHANGED <<ship, dev, nas, req, stray>>
  BY <1>6 DEF OneDevicePerShip, ShipsFit, DevicesOf, Live
<1> QED
  BY <1>1, <1>2, <1>3, <1>4, <1>5, <1>6, InventorySteps

-----------------------------------------------------------------------------
\* A step that leaves the devices of an address alone, and its secret with
\* FreeRADIUS and the requests, keeps it as it is.
LEMMA AddressKept ==
  ASSUME NEW i \in Ips, AddressFits(i), nas'[i] = nas[i],
         \A d \in Devices : dev'[d].ip = i \/ dev[d].ip = i =>
            dev'[d].ip = dev[d].ip /\ dev'[d].state = dev[d].state /\ dev'[d].secret = dev[d].secret,
         \A q \in Requests : (ToBeTold(q, i)' <=> ToBeTold(q, i)),
         \A q \in Requests : ToBeTold(q, i) => req'[q].secret = req[q].secret
  PROVE  AddressFits(i)'
<1>1. DevicesAt(i)' = DevicesAt(i) /\ \A d \in DevicesAt(i) : dev'[d].secret = dev[d].secret
  BY DEF DevicesAt, Live
<1>2. \A s : HasSecret(i, s)' = HasSecret(i, s)
  BY <1>1 DEF HasSecret
<1>3. \A d \in Devices : dev'[d].ip = i => Live(d)'
  BY DEF AddressFits, Live
<1>4. \A d, e \in DevicesAt(i)' : d = e
  BY <1>1 DEF AddressFits
<1>5. (\A q \in Requests : ~ToBeTold(q, i)') => HasSecret(i, nas[i])'
  <2>1. (\A q \in Requests : ~ToBeTold(q, i)') => HasSecret(i, nas[i])
    BY DEF AddressFits
  <2> QED
    BY <1>1, <2>1 DEF HasSecret
<1>6. \A q \in Requests : ToBeTold(q, i)' => HasSecret(i, req[q].secret)'
  <2> SUFFICES ASSUME NEW q \in Requests, ToBeTold(q, i)' PROVE HasSecret(i, req[q].secret)'
    OBVIOUS
  <2>1. ToBeTold(q, i) /\ req'[q].secret = req[q].secret
    OBVIOUS
  <2>2. HasSecret(i, req[q].secret)
    BY <2>1 DEF AddressFits
  <2> QED
    BY <1>1, <2>1, <2>2 DEF HasSecret
<1> QED
  BY <1>3, <1>4, <1>5, <1>6 DEF AddressFits

\* Two requests do not tell FreeRADIUS of the same address.
LEMMA OneTeller ==
  ASSUME RequestsApart, NEW i \in Ips, i \notin stray, NEW p \in Requests, NEW q \in Requests,
         req[p].ip = i, req[q].ip = i
  PROVE  p = q
BY InventoryOK DEF InventoryOK, RequestsApart, About

\* An address whose device gets a secret.
LEMMA AddressGetsSecret ==
  ASSUME InventoryTypeOK, RequestsApart, NEW i \in Ips, i \notin stray, AddressFits(i),
         NEW q \in Requests, NEW d \in Devices, dev[d].ip = i,
         req[q].ip = i, ToBeTold(q, i)', \A p \in Requests \ {q} : req'[p] = req[p],
         dev'[d].ip = i, dev'[d].state = dev[d].state, dev'[d].secret = req'[q].secret,
         \A e \in Devices \ {d} : dev'[e] = dev[e]
  PROVE  AddressFits(i)'
<1>1. DevicesAt(i)' = DevicesAt(i) /\ DevicesAt(i) = {d}
  BY DEF DevicesAt, Live, AddressFits
<1>2. \A p \in Requests \ {q} : ~ToBeTold(p, i)'
  <2> TAKE p \in Requests \ {q}
  <2>1. req[p].ip # i
    BY OneTeller
  <2> QED
    BY <2>1 DEF ToBeTold
<1>3. HasSecret(i, req[q].secret)'
  BY <1>1 DEF HasSecret
<1>4. \A e \in Devices : dev'[e].ip = i => Live(e)'
  BY DEF AddressFits, Live
<1>5. \A x, y \in DevicesAt(i)' : x = y
  BY <1>1
<1> QED
  BY <1>2, <1>3, <1>4, <1>5 DEF AddressFits

\* An address nobody has gets a device.
LEMMA AddressGetsDevice ==
  ASSUME RequestsApart, RequestsFit, NEW i \in Ips, i \notin stray, AddressFits(i),
         NEW q \in Requests, NEW d \in Devices, DevicesAt(i) = {}, nas' = nas,
         req[q].ip = i, req[q].op = "create", ~ToBeTold(q, i)', \A p \in Requests \ {q} : req'[p] = req[p],
         dev'[d].ip = i, dev'[d].state = "live", dev'[d].secret = 0,
         \A e \in Devices \ {d} : dev'[e] = dev[e]
  PROVE  AddressFits(i)'
<1>1. DevicesAt(i)' = {d}
  BY DEF DevicesAt, Live
<1>2. \A p \in Requests : ~ToBeTold(p, i)' /\ ~ToBeTold(p, i)
  <2>1. \A p \in Requests \ {q} : req[p].ip # i
    BY OneTeller
  <2>2. ~ToBeTold(q, i)
    BY DEF ToBeTold, SecretOps
  <2> QED
    BY <2>1, <2>2 DEF ToBeTold
<1>3. nas[i] = 0
  BY <1>2 DEF AddressFits, HasSecret
<1>4. HasSecret(i, nas[i])'
  BY <1>1, <1>3 DEF HasSecret
<1>5. \A e \in Devices : dev'[e].ip = i => Live(e)'
  BY DEF AddressFits, Live
<1>6. \A x, y \in DevicesAt(i)' : x = y
  BY <1>1
<1> QED
  BY <1>2, <1>4, <1>5, <1>6 DEF AddressFits

\* FreeRADIUS is told of an address, or told and then left to its next statement.
LEMMA AddressTold ==
  ASSUME RequestsApart, NEW i \in Ips, i \notin stray, AddressFits(i), dev' = dev,
         NEW q \in Requests, ToBeTold(q, i), \A p \in Requests \ {q} : req'[p] = req[p],
         \/ ToBeTold(q, i)' /\ req'[q].secret = req[q].secret
         \/ ~ToBeTold(q, i)' /\ nas'[i] = req[q].secret
  PROVE  AddressFits(i)'
<1>1. DevicesAt(i)' = DevicesAt(i)
  BY DEF DevicesAt, Live
<1>2. \A p \in Requests \ {q} : ~ToBeTold(p, i)'
  <2> TAKE p \in Requests \ {q}
  <2>1. req[p].ip # i
    BY OneTeller DEF ToBeTold
  <2> QED
    BY <2>1 DEF ToBeTold
<1>3. \A e \in Devices : dev'[e].ip = i => Live(e)'
  BY DEF AddressFits, Live
<1>4. \A x, y \in DevicesAt(i)' : x = y
  BY <1>1 DEF AddressFits
<1>5. HasSecret(i, req[q].secret)
  BY DEF AddressFits
<1>6. CASE ToBeTold(q, i)' /\ req'[q].secret = req[q].secret
  <2>1. HasSecret(i, req[q].secret)'
    BY <1>1, <1>5, <1>6 DEF HasSecret
  <2> QED
    BY <1>2, <1>3, <1>4, <1>6, <2>1 DEF AddressFits
<1>7. CASE ~ToBeTold(q, i)' /\ nas'[i] = req[q].secret
  <2>1. HasSecret(i, nas[i])'
    BY <1>1, <1>5, <1>7 DEF HasSecret
  <2> QED
    BY <1>2, <1>3, <1>4, <1>7, <2>1 DEF AddressFits
<1> QED
  BY <1>6, <1>7

\* One statement of a request that FreeRADIUS may be told by.
LEMMA AddressQuiet ==
  ASSUME InventoryTypeOK, RequestsFit, RequestsApart, NEW i \in Ips, i \notin stray', AddressFits(i),
         NEW q \in Requests, Quiet(q)
  PROVE  AddressFits(i)'
<1>0. "idle" \notin SecretOps /\ Idle.op = "idle" /\ Idle.at = "idle" /\ i # None
  BY InventoryOK DEF InventoryOK, SecretOps, Idle
<1>1. /\ dev' = dev /\ stray \subseteq stray' /\ i \notin stray
      /\ \A p \in Requests \ {q} : req'[p] = req[p]
      /\ \/ req'[q] = Idle
         \/ /\ req'[q].op = req[q].op /\ req'[q].ip = req[q].ip /\ req'[q].secret = req[q].secret
  BY QuietFacts
<1>2. \A p \in Requests \ {q} : (ToBeTold(p, i)' <=> ToBeTold(p, i))
  BY <1>1 DEF ToBeTold
<1>3. ASSUME nas'[i] = nas[i], (ToBeTold(q, i)' <=> ToBeTold(q, i)) PROVE AddressFits(i)'
  <2>1. \A p \in Requests : (ToBeTold(p, i)' <=> ToBeTold(p, i))
    BY <1>2, <1>3
  <2>2. \A p \in Requests : ToBeTold(p, i) => req'[p].secret = req[p].secret
    BY <1>0, <1>1, <1>3 DEF ToBeTold
  <2>3. \A d \in Devices : dev'[d].ip = dev[d].ip /\ dev'[d].state = dev[d].state /\ dev'[d].secret = dev[d].secret
    BY <1>1
  <2> QED
    BY <1>3, <2>1, <2>2, <2>3, AddressKept
<1>4. CASE FindShip(q) \/ FindDevices(q) \/ WriteShip(q)
  <2>1. nas' = nas /\ req[q].op \notin SecretOps
    BY <1>4 DEF FindShip, FindDevices, WriteShip, RequestsFit, RequestFits, ShipOps, SecretOps
  <2> QED
    BY <1>0, <1>1, <1>3, <2>1 DEF ToBeTold
<1>5. CASE Audit(q)
  <2>1. nas' = nas /\ req[q].at = "audit"
    BY <1>5 DEF Audit
  <2>2. CASE Tells(req[q])
    <3>1. req'[q].at = "deleteNas" /\ req'[q].op = req[q].op /\ req'[q].ip = req[q].ip
      BY <1>5, <2>2, MoveFacts DEF Audit, Ats
    <3> QED
      BY <1>3, <2>1, <3>1 DEF ToBeTold
  <2>3. CASE ~Tells(req[q])
    <3>1. req'[q] = Idle
      BY <1>5, <2>3, MoveFacts DEF Audit
    <3> QED
      BY <1>0, <1>3, <2>1, <2>3, <3>1 DEF ToBeTold, Tells, SecretOps
  <2> QED
    BY <2>2, <2>3
<1>6. CASE DeleteNas(q)
  <2>1. /\ req[q].at = "deleteNas" /\ req[q].op \in SecretOps
        /\ nas' = [nas EXCEPT ![req[q].ip] = 0]
    BY <1>6 DEF DeleteNas, RequestsFit, RequestFits
  <2>2. CASE req[q].op = "setSecret"
    <3>1. req'[q].at = "insertNas" /\ req'[q].op = req[q].op /\ req'[q].ip = req[q].ip /\ req'[q].secret = req[q].secret
      BY <1>6, <2>2, MoveFacts DEF DeleteNas, Ats
    <3>2. (ToBeTold(q, i)' <=> ToBeTold(q, i))
      BY <2>1, <3>1 DEF ToBeTold
    <3>3. CASE ToBeTold(q, i)
      BY <1>1, <3>1, <3>2, <3>3, AddressTold
    <3>4. CASE ~ToBeTold(q, i)
      <4>1. nas'[i] = nas[i]
        BY <2>1, <3>4 DEF ToBeTold, InventoryTypeOK
      <4> QED
        BY <1>3, <3>2, <4>1
    <3> QED
      BY <3>3, <3>4
  <2>3. CASE req[q].op # "setSecret"
    <3>1. req'[q] = Idle /\ req[q].op = "revokeSecret"
      BY <1>6, <2>1, <2>3, MoveFacts DEF DeleteNas, SecretOps
    <3>2. ~ToBeTold(q, i)'
      BY <1>0, <3>1 DEF ToBeTold
    <3>3. CASE ToBeTold(q, i)
      <4>1. req[q].secret = 0
        BY <3>1 DEF RequestsFit, RequestFits
      <4>2. nas'[i] = 0
        BY <2>1, <3>3 DEF ToBeTold, InventoryTypeOK
      <4> QED
        BY <1>1, <3>2, <3>3, <4>1, <4>2, AddressTold
    <3>4. CASE ~ToBeTold(q, i)
      <4>1. nas'[i] = nas[i]
        BY <2>1, <3>4 DEF ToBeTold, InventoryTypeOK
      <4> QED
        BY <1>3, <3>2, <3>4, <4>1
    <3> QED
      BY <3>3, <3>4
  <2> QED
    BY <2>2, <2>3
<1>7. CASE InsertNas(q)
  <2>1. /\ req[q].at = "insertNas" /\ req[q].op \in SecretOps
        /\ nas' = [nas EXCEPT ![req[q].ip] = req[q].secret]
        /\ req'[q] = Idle
    BY <1>7, MoveFacts DEF InsertNas, RequestsFit, RequestFits
  <2>2. ~ToBeTold(q, i)'
    BY <1>0, <2>1 DEF ToBeTold
  <2>3. CASE ToBeTold(q, i)
    <3>1. nas'[i] = req[q].secret
      BY <2>1, <2>3 DEF ToBeTold, InventoryTypeOK
    <3> QED
      BY <1>1, <2>2, <2>3, <3>1, AddressTold
  <2>4. CASE ~ToBeTold(q, i)
    <3>1. nas'[i] = nas[i]
      BY <2>1, <2>4 DEF ToBeTold, InventoryTypeOK
    <3> QED
      BY <1>3, <2>2, <2>4, <3>1
  <2> QED
    BY <2>3, <2>4
<1>8. CASE Fail(q)
  <2>1. nas' = nas /\ req[q].ip \in stray' /\ req'[q] = Idle
    BY <1>8, MoveFacts DEF Fail, About
  <2> QED
    BY <1>0, <1>3, <2>1 DEF ToBeTold
<1> QED
  BY <1>4, <1>5, <1>6, <1>7, <1>8 DEF Quiet

\* One device row is written.
LEMMA AddressWrite ==
  ASSUME InventoryTypeOK, RequestsFit, RequestsApart, NEW i \in Ips, i \notin stray', AddressFits(i),
         NEW q \in Requests, Write(q)
  PROVE  AddressFits(i)'
<1>1. UNCHANGED nas /\ stray \subseteq stray' /\ i \notin stray /\ req[q].at = "write" /\ (Done(q) \/ Goto(q, "audit"))
  BY WriteFacts
<1>2. \A p \in Requests \ {q} : req'[p] = req[p]
  BY <1>1, MoveFacts DEF Ats
<1>3. PICK d \in Devices :
        /\ \A e \in Devices \ {d} : dev'[e] = dev[e]
        /\ \/ /\ req[q].op = "create" /\ dev[d].state = "absent"
              /\ dev'[d].state = "live" /\ dev'[d].ip = req[q].ip
              /\ dev'[d].secret = req[q].secret
              /\ DevicesAt(req[q].ip) # {} \/ req[q].secret # 0 => req[q].ip \in stray'
           \/ /\ req[q].op \notin SecretOps
              /\ dev'[d].ip # i /\ dev[d].ip # i
           \/ /\ req[q].op \in SecretOps /\ d = req[q].dev
              /\ dev'[d].state = dev[d].state
              /\ dev'[d].ip = dev[d].ip /\ dev'[d].secret = req[q].secret
              /\ Goto(q, "audit")
  BY WriteFacts DEF SecretOps, AddressOps, PatchedSecretOps
<1>4. \A p \in Requests \ {q} : (ToBeTold(p, i)' <=> ToBeTold(p, i))
  BY <1>2 DEF ToBeTold
<1>5. ~ToBeTold(q, i)
  BY <1>1 DEF ToBeTold
<1>6. ASSUME dev'[d].ip # i, dev[d].ip # i, ~ToBeTold(q, i)' PROVE AddressFits(i)'
  <2>1. \A p \in Requests : (ToBeTold(p, i)' <=> ToBeTold(p, i))
    BY <1>4, <1>5, <1>6
  <2>2. \A p \in Requests : ToBeTold(p, i) => req'[p].secret = req[p].secret
    BY <1>2, <1>5
  <2>3. \A e \in Devices : dev'[e].ip = i \/ dev[e].ip = i =>
            dev'[e].ip = dev[e].ip /\ dev'[e].state = dev[e].state /\ dev'[e].secret = dev[e].secret
    BY <1>3, <1>6
  <2> QED
    BY <1>1, <2>1, <2>2, <2>3, AddressKept
<1>7. req[q].op \notin SecretOps => ~ToBeTold(q, i)'
  BY <1>1, MoveFacts DEF ToBeTold, Idle, SecretOps, Ats
<1>8. CASE /\ req[q].op = "create" /\ dev[d].state = "absent"
           /\ dev'[d].state = "live" /\ dev'[d].ip = req[q].ip
           /\ dev'[d].secret = req[q].secret
           /\ DevicesAt(req[q].ip) # {} \/ req[q].secret # 0 => req[q].ip \in stray'
  <2>1. ~ToBeTold(q, i)'
    BY <1>7, <1>8 DEF SecretOps
  <2>2. dev[d].ip # i
    BY <1>8 DEF AddressFits, Live
  <2>3. CASE req[q].ip = i
    <3>1. DevicesAt(i) = {} /\ dev'[d].secret = 0
      BY <1>8, <2>3
    <3> QED
      BY <1>1, <1>2, <1>3, <1>8, <2>1, <2>3, <3>1, AddressGetsDevice
  <2>4. CASE req[q].ip # i
    BY <1>6, <1>8, <2>1, <2>2, <2>4
  <2> QED
    BY <2>3, <2>4
<1>9. CASE req[q].op \notin SecretOps /\ dev'[d].ip # i /\ dev[d].ip # i
  BY <1>6, <1>7, <1>9
<1>10. CASE /\ req[q].op \in SecretOps /\ d = req[q].dev
            /\ dev'[d].state = dev[d].state
            /\ dev'[d].ip = dev[d].ip /\ dev'[d].secret = req[q].secret
            /\ Goto(q, "audit")
  <2>1. req'[q].at = "audit" /\ req'[q].op = req[q].op /\ req'[q].ip = req[q].ip /\ req'[q].secret = req[q].secret
    BY <1>10, MoveFacts DEF Ats
  <2>2. req[q].ip = dev[d].ip \/ {req[q].ip, dev[d].ip} \subseteq stray
    BY <1>1, <1>10 DEF RequestsFit, RequestFits
  <2>3. CASE dev[d].ip = i
    <3>1. req[q].ip = i /\ ToBeTold(q, i)'
      BY <1>1, <1>10, <2>1, <2>2, <2>3 DEF ToBeTold
    <3> QED
      BY <1>1, <1>2, <1>3, <1>10, <2>1, <2>3, <3>1, AddressGetsSecret
  <2>4. CASE dev[d].ip # i
    <3>1. ~ToBeTold(q, i)'
      BY <1>1, <2>1, <2>2, <2>4 DEF ToBeTold
    <3> QED
      BY <1>6, <1>10, <2>4, <3>1
  <2> QED
    BY <2>3, <2>4
<1> QED
  BY <1>3, <1>8, <1>9, <1>10

LEMMA AddressesNext ==
  ASSUME InventoryTypeOK, RequestsFit, RequestsApart, AddressesFit, [Next]_vars
  PROVE  AddressesFit'
<1> SUFFICES ASSUME NEW i \in Ips, i \notin stray' PROVE AddressFits(i)'
  BY DEF AddressesFit
<1>0. "idle" \notin SecretOps /\ Idle.op = "idle" /\ Idle.at = "idle"
  BY DEF SecretOps, Idle
<1>1. stray \subseteq stray'
  BY InventorySteps, AdmitFacts, FindFacts, WriteFacts, QuietFacts, RestartFacts
<1>2. AddressFits(i)
  BY <1>1 DEF AddressesFit
<1>3. ASSUME dev' = dev, nas' = nas, \A q \in Requests : (ToBeTold(q, i)' <=> ToBeTold(q, i)),
             \A q \in Requests : ToBeTold(q, i) => req'[q].secret = req[q].secret
      PROVE  AddressFits(i)'
  BY <1>2, <1>3, AddressKept
<1>4. ASSUME NEW q \in Requests, Arrive(q) PROVE AddressFits(i)'
  <2>1. dev' = dev /\ nas' = nas /\ \A p \in Requests \ {q} : req'[p] = req[p]
    BY <1>4, AdmitFacts
  <2>2. ~ToBeTold(q, i) /\ ~ToBeTold(q, i)'
    BY <1>0, <1>4, AdmitFacts DEF ToBeTold
  <2>3. \A p \in Requests : (ToBeTold(p, i)' <=> ToBeTold(p, i))
    BY <2>1, <2>2 DEF ToBeTold
  <2> QED
    BY <1>3, <2>1, <2>2, <2>3
<1>5. ASSUME NEW q \in Requests, Find(q) PROVE AddressFits(i)'
  <2>1. dev' = dev /\ nas' = nas /\ \A p \in Requests \ {q} : req'[p] = req[p]
    BY <1>5, FindFacts
  <2>2. ~ToBeTold(q, i) /\ ~ToBeTold(q, i)'
    BY <1>0, <1>5, FindFacts DEF ToBeTold
  <2>3. \A p \in Requests : (ToBeTold(p, i)' <=> ToBeTold(p, i))
    BY <2>1, <2>2 DEF ToBeTold
  <2> QED
    BY <1>3, <2>1, <2>2, <2>3
<1>6. ASSUME NEW q \in Requests, Write(q) PROVE AddressFits(i)'
  BY <1>2, <1>6, AddressWrite
<1>7. ASSUME NEW q \in Requests, Quiet(q) PROVE AddressFits(i)'
  BY <1>2, <1>7, AddressQuiet
<1>8. CASE Restart
  <2>1. \A q \in Requests : ~ToBeTold(q, i) /\ ~ToBeTold(q, i)'
    BY <1>0, <1>8, RestartFacts DEF ToBeTold, About
  <2> QED
    BY <1>3, <1>8, <2>1, RestartFacts
<1>9. CASE UNCHANGED <<ship, dev, nas, req, stray>>
  BY <1>3, <1>9 DEF ToBeTold
<1> QED
  BY <1>4, <1>5, <1>6, <1>7, <1>8, <1>9, InventorySteps

-----------------------------------------------------------------------------
\* In the beginning nobody is under way; one device at most, with its secret known.
LEMMA InventoryBegins == InitInventory => InventoryInv
<1> SUFFICES ASSUME InitInventory PROVE InventoryInv
  OBVIOUS
<1> USE InventoryOK DEF InventoryOK
<1> DEFINE h == CHOOSE h \in Ships : TRUE
           i == CHOOSE i \in Ips : TRUE
           e == CHOOSE d \in Devices : TRUE
<1>1. h \in Ships /\ i \in Ips /\ e \in Devices
  OBVIOUS
<1> HIDE DEF h, i, e
<1>2. PICK first \in {{}, {e}} :
        /\ dev = [d \in Devices |->
                    IF d \in first
                      THEN [state |-> "live", ship |-> h, ip |-> i, secret |-> 1]
                      ELSE [state |-> "absent", ship |-> None, ip |-> None, secret |-> 0]]
        /\ nas = [j \in Ips |-> IF j = i /\ first # {} THEN 1 ELSE 0]
  BY DEF InitInventory, h, i, e
<1>3. \A q \in Requests : req[q] = Idle
  BY DEF InitInventory
<1>4. RequestsApart
  BY <1>3 DEF RequestsApart, About, Idle
<1>5. RequestsFit
  BY <1>3 DEF RequestsFit, RequestFits, Idle, ShipOps, SecretOps
<1>6. OneDevicePerShip
  BY <1>2 DEF OneDevicePerShip, DevicesOf, Live, InitInventory
<1>7. ShipsFit
  BY <1>3 DEF ShipsFit, Idle, ShipOps
<1>8. AddressesFit
  <2>1. \A q \in Requests, j \in Ips : ~ToBeTold(q, j)
    BY <1>3 DEF ToBeTold, Idle, SecretOps
  <2>2. \A j \in Ips : \A d \in Devices : dev[d].ip = j => Live(d) /\ d \in first /\ j = i
    BY <1>2 DEF Live
  <2>3. \A j \in Ips : \A x, y \in DevicesAt(j) : x = y
    BY <2>2 DEF DevicesAt
  <2>4. \A j \in Ips : HasSecret(j, nas[j])
    <3> TAKE j \in Ips
    <3>1. \A d \in DevicesAt(j) : dev[d].secret = nas[j]
      BY <1>2, <2>2 DEF DevicesAt
    <3>2. nas[j] # 0 => DevicesAt(j) # {}
      <4> SUFFICES ASSUME nas[j] # 0 PROVE DevicesAt(j) # {}
        OBVIOUS
      <4>1. j = i /\ first = {e}
        BY <1>2
      <4> QED
        BY <1>1, <1>2, <4>1 DEF DevicesAt, Live
    <3> QED
      BY <3>1, <3>2 DEF HasSecret
  <2> QED
    BY <2>1, <2>2, <2>3, <2>4 DEF AddressesFit, AddressFits
<1> QED
  BY <1>4, <1>5, <1>6, <1>7, <1>8 DEF InventoryInv

LEMMA InventoryHolds == Spec => []InventoryInv
<1>1. Init => InventoryInv
  BY InventoryBegins DEF Init
<1>2. InventoryTypeOK /\ InventoryInv /\ [Next]_vars => InventoryInv'
  BY ApartNext, FitNext, ShipsNext, AddressesNext DEF InventoryInv
<1>3. TypeOK => InventoryTypeOK
  BY DEF TypeOK
<1> QED
  BY <1>1, <1>2, <1>3, SyncTypeCorrect, PTL DEF Spec

\* However requests interleave and fail, and whenever the process restarts, a
\* ship about which no two requests overlapped has one device at most, and is
\* not removed under it.
THEOREM ShipsKeepOneDevice == Spec => []OneDevicePerShip
<1>1. InventoryInv => OneDevicePerShip
  BY DEF InventoryInv
<1> QED
  BY <1>1, InventoryHolds, PTL

\* Once the requests are over, FreeRADIUS knows an address by the secret of the
\* device there, for any number of devices, addresses and requests.
THEOREM RadiusKnowsSecrets == Spec => []NasFollowsSecret
<1>1. InventoryInv => NasFollowsSecret
  <2> SUFFICES ASSUME InventoryInv, NEW i \in Ips \ stray, \A q \in Requests : ~Busy(q)
               PROVE  nas[i] = IF DevicesAt(i) = {} THEN 0 ELSE dev[CHOOSE d \in DevicesAt(i) : TRUE].secret
    BY DEF NasFollowsSecret
  <2>1. \A q \in Requests : ~ToBeTold(q, i)
    BY DEF Busy, ToBeTold, SecretOps
  <2>2. HasSecret(i, nas[i])
    BY <2>1 DEF InventoryInv, AddressesFit, AddressFits
  <2> QED
    BY <2>2 DEF HasSecret
<1> QED
  BY <1>1, InventoryHolds, PTL

=============================================================================
