------------------------ MODULE OperatorConsole_proofs ------------------------
(***************************************************************************)
(* Proofs about the operator's console. The page for the ZeroTier networks *)
(* comes first: for any number of networks and clicks, and answers in any  *)
(* order, settings and members stay in their networks unless calls of a    *)
(* kind overlapped.                                                        *)
(*                                                                         *)
(* The pages of PortalPages come second. A panel that is settled shows     *)
(* what is selected, and every change: that is PortalInv, of the page with *)
(* its calls outstanding. Every step of a page but two renders it, so that *)
(* most of the argument is about a render: an effect that runs has begun   *)
(* the one request of its panel, and one that does not run asks for what   *)
(* it asked for.                                                           *)
(***************************************************************************)
EXTENDS OperatorConsole, TLAPS

---------------------------------------------------------------------------
(* Calls that begin.                                                       *)

\* What is known of two calls of a kind that have not overlapped.
LEMMA BeginAlone ==
  ASSUME NEW new, NEW left, Begin(new, left), NEW g, g \notin overlap'
  PROVE  /\ g \notin overlap
         /\ \A c \in new, d \in left : ~(g \in GroupsOf(c) /\ g \in GroupsOf(d))
         /\ \A c, d \in new : g \in GroupsOf(c) /\ g \in GroupsOf(d) => c = d
<1> DEFINE pairs == (new \X left) \union {two \in new \X new : two[1] # two[2]}
           Shared(pair) == GroupsOf(pair[1]) \intersect GroupsOf(pair[2])
<1>1. overlap' = overlap \union UNION {Shared(pair) : pair \in pairs}
  BY DEF Begin
<1>2. g \notin overlap /\ \A pair \in pairs : g \notin Shared(pair)
  BY <1>1
<1>3. ASSUME NEW c \in new, NEW d \in left
      PROVE  ~(g \in GroupsOf(c) /\ g \in GroupsOf(d))
  <2>1. <<c, d>> \in pairs /\ <<c, d>>[1] = c /\ <<c, d>>[2] = d
    OBVIOUS
  <2> QED
    BY <1>2, <2>1
<1>4. ASSUME NEW c \in new, NEW d \in new, c # d
      PROVE  ~(g \in GroupsOf(c) /\ g \in GroupsOf(d))
  <2>1. <<c, d>>[1] = c /\ <<c, d>>[2] = d
    OBVIOUS
  <2>2. <<c, d>> \in pairs
    BY <1>4
  <2> QED
    BY <1>2, <2>1, <2>2
<1> QED
  BY <1>2, <1>3, <1>4

\* The kinds of call.
LEMMA Kinds ==
  ASSUME NEW c
  PROVE  /\ "members" \in GroupsOf(c) <=> ReadsMembers(c)
         /\ "open" \in GroupsOf(c) <=> c.op = "open"
BY DEF GroupsOf

\* What a step has to see to for the table...
LEMMA TableStep ==
  ASSUME TableInv, NEW new, NEW left \in SUBSET calls, Begin(new, left), "members" \notin overlap',
         \A c \in new : c.op = "patchMember" =>
           c.arg.row = c.net /\ (row'.moved \/ c.arg.from = c.net),
         row.moved => row'.moved,
         row'.moved \/ \A f \in Drafts : row'[f] \in {None, selected'},
         \A c \in new : ReadsMembers(c) => selected' \in {None, c.net},
         selected' \in {selected, None} \/ \E c \in new : ReadsMembers(c),
         selected' # None /\ members'.of # None /\ ~members'.loading => members'.of = selected'
  PROVE  TableInv'
<1>1. calls' = left \union new
  BY DEF Begin
<1>2. /\ \A c \in new, d \in left : ~(ReadsMembers(c) /\ ReadsMembers(d))
      /\ \A c, d \in new : ReadsMembers(c) /\ ReadsMembers(d) => c = d
  BY BeginAlone, Kinds
<1>3. ASSUME NEW c \in left, ReadsMembers(c)
      PROVE  selected' \in {None, c.net}
  BY <1>2, <1>3 DEF TableInv
<1>4. \A c : ReadsMembers(c)' <=> ReadsMembers(c)
  BY DEF ReadsMembers
<1>5. ASSUME NEW c \in calls', c.op = "patchMember"
      PROVE  c.arg.row = c.net /\ (row'.moved \/ c.arg.from = c.net)
  <2>1. CASE c \in left
    BY <1>5, <2>1 DEF TableInv
  <2>2. CASE c \in new
    BY <1>5, <2>2
  <2> QED
    BY <1>1, <2>1, <2>2
<1>6. /\ \A c, d \in calls' : ReadsMembers(c)' /\ ReadsMembers(d)' => c = d
      /\ \A c \in calls' : ReadsMembers(c)' => selected' \in {None, c.net}
  BY <1>1, <1>2, <1>3, <1>4 DEF TableInv
<1>7. (row.moved \/ \A f \in Drafts : row[f] \in {None, selected})'
  BY DEF Drafts
<1> QED
  BY <1>5, <1>6, <1>7 DEF TableInv

\* ... and for the form.
LEMMA FormStep ==
  ASSUME FormInv, NEW new, NEW left \in SUBSET calls, Begin(new, left), "open" \notin overlap',
         \A c \in new : c.op = "patchNetwork" => c.arg = c.net,
         \A c \in new : c.op = "open" => editing'.net \in {None, c.net},
         editing'.net \in {editing.net, None} \/ \E c \in new : c.op = "open",
         editing'.net # None => editing'.form \in {None, editing'.net}
  PROVE  FormInv'
<1>1. calls' = left \union new
  BY DEF Begin
<1>2. /\ \A c \in new, d \in left : ~(c.op = "open" /\ d.op = "open")
      /\ \A c, d \in new : c.op = "open" /\ d.op = "open" => c = d
  BY BeginAlone, Kinds
<1>3. ASSUME NEW c \in left, c.op = "open"
      PROVE  editing'.net \in {None, c.net}
  BY <1>2, <1>3 DEF FormInv
<1> QED
  BY <1>1, <1>2, <1>3 DEF FormInv

\* What a step sees to: for the form and the settings...
FormPart(new) ==
    /\ \A c \in new : c.op = "patchNetwork" => c.arg = c.net
    /\ \A c \in new : c.op = "open" => editing'.net \in {None, c.net}
    /\ editing'.net \in {editing.net, None} \/ \E c \in new : c.op = "open"
    /\ editing'.net # None => editing'.form \in {None, editing'.net}

SettingsOwn == \A n \in Networks : zerotier.settings[n] = n

\* ... and for the table and the members.
RowPart ==
    /\ row.moved => row'.moved
    /\ row'.moved \/ \A f \in Drafts : row'[f] \in {None, selected'}

TablePart(new) ==
    /\ \A c \in new : c.op = "patchMember" =>
         c.arg.row = c.net /\ (row'.moved \/ c.arg.from = c.net)
    /\ RowPart
    /\ \A c \in new : ReadsMembers(c) => selected' \in {None, c.net}
    /\ selected' \in {selected, None} \/ \E c \in new : ReadsMembers(c)
    /\ selected' # None /\ members'.of # None /\ ~members'.loading => members'.of = selected'

MembersOwn == \A p \in zerotier.patched : p.row = p.net /\ (row.moved \/ p.from = p.net)

LEMMA ConsoleStep ==
  ASSUME ConsoleInv, ConsoleTypeOK', NEW new, NEW left \in SUBSET calls, Begin(new, left),
         "open" \notin overlap' /\ FormInv /\ SettingsOwn => FormPart(new) /\ SettingsOwn',
         "members" \notin overlap' /\ TableInv /\ MembersOwn => TablePart(new) /\ MembersOwn'
  PROVE  ConsoleInv'
<1>1. ASSUME "open" \notin overlap'
      PROVE  FormInv' /\ SettingsOwn'
  <2>1. "open" \notin overlap
    BY <1>1, BeginAlone
  <2>2. FormInv /\ SettingsOwn
    BY <2>1 DEF ConsoleInv, SettingsStay, SettingsOwn
  <2>3. FormPart(new) /\ SettingsOwn'
    BY <1>1, <2>2
  <2>4. FormInv'
    BY <1>1, <2>2, <2>3, FormStep DEF FormPart
  <2> QED
    BY <2>3, <2>4
<1>2. ASSUME "members" \notin overlap'
      PROVE  TableInv' /\ MembersOwn'
  <2>1. "members" \notin overlap
    BY <1>2, BeginAlone
  <2>2. TableInv /\ MembersOwn
    BY <2>1 DEF ConsoleInv, MembersStay, MembersOwn
  <2>3. TablePart(new) /\ MembersOwn'
    BY <1>2, <2>2
  <2>4. TableInv'
    BY <1>2, <2>2, <2>3, TableStep DEF TablePart, RowPart
  <2> QED
    BY <2>3, <2>4
<1> QED
  BY <1>1, <1>2 DEF ConsoleInv, SettingsStay, MembersStay, SettingsOwn, MembersOwn

\* What stays open of a row: as much as was, where another network is selected...
LEMMA RowMoves ==
  ASSUME ConsoleInv, NEW net, selected' = net, row' = RowAfter(net)
  PROVE  DOMAIN row' = DOMAIN row /\ (row.moved => row'.moved) /\ (TableInv => RowPart)
<1> DEFINE left == net # selected /\ \E f \in Drafts : row[f] # None
<1>1. row' = [row EXCEPT !.moved = @ \/ left]
  BY DEF RowAfter
<1>2. DOMAIN row = {"name", "ip", "confirm", "busy", "moved"}
  BY DEF ConsoleInv, ConsoleTypeOK
<1> HIDE DEF left
<1>3. DOMAIN row' = DOMAIN row /\ (row'.moved <=> row.moved \/ left)
  BY <1>1, <1>2
<1>4. \A f \in Drafts : row'[f] = row[f]
  BY <1>1, <1>2 DEF Drafts
<1>5. TableInv => row.moved \/ \A f \in Drafts : row[f] \in {None, selected}
  BY DEF TableInv
<1>6. ASSUME TableInv, ~row'.moved, NEW f \in Drafts
      PROVE  row'[f] \in {None, selected'}
  BY <1>3, <1>4, <1>5, <1>6 DEF left
<1> QED
  BY <1>3, <1>6 DEF RowPart

\* ... and at most what is in the table, otherwise.
RowQuiet ==
    /\ DOMAIN row' = DOMAIN row /\ row'.moved = row.moved
    /\ \A f \in Drafts :
         \/ row'[f] \in {row[f], None}
         \/ row'[f] = members.of /\ MembersDrawn

LEMMA RowStays ==
  ASSUME ConsoleInv, RowQuiet, UNCHANGED selected, members.of # None
  PROVE  TableInv => RowPart
<1> SUFFICES ASSUME TableInv, ~row'.moved, NEW f \in Drafts
             PROVE  row'[f] \in {None, selected'}
  BY DEF RowQuiet, RowPart
<1>1. row[f] \in {None, selected}
  BY DEF RowQuiet, TableInv
<1>2. MembersDrawn => members.of = selected
  BY DEF MembersDrawn, TableInv
<1> QED
  BY <1>1, <1>2 DEF RowQuiet

\* A row that only stops being busy, or has something of it closed.
LEMMA RowCloses ==
  ASSUME ConsoleInv, UNCHANGED selected, DOMAIN row' = DOMAIN row, row'.moved = row.moved,
         \A f \in Drafts : row'[f] \in {row[f], None}
  PROVE  TableInv => RowPart
<1> SUFFICES ASSUME TableInv, ~row'.moved, NEW f \in Drafts
             PROVE  row'[f] \in {None, selected'}
  BY DEF RowPart
<1> QED
  BY DEF TableInv

\* A step that leaves the controller, and what is shown, as they are.
LEMMA QuietStep ==
  ASSUME ConsoleInv, NEW new, NEW left \in SUBSET calls, Begin(new, left),
         UNCHANGED <<selected, members, editing, row>>,
         zerotier'.settings = zerotier.settings, zerotier'.patched = zerotier.patched,
         DOMAIN zerotier' = DOMAIN zerotier,
         \A c \in new : c.op # "open" /\ (c.op = "patchNetwork" => editing.net # None /\ c.arg = editing.form
                                                                     /\ c.arg # None /\ c.net = editing.net),
         \A c \in new : ReadsMembers(c) => selected = c.net,
         \A c \in new : c.op # "patchMember"
  PROVE  ConsoleInv'
<1>1. ConsoleTypeOK'
  BY DEF ConsoleInv, ConsoleTypeOK
<1>2. SettingsOwn => SettingsOwn'
  BY DEF SettingsOwn
<1>3. MembersOwn => MembersOwn'
  BY DEF MembersOwn
<1>4. FormInv => FormPart(new)
  BY DEF FormInv, FormPart
<1>5. TableInv => RowPart
  BY RowCloses
<1>6. TableInv => TablePart(new)
  BY <1>5 DEF TableInv, TablePart
<1> QED
  BY <1>1, <1>2, <1>3, <1>4, <1>6, ConsoleStep

\* A click on a row of the table.
LEMMA RowStep ==
  ASSUME ConsoleInv, MembersDrawn, members.of # None, NEW new, Begin(new, calls), RowQuiet,
         UNCHANGED <<selected, members, editing, zerotier>>,
         \A c \in new : /\ c.op = "patchMember" /\ ReadsMembers(c) /\ c.net = selected
                        /\ c.arg.row = members.of
                        /\ \/ c.arg.from = members.of
                           \/ c.arg.from # None /\ \E f \in Drafts : c.arg.from = row[f]
  PROVE  ConsoleInv'
<1>1. ConsoleTypeOK'
  BY DEF ConsoleInv, ConsoleTypeOK, RowQuiet
<1>2. (SettingsOwn => SettingsOwn') /\ (MembersOwn => MembersOwn')
  BY DEF SettingsOwn, MembersOwn, RowQuiet
<1>3. FormInv => FormPart(new)
  BY DEF FormInv, FormPart
<1>4. TableInv => RowPart
  BY RowStays
<1>5. ASSUME TableInv
      PROVE  TablePart(new)
  <2>1. members.of = selected
    BY <1>5 DEF TableInv, MembersDrawn
  <2>2. ASSUME NEW c \in new
        PROVE  row'.moved \/ c.arg.from = c.net
    <3>1. row.moved \/ \A f \in Drafts : row[f] \in {None, selected}
      BY <1>5 DEF TableInv
    <3> QED
      BY <2>1, <3>1 DEF RowQuiet
  <2>3. selected' # None /\ members'.of # None /\ ~members'.loading => members'.of = selected'
    BY <1>5 DEF TableInv
  <2> QED
    BY <1>4, <1>5, <2>1, <2>2, <2>3 DEF TablePart
<1> QED
  BY <1>1, <1>2, <1>3, <1>5, ConsoleStep

---------------------------------------------------------------------------
(* The operator.                                                           *)

LEMMA RetryListKeeps == ConsoleInv /\ RetryList => ConsoleInv'
<1> SUFFICES ASSUME ConsoleInv, RetryList
             PROVE  ConsoleInv'
  OBVIOUS
<1> DEFINE c == Call("list", None, None, selected, clicks')
<1>1. /\ zerotier' = [zerotier EXCEPT !.error = FALSE] /\ Begin({c}, calls)
      /\ UNCHANGED <<selected, members, editing, row>>
  BY DEF RetryList
<1>2. c.op = "list" /\ ~ReadsMembers(c)
  BY ConsoleOK DEF Call, ReadsMembers
<1> HIDE DEF c
<1>3. zerotier'.settings = zerotier.settings /\ zerotier'.patched = zerotier.patched
      /\ DOMAIN zerotier' = DOMAIN zerotier
  BY <1>1 DEF ConsoleInv, ConsoleTypeOK
<1> QED
  BY <1>1, <1>2, <1>3, QuietStep

\* The members are read when another network becomes the selected one.
LEMMA EffectReads ==
  ASSUME NEW net, NEW click
  PROVE  /\ \A c \in EffectOf(net, click) : c.op = "members" /\ c.net = net /\ ReadsMembers(c)
         /\ net # selected /\ net # None => \E c \in EffectOf(net, click) : TRUE
<1> DEFINE read == Call("members", net, None, net, click)
<1>1. read.op = "members" /\ read.net = net /\ ReadsMembers(read)
  BY DEF Call, ReadsMembers
<1> HIDE DEF read
<1>2. EffectOf(net, click) = IF net # selected /\ net # None THEN {read} ELSE {}
  BY DEF EffectOf, read
<1> QED
  BY <1>1, <1>2

LEMMA SelectNetworkKeeps ==
  ASSUME ConsoleInv, NEW net, SelectNetwork(net)
  PROVE  ConsoleInv'
<1> DEFINE new == EffectOf(net, clicks')
<1>1. /\ selected' = net /\ members' = IF net # selected THEN Fetching ELSE members
      /\ row' = RowAfter(net)
      /\ Begin(new, calls) /\ UNCHANGED <<editing, zerotier>>
  BY DEF SelectNetwork
<1>2. /\ \A c \in new : c.op = "members" /\ c.net = net /\ ReadsMembers(c)
      /\ net # selected /\ net # None => \E c \in new : TRUE
  BY EffectReads
<1> HIDE DEF new
<1>7. DOMAIN row' = DOMAIN row /\ (row.moved => row'.moved) /\ (TableInv => RowPart)
  BY <1>1, RowMoves
<1>3. members'.of = members.of /\ (IF net # selected THEN members'.loading ELSE members' = members) /\ ConsoleTypeOK'
  BY <1>1, <1>7 DEF ConsoleInv, ConsoleTypeOK, Fetching
<1>4. FormInv => FormPart(new)
  BY <1>1, <1>2 DEF FormInv, FormPart
<1>5. TableInv => TablePart(new)
  BY <1>1, <1>2, <1>3, <1>7 DEF TableInv, TablePart
<1>6. (SettingsOwn => SettingsOwn') /\ (MembersOwn => MembersOwn')
  BY <1>1, <1>7 DEF SettingsOwn, MembersOwn
<1> QED
  BY <1>1, <1>3, <1>4, <1>5, <1>6, ConsoleStep

LEMMA OpenEditKeeps ==
  ASSUME ConsoleInv, NEW net, OpenEdit(net)
  PROVE  ConsoleInv'
<1> DEFINE c == Call("open", net, None, selected, clicks')
<1>1. /\ editing' = [net |-> net, loading |-> TRUE, form |-> None] /\ Begin({c}, calls)
      /\ UNCHANGED <<selected, members, row, zerotier>>
  BY DEF OpenEdit, Opened
<1>2. c.op = "open" /\ c.net = net /\ ~ReadsMembers(c)
  BY DEF Call, ReadsMembers
<1> HIDE DEF c
<1>3. ConsoleTypeOK'
  BY <1>1 DEF ConsoleInv, ConsoleTypeOK
<1>4. FormInv => FormPart({c})
  BY <1>1, <1>2 DEF FormInv, FormPart
<1>7. TableInv => RowPart
  BY <1>1, RowCloses
<1>5. TableInv => TablePart({c})
  BY <1>1, <1>2, <1>7 DEF TableInv, TablePart
<1>6. (SettingsOwn => SettingsOwn') /\ (MembersOwn => MembersOwn')
  BY <1>1 DEF SettingsOwn, MembersOwn
<1> QED
  BY <1>1, <1>3, <1>4, <1>5, <1>6, ConsoleStep

LEMMA BeginNone ==
  ASSUME calls' = calls, overlap' = overlap
  PROVE  Begin({}, calls)
BY DEF Begin

LEMMA CloseEditKeeps == ConsoleInv /\ CloseEdit => ConsoleInv'
<1> SUFFICES ASSUME ConsoleInv, CloseEdit
             PROVE  ConsoleInv'
  OBVIOUS
<1>1. editing' = [editing EXCEPT !.net = None, !.form = None] /\ UNCHANGED <<selected, members, row, calls, zerotier, overlap>>
  BY DEF CloseEdit, Closed
<1>2. ConsoleTypeOK' /\ editing'.net = None
  BY <1>1 DEF ConsoleInv, ConsoleTypeOK
<1>3. Begin({}, calls)
  BY <1>1, BeginNone
<1>6. TableInv => RowPart
  BY <1>1, RowCloses
<1>4. (FormInv => FormPart({})) /\ (TableInv => TablePart({}))
  BY <1>1, <1>2, <1>6 DEF FormInv, FormPart, TableInv, TablePart
<1>5. (SettingsOwn => SettingsOwn') /\ (MembersOwn => MembersOwn')
  BY <1>1 DEF SettingsOwn, MembersOwn
<1> QED
  BY <1>2, <1>3, <1>4, <1>5, ConsoleStep

LEMMA SubmitsKeep == ConsoleInv /\ (SubmitCreate \/ SubmitEdit) => ConsoleInv'
<1> SUFFICES ASSUME ConsoleInv, SubmitCreate \/ SubmitEdit
             PROVE  ConsoleInv'
  OBVIOUS
<1>1. CASE SubmitCreate
  <2> DEFINE c == Call("create", None, None, selected, clicks')
  <2>1. Begin({c}, calls) /\ UNCHANGED <<selected, members, row, editing, zerotier>>
    BY <1>1 DEF SubmitCreate
  <2>2. c.op = "create" /\ ~ReadsMembers(c)
    BY DEF Call, ReadsMembers
  <2> HIDE DEF c
  <2> QED
    BY <2>1, <2>2, QuietStep
<1>2. CASE SubmitEdit
  <2> DEFINE c == Call("patchNetwork", editing.net, editing.form, selected, clicks')
  <2>1. /\ Begin({c}, calls) /\ UNCHANGED <<selected, members, row, editing, zerotier>>
        /\ editing.net # None /\ editing.form # None
    BY <1>2 DEF SubmitEdit
  <2>2. /\ c.op = "patchNetwork" /\ c.net = editing.net /\ c.arg = editing.form
        /\ ReadsMembers(c) => selected = c.net
    BY DEF Call, ReadsMembers
  <2> HIDE DEF c
  <2> QED
    BY <2>1, <2>2, QuietStep
<1> QED
  BY <1>1, <1>2

LEMMA DeleteNetworkKeeps ==
  ASSUME ConsoleInv, NEW net, DeleteNetwork(net)
  PROVE  ConsoleInv'
<1> DEFINE c == Call("delete", net, None, selected, clicks')
<1>1. Begin({c}, calls) /\ UNCHANGED <<selected, members, row, editing, zerotier>>
  BY DEF DeleteNetwork
<1>2. c.op = "delete" /\ ~ReadsMembers(c)
  BY DEF Call, ReadsMembers
<1> HIDE DEF c
<1> QED
  BY <1>1, <1>2, QuietStep

LEMMA RetryMembersKeeps == ConsoleInv /\ RetryMembers => ConsoleInv'
<1> SUFFICES ASSUME ConsoleInv, RetryMembers
             PROVE  ConsoleInv'
  OBVIOUS
<1> DEFINE c == Call("members", selected, None, selected, clicks')
<1>1. /\ members' = [members EXCEPT !.loading = TRUE, !.error = FALSE] /\ Begin({c}, calls)
      /\ UNCHANGED <<selected, row, editing, zerotier>>
  BY DEF RetryMembers, Fetching
<1>2. c.op = "members" /\ c.net = selected
  BY DEF Call
<1> HIDE DEF c
<1>3. ConsoleTypeOK' /\ members'.loading
  BY <1>1 DEF ConsoleInv, ConsoleTypeOK
<1>6. TableInv => RowPart
  BY <1>1, RowCloses
<1>4. (FormInv => FormPart({c})) /\ (TableInv => TablePart({c}))
  BY <1>1, <1>2, <1>3, <1>6 DEF FormInv, FormPart, TableInv, TablePart
<1>5. (SettingsOwn => SettingsOwn') /\ (MembersOwn => MembersOwn')
  BY <1>1 DEF SettingsOwn, MembersOwn
<1> QED
  BY <1>1, <1>3, <1>4, <1>5, ConsoleStep

\* A change of a member, as the row's buttons send it.
LEMMA ChangeBegins ==
  ASSUME NEW from, NEW field, ChangeMember(from, field)
  PROVE  \E new : /\ Begin(new, calls)
                  /\ \A c \in new : /\ c.op = "patchMember" /\ ReadsMembers(c) /\ c.net = selected
                                    /\ c.arg.row = members.of /\ c.arg.from = from
<1> DEFINE c == Call("patchMember", selected, [row |-> members.of, from |-> from, field |-> field],
                     selected, clicks')
<1>1. c.op = "patchMember" /\ ReadsMembers(c) /\ c.net = selected
      /\ c.arg.row = members.of /\ c.arg.from = from
  BY DEF Call, ReadsMembers
<1>2. Begin({c}, calls)
  BY DEF ChangeMember
<1> HIDE DEF c
<1>3. \A d \in {c} : /\ d.op = "patchMember" /\ ReadsMembers(d) /\ d.net = selected
                     /\ d.arg.row = members.of /\ d.arg.from = from
  BY <1>1
<1> QED
  BY <1>2, <1>3

\* What the buttons leave of the row.
LEMMA RowFields ==
  ASSUME ConsoleInv, NEW f \in Drafts, NEW x, NEW b,
         \/ row' = [row EXCEPT ![f] = x]
         \/ row' = [row EXCEPT !.busy = b]
         \/ row' = [row EXCEPT ![f] = x, !.busy = b],
         x = None \/ (x = members.of /\ MembersDrawn)
  PROVE  RowQuiet
<1>1. DOMAIN row = {"name", "ip", "confirm", "busy", "moved"} /\ f \in {"name", "ip", "confirm"}
  BY DEF ConsoleInv, ConsoleTypeOK, Drafts
<1>2. /\ DOMAIN row' = DOMAIN row /\ row'.moved = row.moved
      /\ \A g \in Drafts : row'[g] = row[g] \/ row'[g] = x
  BY <1>1 DEF Drafts
<1> QED
  BY <1>2 DEF RowQuiet

LEMMA RowEditKeeps ==
  ASSUME ConsoleInv, NEW f \in {"name", "ip"}, OpenRowEdit(f) \/ CancelRowEdit(f) \/ SaveRowEdit(f)
  PROVE  ConsoleInv'
<1>1. /\ MembersDrawn /\ members.of # None /\ f \in Drafts
      /\ UNCHANGED <<selected, members, editing, zerotier>>
  BY DEF OpenRowEdit, CancelRowEdit, SaveRowEdit, RowButton, Drafts
<1>2. CASE OpenRowEdit(f) \/ CancelRowEdit(f)
  <2>1. RowQuiet
    BY <1>1, <1>2, RowFields DEF OpenRowEdit, CancelRowEdit
  <2>2. Begin({}, calls)
    BY <1>2, BeginNone DEF OpenRowEdit, CancelRowEdit
  <2> QED
    BY <1>1, <2>1, <2>2, RowStep
<1>3. CASE SaveRowEdit(f)
  <2>1. row' = [row EXCEPT !.busy = TRUE] /\ row[f] # None /\ ChangeMember(row[f], f)
    BY <1>3 DEF SaveRowEdit
  <2>2. RowQuiet
    BY <1>1, <2>1, RowFields
  <2>3. PICK new : /\ Begin(new, calls)
                   /\ \A c \in new : /\ c.op = "patchMember" /\ ReadsMembers(c) /\ c.net = selected
                                     /\ c.arg.row = members.of /\ c.arg.from = row[f]
    BY <2>1, ChangeBegins
  <2> QED
    BY <1>1, <2>1, <2>2, <2>3, RowStep
<1> QED
  BY <1>2, <1>3

LEMMA ToggleKeeps == ConsoleInv /\ ToggleAuthorized => ConsoleInv'
<1> SUFFICES ASSUME ConsoleInv, ToggleAuthorized
             PROVE  ConsoleInv'
  OBVIOUS
<1>1. /\ MembersDrawn /\ members.of # None
      /\ UNCHANGED <<selected, members, editing, zerotier>>
      /\ ChangeMember(members.of, "authorized")
      /\ row' = [row EXCEPT !.busy = TRUE] \/ row' = [row EXCEPT !.busy = FALSE]
  BY DEF ToggleAuthorized, RowButton
<1>2. RowQuiet
  BY <1>1, RowFields DEF Drafts
<1>3. PICK new : /\ Begin(new, calls)
                 /\ \A c \in new : /\ c.op = "patchMember" /\ ReadsMembers(c) /\ c.net = selected
                                   /\ c.arg.row = members.of /\ c.arg.from = members.of
  BY <1>1, ChangeBegins, Zenon
<1>4. UNCHANGED <<selected, members, editing, zerotier>> /\ MembersDrawn /\ members.of # None
  BY <1>1
<1> QED
  BY <1>2, <1>3, <1>4, RowStep

LEMMA DeleteMemberKeeps == ConsoleInv /\ DeleteMember => ConsoleInv'
<1> SUFFICES ASSUME ConsoleInv, DeleteMember
             PROVE  ConsoleInv'
  OBVIOUS
<1>1. /\ MembersDrawn /\ members.of # None /\ "confirm" \in Drafts
      /\ UNCHANGED <<selected, members, editing, zerotier>>
  BY DEF DeleteMember, RowButton, Drafts
<1>2. CASE row.confirm = None
  <2>1. row' = [row EXCEPT !["confirm"] = members.of] /\ calls' = calls /\ overlap' = overlap
    BY <1>2 DEF DeleteMember
  <2>2. RowQuiet
    BY <1>1, <2>1, RowFields
  <2>3. Begin({}, calls)
    BY <2>1, BeginNone
  <2> QED
    BY <1>1, <2>2, <2>3, RowStep
<1>3. CASE row.confirm # None
  <2>1. row' = [row EXCEPT !["confirm"] = None, !.busy = TRUE] /\ ChangeMember(row.confirm, "gone")
    BY <1>3 DEF DeleteMember
  <2>2. RowQuiet
    BY <1>1, <2>1, RowFields
  <2>3. PICK new : /\ Begin(new, calls)
                   /\ \A c \in new : /\ c.op = "patchMember" /\ ReadsMembers(c) /\ c.net = selected
                                     /\ c.arg.row = members.of /\ c.arg.from = row["confirm"]
    BY <2>1, ChangeBegins
  <2> QED
    BY <1>1, <1>3, <2>2, <2>3, RowStep
<1> QED
  BY <1>2, <1>3

LEMMA ConfirmKeeps == ConsoleInv /\ ConfirmExpires => ConsoleInv'
<1> SUFFICES ASSUME ConsoleInv, ConfirmExpires
             PROVE  ConsoleInv'
  OBVIOUS
<1>1. /\ row' = [row EXCEPT !["confirm"] = None]
      /\ UNCHANGED <<selected, members, editing, calls, zerotier, overlap>>
  BY DEF ConfirmExpires
<1>2. RowQuiet /\ \A f \in Drafts : row'[f] \in {row[f], None}
  <2>1. DOMAIN row = {"name", "ip", "confirm", "busy", "moved"}
    BY DEF ConsoleInv, ConsoleTypeOK
  <2>2. /\ DOMAIN row' = DOMAIN row /\ row'.moved = row.moved
        /\ \A f \in Drafts : row'[f] \in {row[f], None}
    BY <1>1, <2>1 DEF Drafts
  <2> QED
    BY <2>2 DEF RowQuiet
<1>3. Begin({}, calls) /\ ConsoleTypeOK'
  BY <1>1, <1>2, BeginNone DEF ConsoleInv, ConsoleTypeOK, RowQuiet
<1>4. TableInv => RowPart
  BY <1>1, <1>2, RowCloses DEF RowQuiet
<1>5. (FormInv => FormPart({})) /\ (TableInv => TablePart({}))
  BY <1>1, <1>4 DEF FormInv, FormPart, TableInv, TablePart
<1>6. (SettingsOwn => SettingsOwn') /\ (MembersOwn => MembersOwn')
  BY <1>1, <1>2 DEF SettingsOwn, MembersOwn, RowQuiet
<1> QED
  BY <1>3, <1>5, <1>6, ConsoleStep

---------------------------------------------------------------------------
(* The answers.                                                            *)

LEMMA MembersAnswerKeeps == ConsoleInv /\ MembersAnswer => ConsoleInv'
<1> SUFFICES ASSUME ConsoleInv, MembersAnswer
             PROVE  ConsoleInv'
  OBVIOUS
<1>1. PICK c \in calls, ok \in BOOLEAN :
        /\ c.op = "members"
        /\ members' = [of |-> IF ok THEN c.net ELSE None, loading |-> FALSE, error |-> members.error \/ ~ok]
        /\ row' = [row EXCEPT !.busy = @ /\ c.arg # "row"]
        /\ Begin({}, calls \ {c})
  BY DEF MembersAnswer, AfterMembers, ListMembers
<1>2. UNCHANGED <<selected, editing, zerotier>>
  BY DEF MembersAnswer
<1>7. /\ DOMAIN row' = DOMAIN row /\ row'.moved = row.moved
      /\ \A f \in Drafts : row'[f] \in {row[f], None}
  BY <1>1 DEF ConsoleInv, ConsoleTypeOK, Drafts
<1>8. TableInv => RowPart
  BY <1>2, <1>7, RowCloses
<1>3. ConsoleTypeOK' /\ members'.of \in {None, c.net} /\ ReadsMembers(c)
  BY <1>1, <1>2, <1>7 DEF ConsoleInv, ConsoleTypeOK, ReadsMembers
<1>4. (FormInv => FormPart({})) /\ (TableInv => TablePart({}))
  BY <1>2, <1>3, <1>8 DEF FormInv, FormPart, TableInv, TablePart
<1>5. (SettingsOwn => SettingsOwn') /\ (MembersOwn => MembersOwn')
  BY <1>2, <1>7 DEF SettingsOwn, MembersOwn
<1>6. calls \ {c} \in SUBSET calls
  OBVIOUS
<1> QED
  BY <1>1, <1>3, <1>4, <1>5, <1>6, ConsoleStep

LEMMA OpenAnswerKeeps == ConsoleInv /\ OpenAnswer => ConsoleInv'
<1> SUFFICES ASSUME ConsoleInv, OpenAnswer
             PROVE  ConsoleInv'
  OBVIOUS
<1>1. PICK c \in calls, ok \in BOOLEAN :
        /\ c.op = "open"
        /\ editing' = [editing EXCEPT !.loading = FALSE, !.form = IF ok THEN c.net ELSE @]
        /\ Begin({}, calls \ {c})
  BY DEF OpenAnswer
<1>2. UNCHANGED <<selected, members, row, zerotier>>
  BY DEF OpenAnswer
<1>3. ConsoleTypeOK' /\ editing'.net = editing.net /\ editing'.form \in {editing.form, c.net}
  BY <1>1, <1>2 DEF ConsoleInv, ConsoleTypeOK
<1>7. TableInv => RowPart
  BY <1>2, RowCloses
<1>4. (FormInv => FormPart({})) /\ (TableInv => TablePart({}))
  BY <1>1, <1>2, <1>3, <1>7 DEF FormInv, FormPart, TableInv, TablePart
<1>5. (SettingsOwn => SettingsOwn') /\ (MembersOwn => MembersOwn')
  BY <1>2 DEF SettingsOwn, MembersOwn
<1>6. calls \ {c} \in SUBSET calls
  OBVIOUS
<1> QED
  BY <1>1, <1>3, <1>4, <1>5, <1>6, ConsoleStep

LEMMA ListAnswerKeeps == ConsoleInv /\ ListAnswer => ConsoleInv'
<1> SUFFICES ASSUME ConsoleInv, ListAnswer
             PROVE  ConsoleInv'
  OBVIOUS
<1> DEFINE next(c) == CASE c.arg = "open" -> {Call("open", c.net, "create", c.sel, c.click)}
                        [] c.arg = "members" -> {Call("members", c.net, "edit", c.sel, c.click)}
                        [] OTHER -> {}
           choices(c, ok) == CASE c.arg = "open" -> {c.net}
                               [] c.arg # "open" /\ ok /\ selected = None /\ zerotier.exist # {} -> zerotier.exist
                               [] OTHER -> {selected}
<1>1. PICK c, ok, net :
        /\ c \in calls /\ ok \in BOOLEAN /\ net \in choices(c, ok)
        /\ c.op = "list"
        /\ zerotier' = [zerotier EXCEPT !.listed = ListNetworks(ok), !.error = ~ok]
        /\ selected' = net
        /\ members' = IF \E d \in EffectOf(net, c.click) \union next(c) : d.op = "members"
                      THEN Fetching ELSE members
        /\ row' = RowAfter(net)
        /\ Begin(EffectOf(net, c.click) \union next(c), calls \ {c})
        /\ editing' = IF c.arg = "open" THEN Opened(c.net) ELSE editing
  BY DEF ListAnswer
<1> DEFINE effect == EffectOf(net, c.click)
           goOn == next(c)
           new == effect \union goOn
<1>2. /\ \A d \in effect : d.op = "members" /\ d.net = net /\ ReadsMembers(d)
      /\ net # selected /\ net # None => \E d \in effect : TRUE
  BY EffectReads
<1>3. /\ \A d \in goOn : /\ d.net = c.net /\ d.op \in {"open", "members"}
                         /\ d.op = "open" <=> c.arg = "open"
                         /\ d.op = "members" <=> ReadsMembers(c)
                         /\ ReadsMembers(d) <=> d.op = "members"
      /\ c.arg = "open" => \E d \in goOn : d.op = "open"
  <2>1. CASE c.arg = "open"
    <3> DEFINE d == Call("open", c.net, "create", c.sel, c.click)
    <3>1. goOn = {d}
      BY <2>1
    <3>2. d.net = c.net /\ d.op = "open" /\ ~ReadsMembers(d) /\ ~ReadsMembers(c)
      BY <1>1, <2>1 DEF Call, ReadsMembers
    <3> HIDE DEF d, goOn
    <3> QED
      BY <2>1, <3>1, <3>2
  <2>2. CASE c.arg = "members"
    <3> DEFINE d == Call("members", c.net, "edit", c.sel, c.click)
    <3>1. goOn = {d}
      BY <2>2
    <3>2. d.net = c.net /\ d.op = "members" /\ ReadsMembers(d) /\ ReadsMembers(c)
      BY <1>1, <2>2 DEF Call, ReadsMembers
    <3> HIDE DEF d, goOn
    <3> QED
      BY <2>2, <3>1, <3>2
  <2>3. CASE c.arg # "open" /\ c.arg # "members"
    <3>1. goOn = {}
      BY <2>3
    <3> HIDE DEF goOn
    <3> QED
      BY <2>3, <3>1
  <2> QED
    BY <2>1, <2>2, <2>3
<1>4. net \in {selected, c.net} \/ (selected = None /\ c.arg # "open")
  BY <1>1
<1>5. c.arg = "open" => net = c.net
  BY <1>1
<1>11. DOMAIN row' = DOMAIN row /\ (row.moved => row'.moved) /\ (TableInv => RowPart)
  BY <1>1, RowMoves
<1>6. /\ Begin(new, calls \ {c}) /\ selected' = net /\ members'.of = members.of
      /\ IF \E d \in new : d.op = "members" THEN members'.loading ELSE members' = members
      /\ zerotier'.settings = zerotier.settings /\ zerotier'.patched = zerotier.patched
      /\ ConsoleTypeOK'
      /\ editing' = IF c.arg = "open" THEN [net |-> c.net, loading |-> TRUE, form |-> None] ELSE editing
  BY <1>1, <1>11 DEF ConsoleInv, ConsoleTypeOK, Opened, Fetching
<1> HIDE DEF effect, goOn, next, choices
<1>7. FormInv => FormPart(new)
  BY <1>2, <1>3, <1>6 DEF FormInv, FormPart
<1>8. ASSUME TableInv, "members" \notin overlap'
      PROVE  TablePart(new)
  <2>1. \A d, e \in new : ReadsMembers(d) /\ ReadsMembers(e) => d = e
    BY <1>6, <1>8, BeginAlone, Kinds
  <2>2. \A d \in new : d.op # "patchMember"
    BY <1>2, <1>3
  <2>3. ASSUME NEW d \in new, ReadsMembers(d)
        PROVE  selected' \in {None, d.net}
    <3>1. CASE d \in effect
      BY <1>2, <1>6, <3>1
    <3>2. CASE d \in goOn
      <4>1. ReadsMembers(c) /\ d.net = c.net /\ c \in calls
        BY <1>1, <1>3, <2>3, <3>2
      <4>5. selected \in {None, c.net}
        BY <1>8, <4>1 DEF TableInv
      <4>2. CASE net = selected \/ net = None
        BY <1>6, <4>1, <4>2, <4>5
      <4>3. CASE net # selected /\ net # None
        <5>1. PICK e \in effect : ReadsMembers(e) /\ e.net = net
          BY <1>2, <4>3
        <5>2. d = e
          BY <2>1, <2>3, <5>1
        <5> QED
          BY <1>6, <5>1, <5>2
      <4> QED
        BY <4>2, <4>3
    <3> QED
      BY <3>1, <3>2
  <2>4. selected' \in {selected, None} \/ \E d \in new : ReadsMembers(d)
    BY <1>2, <1>6
  <2>5. selected' # None /\ members'.of # None /\ ~members'.loading => members'.of = selected'
    BY <1>2, <1>6, <1>8 DEF TableInv
  <2> QED
    BY <1>8, <1>11, <2>2, <2>3, <2>4, <2>5 DEF TablePart
<1>9. (SettingsOwn => SettingsOwn') /\ (MembersOwn => MembersOwn')
  BY <1>6, <1>11 DEF SettingsOwn, MembersOwn
<1>10. calls \ {c} \in SUBSET calls
  OBVIOUS
<1> HIDE DEF new
<1> QED
  BY <1>6, <1>7, <1>8, <1>9, <1>10, ConsoleStep

LEMMA CreateAnswerKeeps == ConsoleInv /\ CreateAnswer => ConsoleInv'
<1> SUFFICES ASSUME ConsoleInv, CreateAnswer
             PROVE  ConsoleInv'
  OBVIOUS
<1>1. PICK c, ok, z :
        /\ c \in calls /\ ok \in BOOLEAN /\ z \in CreateNetwork(ok)
        /\ zerotier' = [z EXCEPT !.error = @ /\ ~ok]
        /\ Begin({Call("list", net, "open", c.sel, c.click) :
                    net \in IF ok THEN z.exist \ zerotier.exist ELSE {}}, calls \ {c})
  BY DEF CreateAnswer
<1> DEFINE new == {Call("list", net, "open", c.sel, c.click) :
                     net \in IF ok THEN z.exist \ zerotier.exist ELSE {}}
<1>2. UNCHANGED <<selected, members, row, editing>>
  BY DEF CreateAnswer
<1>3. \A d \in new : d.op = "list" /\ ~ReadsMembers(d)
  BY DEF Call, ReadsMembers
<1>4. /\ z = zerotier \/ \E net : z = [zerotier EXCEPT !.exist = @ \union {net}, !.ever = @ \union {net}]
  BY <1>1 DEF CreateNetwork
<1>5. z.settings = zerotier.settings /\ z.patched = zerotier.patched /\ DOMAIN z = DOMAIN zerotier
  BY <1>4 DEF ConsoleInv, ConsoleTypeOK
<1>6. /\ zerotier'.settings = zerotier.settings /\ zerotier'.patched = zerotier.patched
      /\ DOMAIN zerotier' = DOMAIN zerotier
  BY <1>1, <1>5 DEF ConsoleInv, ConsoleTypeOK
<1>7. Begin(new, calls \ {c}) /\ calls \ {c} \in SUBSET calls
  BY <1>1
<1> HIDE DEF new
<1> QED
  BY <1>2, <1>3, <1>6, <1>7, QuietStep

LEMMA PatchNetworkAnswerKeeps == ConsoleInv /\ PatchNetworkAnswer => ConsoleInv'
<1> SUFFICES ASSUME ConsoleInv, PatchNetworkAnswer
             PROVE  ConsoleInv'
  OBVIOUS
<1>1. PICK c, ok, z :
        /\ c \in calls /\ ok \in BOOLEAN /\ z \in UpdateNetwork(c.net, c.arg, ok)
        /\ c.op = "patchNetwork"
        /\ zerotier' = [z EXCEPT !.error = @ /\ ~ok]
        /\ \/ /\ ok
              /\ editing' = Closed
              /\ Begin({Call("list", c.net, IF c.net = c.sel THEN "members" ELSE None,
                             c.sel, c.click)}, calls \ {c})
           \/ ~ok /\ UNCHANGED editing /\ Begin({}, calls \ {c})
  BY DEF PatchNetworkAnswer
<1>2. UNCHANGED <<selected, members, row>>
  BY DEF PatchNetworkAnswer
<1>3. z \in {zerotier, [zerotier EXCEPT !.settings[c.net] = c.arg]}
  BY <1>1 DEF UpdateNetwork, Outcomes
<1>4. /\ DOMAIN z = DOMAIN zerotier /\ z.patched = zerotier.patched
      /\ z.settings \in {zerotier.settings, [zerotier.settings EXCEPT ![c.net] = c.arg]}
  BY <1>3 DEF ConsoleInv, ConsoleTypeOK
<1>5. /\ DOMAIN zerotier' = DOMAIN zerotier /\ zerotier'.patched = zerotier.patched
      /\ zerotier'.settings \in {zerotier.settings, [zerotier.settings EXCEPT ![c.net] = c.arg]}
  BY <1>1, <1>4 DEF ConsoleInv, ConsoleTypeOK
<1>6. FormInv => c.arg = c.net
  BY <1>1 DEF FormInv
<1>7. FormInv /\ SettingsOwn => SettingsOwn'
  BY <1>5, <1>6 DEF SettingsOwn, ConsoleInv, ConsoleTypeOK
<1>8. MembersOwn => MembersOwn'
  BY <1>2, <1>5 DEF MembersOwn
<1>9. PICK new : /\ Begin(new, calls \ {c})
                 /\ \A d \in new : d.op = "list" /\ d.net = c.net /\ (ReadsMembers(d) => ReadsMembers(c))
  <2>1. CASE ok
    <3> DEFINE d == Call("list", c.net, IF c.net = c.sel THEN "members" ELSE None, c.sel, c.click)
    <3>1. d.op = "list" /\ d.net = c.net /\ (ReadsMembers(d) => ReadsMembers(c))
      BY <1>1, ConsoleOK DEF Call, ReadsMembers
    <3>2. Begin({d}, calls \ {c})
      BY <1>1, <2>1
    <3> DEFINE new == {d}
    <3> HIDE DEF d
    <3>3. \A e \in new : e.op = "list" /\ e.net = c.net /\ (ReadsMembers(e) => ReadsMembers(c))
      BY <3>1
    <3>4. Begin(new, calls \ {c})
      BY <3>2
    <3> HIDE DEF new
    <3> QED
      BY <3>3, <3>4
  <2>2. CASE ~ok
    <3>1. Begin({}, calls \ {c})
      BY <1>1, <2>2
    <3> QED
      BY <3>1
  <2> QED
    BY <2>1, <2>2
<1>10. editing' = editing \/ editing' = [editing EXCEPT !.net = None, !.form = None]
  BY <1>1 DEF Closed
<1>11. ConsoleTypeOK' /\ (editing' = editing \/ editing'.net = None)
  BY <1>2, <1>5, <1>10 DEF ConsoleInv, ConsoleTypeOK
<1>12. FormInv => FormPart(new)
  BY <1>9, <1>11 DEF FormInv, FormPart
<1>14. c \in calls /\ calls \ {c} \in SUBSET calls
  BY <1>1
<1>15. TableInv => RowPart
  BY <1>2, RowCloses
<1>13. TableInv => TablePart(new)
  BY <1>2, <1>9, <1>14, <1>15 DEF TableInv, TablePart
<1> QED
  BY <1>7, <1>8, <1>9, <1>11, <1>12, <1>13, <1>14, ConsoleStep

LEMMA PatchMemberAnswerKeeps == ConsoleInv /\ PatchMemberAnswer => ConsoleInv'
<1> SUFFICES ASSUME ConsoleInv, PatchMemberAnswer
             PROVE  ConsoleInv'
  OBVIOUS
<1>1. PICK c \in calls, ok \in BOOLEAN :
        /\ c.op = "patchMember"
        /\ zerotier' \in UpdateMember(c.net, c.arg, ok)
        /\ \/ /\ ok
              /\ members' = Fetching
              /\ row' = IF c.arg.field \in {"name", "ip"}
                        THEN [row EXCEPT ![c.arg.field] = None] ELSE row
              /\ Begin({Call("members", c.net, "row", c.sel, c.click)}, calls \ {c})
           \/ /\ ~ok
              /\ members' = [members EXCEPT !.error = TRUE]
              /\ row' = [row EXCEPT !.busy = FALSE]
              /\ Begin({}, calls \ {c})
  BY DEF PatchMemberAnswer
<1>2. UNCHANGED <<selected, editing>> /\ ReadsMembers(c)
  BY <1>1 DEF PatchMemberAnswer, ReadsMembers
<1> DEFINE change == [net |-> c.net, row |-> c.arg.row, from |-> c.arg.from, field |-> c.arg.field]
<1>3. zerotier' \in {zerotier, [zerotier EXCEPT !.patched = @ \union {change}]}
  BY <1>1 DEF UpdateMember, Outcomes
<1>14. change.net = c.net /\ change.row = c.arg.row /\ change.from = c.arg.from
  OBVIOUS
<1> HIDE DEF change
<1>4. /\ DOMAIN zerotier' = DOMAIN zerotier /\ zerotier'.settings = zerotier.settings
      /\ zerotier'.patched \in {zerotier.patched, zerotier.patched \union {change}}
  BY <1>3 DEF ConsoleInv, ConsoleTypeOK
<1>15. /\ DOMAIN row' = DOMAIN row /\ row'.moved = row.moved
       /\ \A f \in Drafts : row'[f] \in {row[f], None}
  <2>1. DOMAIN row = {"name", "ip", "confirm", "busy", "moved"}
    BY DEF ConsoleInv, ConsoleTypeOK
  <2>2. \/ row' = row \/ row' = [row EXCEPT !.busy = FALSE]
        \/ row' = [row EXCEPT !.name = None] \/ row' = [row EXCEPT !.ip = None]
    BY <1>1
  <2> QED
    BY <2>1, <2>2 DEF Drafts
<1>16. TableInv => RowPart
  BY <1>2, <1>15, RowCloses
<1>5. TableInv => c.arg.row = c.net /\ (row.moved \/ c.arg.from = c.net)
  BY <1>1 DEF TableInv
<1>6. TableInv /\ MembersOwn => MembersOwn'
  BY <1>4, <1>5, <1>14, <1>15 DEF MembersOwn
<1>7. SettingsOwn => SettingsOwn'
  BY <1>4 DEF SettingsOwn
<1>8. PICK new : /\ Begin(new, calls \ {c})
                 /\ \A d \in new : d.op = "members" /\ d.net = c.net
  <2>1. CASE ok
    <3> DEFINE d == Call("members", c.net, "row", c.sel, c.click)
    <3>1. d.op = "members" /\ d.net = c.net
      BY DEF Call
    <3>2. Begin({d}, calls \ {c})
      BY <1>1, <2>1
    <3> DEFINE new == {d}
    <3> HIDE DEF d
    <3>3. \A e \in new : e.op = "members" /\ e.net = c.net
      BY <3>1
    <3>4. Begin(new, calls \ {c})
      BY <3>2
    <3> HIDE DEF new
    <3> QED
      BY <3>3, <3>4
  <2>2. CASE ~ok
    <3>1. Begin({}, calls \ {c})
      BY <1>1, <2>2
    <3> QED
      BY <3>1
  <2> QED
    BY <2>1, <2>2
<1>9. \/ members' = [members EXCEPT !.error = TRUE]
      \/ members' = [members EXCEPT !.loading = TRUE, !.error = FALSE]
  BY <1>1 DEF Fetching
<1>10. /\ ConsoleTypeOK'
       /\ members'.of = members.of /\ (members'.loading = members.loading \/ members'.loading)
  BY <1>2, <1>4, <1>9, <1>15 DEF ConsoleInv, ConsoleTypeOK
<1>11. FormInv => FormPart(new)
  BY <1>2, <1>8 DEF FormInv, FormPart
<1>12. TableInv => TablePart(new)
  BY <1>2, <1>8, <1>10, <1>16 DEF TableInv, TablePart
<1>13. calls \ {c} \in SUBSET calls
  OBVIOUS
<1> QED
  BY <1>6, <1>7, <1>8, <1>10, <1>11, <1>12, <1>13, ConsoleStep

LEMMA DeleteAnswerKeeps == ConsoleInv /\ DeleteAnswer => ConsoleInv'
<1> SUFFICES ASSUME ConsoleInv, DeleteAnswer
             PROVE  ConsoleInv'
  OBVIOUS
<1>1. PICK c, ok, z :
        /\ c \in calls /\ ok \in BOOLEAN /\ z \in RemoveNetwork(c.net, ok)
        /\ zerotier' = [z EXCEPT !.error = ~ok]
        /\ selected' = IF ok /\ c.sel = c.net THEN None ELSE selected
        /\ row' = RowAfter(selected')
        /\ Begin({Call("list", None, None, c.sel, c.click) : x \in IF ok THEN {1} ELSE {}}, calls \ {c})
  BY DEF DeleteAnswer
<1> DEFINE new == {Call("list", None, None, c.sel, c.click) : x \in IF ok THEN {1} ELSE {}}
<1>2. UNCHANGED <<members, editing>>
  BY DEF DeleteAnswer
<1>3. \A d \in new : d.op = "list" /\ ~ReadsMembers(d)
  BY ConsoleOK DEF Call, ReadsMembers
<1>4. z \in {zerotier, [zerotier EXCEPT !.exist = @ \ {c.net}]}
  BY <1>1 DEF RemoveNetwork, Outcomes
<1>5. z.settings = zerotier.settings /\ z.patched = zerotier.patched /\ DOMAIN z = DOMAIN zerotier
  BY <1>4 DEF ConsoleInv, ConsoleTypeOK
<1>11. DOMAIN row' = DOMAIN row /\ (row.moved => row'.moved) /\ (TableInv => RowPart)
  <2> DEFINE net == selected'
  <2>1. row' = RowAfter(net)
    BY <1>1
  <2> QED
    BY <2>1, RowMoves
<1>6. /\ zerotier'.settings = zerotier.settings /\ zerotier'.patched = zerotier.patched
      /\ ConsoleTypeOK'
  BY <1>1, <1>2, <1>5, <1>11 DEF ConsoleInv, ConsoleTypeOK
<1>7. Begin(new, calls \ {c}) /\ calls \ {c} \in SUBSET calls
  BY <1>1
<1> HIDE DEF new
<1>8. selected' \in {selected, None}
  BY <1>1
<1>9. (FormInv => FormPart(new)) /\ (TableInv => TablePart(new))
  BY <1>2, <1>3, <1>8, <1>11 DEF FormInv, FormPart, TableInv, TablePart
<1>10. (SettingsOwn => SettingsOwn') /\ (MembersOwn => MembersOwn')
  BY <1>6, <1>11 DEF SettingsOwn, MembersOwn
<1> QED
  BY <1>6, <1>7, <1>9, <1>10, ConsoleStep

---------------------------------------------------------------------------
(* Results.                                                                *)

LEMMA ConsoleInit == Init => ConsoleInv
<1> SUFFICES ASSUME Init
             PROVE  ConsoleInv
  OBVIOUS
<1> DEFINE c == Call("list", None, None, None, 0)
<1>1. /\ selected = None /\ members = [of |-> None, loading |-> FALSE, error |-> FALSE]
      /\ row = [name |-> None, ip |-> None, confirm |-> None, busy |-> FALSE, moved |-> FALSE]
      /\ editing = [net |-> None, loading |-> FALSE, form |-> None]
      /\ calls \in {{c}, {}}
  BY DEF Init
<1>2. c.op = "list" /\ ~ReadsMembers(c)
  BY ConsoleOK DEF Call, ReadsMembers
<1> HIDE DEF c
<1>3. /\ DOMAIN zerotier = {"exist", "ever", "listed", "error", "settings", "patched"}
      /\ zerotier.settings = [n \in Networks |-> n] /\ zerotier.patched = {}
  BY DEF Init
<1>4. FormInv /\ TableInv
  BY <1>1, <1>2 DEF FormInv, TableInv, Drafts
<1> QED
  BY <1>1, <1>3, <1>4 DEF ConsoleInv, ConsoleTypeOK, SettingsStay, MembersStay

LEMMA ConsoleNext == ConsoleInv /\ [Next]_vars => ConsoleInv'
<1> SUFFICES ASSUME ConsoleInv, [Next]_vars
             PROVE  ConsoleInv'
  OBVIOUS
<1>1. CASE UNCHANGED vpnVars
  BY <1>1 DEF vpnVars, ConsoleInv, ConsoleTypeOK, SettingsStay, MembersStay, FormInv, TableInv,
       ReadsMembers, Drafts
<1>2. CASE UNCHANGED vars
  BY <1>1, <1>2 DEF vars
<1>3. CASE \E net \in Networks : SelectNetwork(net) \/ OpenEdit(net) \/ DeleteNetwork(net)
  BY <1>3, SelectNetworkKeeps, OpenEditKeeps, DeleteNetworkKeeps
<1>4. CASE RetryList \/ CloseEdit \/ SubmitCreate \/ SubmitEdit \/ RetryMembers
  BY <1>4, RetryListKeeps, CloseEditKeeps, SubmitsKeep, RetryMembersKeeps
<1>6. CASE \/ \E f \in {"name", "ip"} : OpenRowEdit(f) \/ CancelRowEdit(f) \/ SaveRowEdit(f)
           \/ ToggleAuthorized \/ DeleteMember \/ ConfirmExpires
  BY <1>6, RowEditKeeps, ToggleKeeps, DeleteMemberKeeps, ConfirmKeeps
<1>5. CASE \/ MembersAnswer \/ OpenAnswer \/ ListAnswer \/ CreateAnswer \/ PatchNetworkAnswer
           \/ PatchMemberAnswer \/ DeleteAnswer
  BY <1>5, MembersAnswerKeeps, OpenAnswerKeeps, ListAnswerKeeps, CreateAnswerKeeps,
     PatchNetworkAnswerKeeps, PatchMemberAnswerKeeps, DeleteAnswerKeeps
<1> QED
  BY <1>1, <1>2, <1>3, <1>4, <1>5, <1>6 DEF Next

\* No network is given the settings of another, however many networks there
\* are and however the answers come, unless two edit forms were being filled.
THEOREM NetworksKeepSettings == Spec => []SettingsStay
<1>1. ConsoleInv => SettingsStay
  BY DEF ConsoleInv
<1> QED
  BY <1>1, ConsoleInit, ConsoleNext, PTL DEF Spec

\* No member is changed in another network than its own, unless two reads of
\* members were outstanding together, nor with what was typed or first clicked
\* in another, unless a row was left open when another network was selected.
THEOREM NetworksKeepMembers == Spec => []MembersStay
<1>1. ConsoleInv => MembersStay
  BY DEF ConsoleInv
<1> QED
  BY <1>1, ConsoleInit, ConsoleNext, PTL DEF Spec

---------------------------------------------------------------------------
(* What the thirteen pages have in common.  It is read off each page once, *)
(* so that the proofs after this one need not look at them again.        *)

\* What the pages have in common: a panel asks for selections of the page and follows
\* a panel of it...
PanelFormed(pg, k) ==
    /\ pg.panels[k].by \subseteq DOMAIN pg.starts
    /\ pg.panels[k].after # None => pg.panels[k].after \in DOMAIN pg.panels
    /\ pg.panels[k].picks # None => pg.panels[k].picks \in DOMAIN pg.starts

\* ... an action reads or fills panels of it that number nothing, one that it needs
\* if others follow it...
Plain(pg, k) == k \in DOMAIN pg.panels /\ "numbered" \notin pg.panels[k].is
Lasting(pg, k) == Plain(pg, k) /\ "empties" \notin pg.panels[k].is
ActFormed(pg, a) ==
    /\ a.reloads # None => Plain(pg, a.reloads) /\ a.regets = None
    /\ a.regets # None => Lasting(pg, a.regets) /\ a.needs = a.regets
    /\ \A k \in a.fills : Plain(pg, k)
    /\ \A k \in DOMAIN pg.panels :
         pg.panels[k].after # None /\ pg.panels[k].after \in a.fills =>
           Lasting(pg, pg.panels[k].after) /\ a.needs = pg.panels[k].after
    /\ a.needs # None => a.needs \in DOMAIN pg.panels
    /\ a.reports # None => a.reports \in DOMAIN pg.panels

\* ... and a tab shows panels of it.
TabsFormed(pg) ==
    /\ pg.first \in DOMAIN pg.tabs /\ DOMAIN pg.tabs \subseteq Tabs
    /\ pg.frame.shows \subseteq DOMAIN pg.panels
    /\ \A t \in DOMAIN pg.tabs : pg.tabs[t].shows \subseteq DOMAIN pg.panels

PageFormed(pg) ==
    /\ \A k \in DOMAIN pg.panels : PanelFormed(pg, k)
    /\ \A a \in DOMAIN pg.acts : ActFormed(pg, pg.acts[a])
    /\ TabsFormed(pg)

\* What a view shows, whatever else is on it.
Shows(v, panels) ==
    v \in [shows : {panels}, asks : {v.asks}, reloads : {v.reloads}, retries : {v.retries}, offers : {v.offers}]

LEMMA ViewShows == \A panels : Shows(View(panels), panels)
BY DEF Shows, View

\* More on a view does not change what it shows...
LEMMA MoreShows ==
  ASSUME NEW v, NEW panels, NEW x, Shows(v, panels)
  PROVE  /\ Shows(Asking(x, v), panels) /\ Shows(Reloading(x, v), panels)
         /\ Shows(Retrying(x, v), panels) /\ Shows(Offering(x, v), panels)
<1>1. Shows(Asking(x, v), panels)
  BY DEF Shows, Asking
<1>2. Shows(Reloading(x, v), panels)
  BY DEF Shows, Reloading
<1>3. Shows(Retrying(x, v), panels)
  BY DEF Shows, Retrying
<1>4. Shows(Offering(x, v), panels)
  BY DEF Shows, Offering
<1> QED
  BY <1>1, <1>2, <1>3, <1>4

\* ... and two views together show what either does.
LEMMA BothShow ==
  ASSUME NEW v, NEW panels, Shows(v, panels), NEW w, NEW others, Shows(w, others)
  PROVE  Shows(Both(v, w), panels \union others)
BY DEF Shows, Both

\* What a panel asks for, what it follows and how it behaves.
Is(p, by, after, picks, is) ==
    p \in [on : {p.on}, by : {by}, after : {after}, picks : {picks}, is : {is}]

LEMMA PanelIs == \A by, is : Is(Panel(by, is), by, None, None, is)
BY DEF Is, Panel

\* A panel that follows another, or makes a selection, is one.
LEMMA MorePanelIs ==
  ASSUME NEW p, NEW by, NEW after, NEW picks, NEW is, Is(p, by, after, picks, is), NEW x
  PROVE  /\ Is(OnTabs(x, p), by, after, picks, is) /\ Is(OnClick(p), by, after, picks, is)
         /\ Is(After(x, p), by, x, picks, is)
         /\ Is(Picking(x, p), by, after, x, is)
<1>1. \A y : Is(OnTabs(y, p), by, after, picks, is)
  BY DEF Is, OnTabs
<1>2. Is(After(x, p), by, x, picks, is)
  BY DEF Is, After
<1>3. Is(Picking(x, p), by, after, x, is)
  BY DEF Is, Picking
<1> QED
  BY <1>1, <1>2, <1>3, Zenon DEF OnClick

\* What an action needs, fills, reads and reports to.
Does(a, needs, fills, reloads, regets, reports) ==
    a \in [busy : {a.busy}, per : {a.per}, needs : {needs}, fills : {fills}, reloads : {reloads},
           regets : {regets}, reports : {reports}, leaves : {a.leaves}]

LEMMA ActionDoes == \A flag, needs : Does(Action(flag, needs), needs, {}, None, None, None)
BY DEF Does, Action

\* An action with one more effect is one.
LEMMA MoreDoes ==
  ASSUME NEW a, NEW needs, NEW fills, NEW reloads, NEW regets, NEW reports,
         Does(a, needs, fills, reloads, regets, reports), NEW x
  PROVE  /\ Does(PerRow(a), needs, fills, reloads, regets, reports)
         /\ Does(PerEachRow(a), needs, fills, reloads, regets, reports)
         /\ Does(ThenLeave(a), needs, fills, reloads, regets, reports)
         /\ Does(Filling(x, a), needs, x, reloads, regets, reports)
         /\ Does(ThenReload(x, a), needs, fills, x, regets, reports)
         /\ Does(ThenReget(x, a), needs, fills, reloads, x, reports)
         /\ Does(Reporting(x, a), needs, fills, reloads, regets, x)
<1>1. Does(PerRow(a), needs, fills, reloads, regets, reports)
  BY DEF Does, PerRow
<1>2. Does(PerEachRow(a), needs, fills, reloads, regets, reports)
  BY DEF Does, PerEachRow
<1>3. Does(ThenLeave(a), needs, fills, reloads, regets, reports)
  BY DEF Does, ThenLeave
<1>4. Does(Filling(x, a), needs, x, reloads, regets, reports)
  BY DEF Does, Filling
<1>5. Does(ThenReload(x, a), needs, fills, x, regets, reports)
  BY DEF Does, ThenReload
<1>6. Does(ThenReget(x, a), needs, fills, reloads, x, reports)
  BY DEF Does, ThenReget
<1>7. Does(Reporting(x, a), needs, fills, reloads, regets, x)
  BY DEF Does, Reporting
<1> QED
  BY <1>1, <1>2, <1>3, <1>4, <1>5, <1>6, <1>7

\* The pages, one by one: their panels, their actions, and what their tabs show.
LEMMA DeviceDetailFormed == PageFormed(DeviceDetail)
<1> DEFINE pg == DeviceDetail
<1>1. /\ DOMAIN pg.panels = {"device", "traffic", "crew", "interfaceTraffic", "users", "settings", "secret"}
      /\ DOMAIN pg.starts = {"range"} /\ pg.panels.device = DevicePanel
      /\ pg.panels.traffic = TrafficPanel /\ pg.panels.crew = DeviceCrewPanel
      /\ pg.panels.interfaceTraffic = InterfaceTrafficPanel /\ pg.panels.users = DeviceUsersPanel
      /\ pg.panels.settings = RadiusSettingsPanel /\ pg.panels.secret = RevealedSecret
  BY DEF DeviceDetail
<1>2. /\ DOMAIN pg.acts = {"saveIp", "setKey", "revokeKey", "setSecret", "revokeSecret", "reveal"}
      /\ pg.acts.saveIp = SaveIpAddress /\ pg.acts.setKey = SetPushKey
      /\ pg.acts.revokeKey = RevokeKey /\ pg.acts.setSecret = SetRadiusSecret
      /\ pg.acts.revokeSecret = RevokeRadiusSecret /\ pg.acts.reveal = RevealRadiusSecret
  BY DEF DeviceDetail
<1> HIDE DEF pg
<1>3. /\ Is(DevicePanel, {}, None, None, {"waits"}) /\ Is(TrafficPanel, {"range"}, None, None, {"waits"})
      /\ Is(DeviceCrewPanel, {"range"}, "device", None, {"waits"})
      /\ Is(InterfaceTrafficPanel, {"range"}, None, None, {"waits"})
      /\ Is(DeviceUsersPanel, {}, None, None, {"waits"})
      /\ Is(RadiusSettingsPanel, {}, None, None, {"quiet", "empties"})
      /\ Is(RevealedSecret, {}, None, None, {"quiet"})
  BY PanelIs, MorePanelIs DEF DevicePanel, TrafficPanel, DeviceCrewPanel, InterfaceTrafficPanel,
     DeviceUsersPanel, RadiusSettingsPanel, RevealedSecret
<1>4. /\ Does(SaveIpAddress, "device", {"device"}, None, None, None)
      /\ Does(SetPushKey, "device", {}, None, "device", None)
      /\ Does(RevokeKey, "device", {}, None, "device", None)
      /\ Does(SetRadiusSecret, "device", {"secret"}, None, "device", None)
      /\ Does(RevokeRadiusSecret, "device", {"secret"}, None, "device", None)
      /\ Does(RevealRadiusSecret, "device", {"secret"}, None, None, None)
  BY ActionDoes, MoreDoes DEF SaveIpAddress, SetPushKey, RevokeKey, SetRadiusSecret,
     RevokeRadiusSecret, RevealRadiusSecret
<1>5. \A k \in DOMAIN pg.panels : PanelFormed(pg, k)
  BY <1>1, <1>3 DEF PanelFormed, Is
<1>6. \A a \in DOMAIN pg.acts : ActFormed(pg, pg.acts[a])
  BY <1>1, <1>2, <1>3, <1>4, SMTT(30) DEF ActFormed, Plain, Lasting, Is, Does
<1>7. TabsFormed(pg)
  <2>1. /\ Shows(DeviceHeader, {"device"}) /\ Shows(DeviceTrafficTab, {"traffic", "crew"})
        /\ Shows(DeviceInterfaceTab, {"interfaceTraffic"}) /\ Shows(DeviceUsersTab, {"users"})
        /\ Shows(DevicePushTab, {"settings", "secret"})
    BY ViewShows, MoreShows DEF DeviceHeader, DeviceTrafficTab, DeviceInterfaceTab,
       DeviceUsersTab, DevicePushTab
  <2> QED
    BY <1>1, <2>1 DEF TabsFormed, pg, DeviceDetail, Tabs, Shows
<1> QED
  BY <1>5, <1>6, <1>7 DEF PageFormed, pg

LEMMA SubscriberDetailFormed == PageFormed(SubscriberDetail)
<1> DEFINE pg == SubscriberDetail
<1>1. /\ DOMAIN pg.panels = {"subscriber", "sessions", "crewUser", "audit"}
      /\ DOMAIN pg.starts = {} /\ pg.panels.subscriber = SubscriberPanel
      /\ pg.panels.sessions = SessionsPanel /\ pg.panels.crewUser = CrewUserPanel
      /\ pg.panels.audit = AuditPanel
  BY DEF SubscriberDetail
<1>2. /\ DOMAIN pg.acts = {"saveEdit", "resetQuota", "delete", "setPassword", "revokePassword", "disconnect"}
      /\ pg.acts.saveEdit = SaveEdit /\ pg.acts.resetQuota = ResetQuota
      /\ pg.acts.delete = DeleteThisSubscriber /\ pg.acts.setPassword = SetPassword
      /\ pg.acts.revokePassword = RevokePassword /\ pg.acts.disconnect = DisconnectSession
  BY DEF SubscriberDetail
<1> HIDE DEF pg
<1>3. /\ Is(SubscriberPanel, {}, None, None, {"waits"})
      /\ Is(SessionsPanel, {}, "subscriber", None, {"empties", "hides"})
      /\ Is(CrewUserPanel, {}, "subscriber", None, {"empties"})
      /\ Is(AuditPanel, {}, None, None, {"empties"})
  BY PanelIs, MorePanelIs DEF SubscriberPanel, SessionsPanel, CrewUserPanel, AuditPanel
<1>4. /\ Does(SaveEdit, "subscriber", {}, "subscriber", None, None)
      /\ Does(ResetQuota, "subscriber", {}, "subscriber", None, None)
      /\ Does(DeleteThisSubscriber, "subscriber", {}, None, None, None)
      /\ Does(SetPassword, "subscriber", {}, None, "subscriber", None)
      /\ Does(RevokePassword, "subscriber", {}, None, "subscriber", None)
      /\ Does(DisconnectSession, "sessions", {}, "sessions", None, None)
  BY ActionDoes, MoreDoes DEF SaveEdit, ResetQuota, DeleteThisSubscriber, SetPassword,
     RevokePassword, DisconnectSession
<1>5. \A k \in DOMAIN pg.panels : PanelFormed(pg, k)
  BY <1>1, <1>3 DEF PanelFormed, Is
<1>6. \A a \in DOMAIN pg.acts : ActFormed(pg, pg.acts[a])
  BY <1>1, <1>2, <1>3, <1>4, SMTT(30) DEF ActFormed, Plain, Lasting, Is, Does
<1>7. TabsFormed(pg)
  <2>1. /\ Shows(SubscriberHeader, {"subscriber"}) /\ Shows(OverviewTab, {"sessions"})
        /\ Shows(PackageTab, {}) /\ Shows(UsageTab, {"crewUser"}) /\ Shows(SessionsTab, {"sessions"})
        /\ Shows(HistoryTab, {"audit"})
    BY ViewShows, MoreShows DEF SubscriberHeader, OverviewTab, PackageTab, UsageTab, SessionsTab,
       HistoryTab
  <2> QED
    BY <1>1, <2>1 DEF TabsFormed, pg, SubscriberDetail, Tabs, Shows
<1> QED
  BY <1>5, <1>6, <1>7 DEF PageFormed, pg

LEMMA ShipDashboardFormed == PageFormed(ShipDashboard)
<1> DEFINE pg == ShipDashboard
<1>1. /\ DOMAIN pg.panels = {"ships", "ship", "reconciliation", "interfaces", "health", "devices", 
                           "crew", "crewSessions", "business"}
      /\ DOMAIN pg.starts = {"ship", "filters", "mode"} /\ pg.panels.ships = ShipListPanel
      /\ pg.panels.ship = ShipPanel /\ pg.panels.reconciliation = ReconciliationPanel
      /\ pg.panels.interfaces = InterfacesPanel /\ pg.panels.health = HealthPanel
      /\ pg.panels.devices = DevicesPanel /\ pg.panels.crew = CrewPanel
      /\ pg.panels.crewSessions = CrewSessionsPanel /\ pg.panels.business = BusinessPanel
  BY DEF ShipDashboard
<1>2. DOMAIN pg.acts = {"createShip"} /\ pg.acts.createShip = CreateShip
  BY DEF ShipDashboard
<1> HIDE DEF pg
<1>3. /\ Is(ShipListPanel, {}, None, "ship", {"waits"})
      /\ Is(ShipPanel, {"ship", "filters"}, None, None, {"numbered", "waits"})
      /\ Is(ReconciliationPanel, {"ship", "filters", "mode"}, None, None, {"numbered", "empties"})
      /\ Is(InterfacesPanel, {"ship"}, None, None, {"numbered", "cleans"})
      /\ Is(HealthPanel, {}, None, None, {"numbered"})
      /\ Is(DevicesPanel, {"ship"}, None, None, {"numbered", "cleans"})
      /\ Is(CrewPanel, {"ship", "filters"}, None, None, {"numbered"})
      /\ Is(CrewSessionsPanel, {"ship"}, None, None, {"numbered", "quiet"})
      /\ Is(BusinessPanel, {"ship", "filters"}, None, None, {"numbered"})
  BY PanelIs, MorePanelIs DEF ShipListPanel, ShipPanel, ReconciliationPanel, InterfacesPanel,
     HealthPanel, DevicesPanel, CrewPanel, CrewSessionsPanel, BusinessPanel
<1>4. Does(CreateShip, None, {}, "ships", None, None)
  BY ActionDoes, MoreDoes DEF CreateShip
<1>5. \A k \in DOMAIN pg.panels : PanelFormed(pg, k)
  BY <1>1, <1>3 DEF PanelFormed, Is
<1>6. \A a \in DOMAIN pg.acts : ActFormed(pg, pg.acts[a])
  BY <1>1, <1>2, <1>3, <1>4, SMTT(30) DEF ActFormed, Plain, Lasting, Is, Does
<1>7. TabsFormed(pg)
  <2>1. /\ Shows(ShipFrame, {"ships", "ship"}) /\ Shows(CreateShipModal, {})
        /\ Shows(ShipOverviewTab, {"ship"}) /\ Shows(ReconciliationTab, {"reconciliation"})
        /\ Shows(InterfacesTab, {"interfaces"}) /\ Shows(DevicesTab, {"devices"})
        /\ Shows(HealthTab, {"health"}) /\ Shows(CrewTab, {"crew", "crewSessions"})
        /\ Shows(BusinessTab, {"business"}) /\ Shows(TrafficFlowTab, {"business"})
        /\ Shows(View({}), {})
    BY ViewShows, MoreShows DEF ShipFrame, CreateShipModal, ShipOverviewTab, ReconciliationTab,
       InterfacesTab, DevicesTab, HealthTab, CrewTab, BusinessTab, TrafficFlowTab
  <2>2. Shows(Both(ShipFrame, CreateShipModal), {"ships", "ship"} \union {})
    BY <2>1, BothShow
  <2> QED
    BY <1>1, <2>1, <2>2 DEF TabsFormed, pg, ShipDashboard, Tabs, Shows
<1> QED
  BY <1>5, <1>6, <1>7 DEF PageFormed, pg

LEMMA GlobalDashboardFormed == PageFormed(GlobalDashboard)
<1> DEFINE pg == GlobalDashboard
<1>1. /\ DOMAIN pg.panels = {"global", "finance"} /\ DOMAIN pg.starts = {"filters"}
      /\ pg.panels.global = GlobalPanel /\ pg.panels.finance = FinancePanel
  BY DEF GlobalDashboard
<1>2. DOMAIN pg.acts = {}
  BY DEF GlobalDashboard
<1> HIDE DEF pg
<1>3. /\ Is(GlobalPanel, {"filters"}, None, None, {"numbered", "empties", "waits"})
      /\ Is(FinancePanel, {}, None, None, {"empties", "waits"})
  BY PanelIs, MorePanelIs DEF GlobalPanel, FinancePanel
<1>5. \A k \in DOMAIN pg.panels : PanelFormed(pg, k)
  BY <1>1, <1>3 DEF PanelFormed, Is
<1>6. \A a \in DOMAIN pg.acts : ActFormed(pg, pg.acts[a])
  BY <1>1, <1>2, <1>3 DEF ActFormed, Plain, Lasting, Is, Does
<1>7. TabsFormed(pg)
  <2>1. Shows(NetworkTab, {"global"}) /\ Shows(FinanceTab, {"finance"}) /\ Shows(View({}), {})
    BY ViewShows, MoreShows DEF NetworkTab, FinanceTab
  <2> QED
    BY <1>1, <2>1 DEF TabsFormed, pg, GlobalDashboard, Tabs, Shows
<1> QED
  BY <1>5, <1>6, <1>7 DEF PageFormed, pg

LEMMA AreaDashboardFormed == PageFormed(AreaDashboard)
<1> DEFINE pg == AreaDashboard
<1>1. /\ DOMAIN pg.panels = {"areas", "area"} /\ DOMAIN pg.starts = {"area", "filters"}
      /\ pg.panels.areas = AreaListPanel /\ pg.panels.area = AreaPanel
  BY DEF AreaDashboard
<1>2. DOMAIN pg.acts = {}
  BY DEF AreaDashboard
<1> HIDE DEF pg
<1>3. /\ Is(AreaListPanel, {}, None, "area", {"waits"})
      /\ Is(AreaPanel, {"area", "filters"}, None, None, {"numbered", "waits"})
  BY PanelIs, MorePanelIs DEF AreaListPanel, AreaPanel
<1>5. \A k \in DOMAIN pg.panels : PanelFormed(pg, k)
  BY <1>1, <1>3 DEF PanelFormed, Is
<1>6. \A a \in DOMAIN pg.acts : ActFormed(pg, pg.acts[a])
  BY <1>1, <1>2, <1>3 DEF ActFormed, Plain, Lasting, Is, Does
<1>7. TabsFormed(pg)
  <2>1. Shows(AreaView, {"areas", "area"}) /\ Shows(View({}), {})
    BY ViewShows, MoreShows DEF AreaView
  <2> QED
    BY <1>1, <2>1 DEF TabsFormed, pg, AreaDashboard, Tabs, Shows
<1> QED
  BY <1>5, <1>6, <1>7 DEF PageFormed, pg

LEMMA DevicesFormed == PageFormed(Devices)
<1> DEFINE pg == Devices
<1>1. /\ DOMAIN pg.panels = {"devices", "usage", "server", "created"} /\ DOMAIN pg.starts = {}
      /\ pg.panels.devices = DeviceListPanel /\ pg.panels.usage = DeviceUsagePanel
      /\ pg.panels.server = ServerAddressPanel /\ pg.panels.created = CreatedDevice
  BY DEF Devices
<1>2. /\ DOMAIN pg.acts = {"delete", "toggle", "create", "savePushKey", "saveSecret"}
      /\ pg.acts.delete = DeleteDevice /\ pg.acts.toggle = ToggleMaintenance
      /\ pg.acts.create = SubmitStep2 /\ pg.acts.savePushKey = SavePushKey
      /\ pg.acts.saveSecret = SaveRadiusSecret
  BY DEF Devices
<1> HIDE DEF pg
<1>3. /\ Is(DeviceListPanel, {}, None, None, {"hides", "waits"})
      /\ Is(DeviceUsagePanel, {}, "devices", None, {"each"})
      /\ Is(ServerAddressPanel, {}, None, None, {"quiet", "empties"})
      /\ Is(CreatedDevice, {}, None, None, {"quiet"})
  BY PanelIs, MorePanelIs DEF DeviceListPanel, DeviceUsagePanel, ServerAddressPanel, CreatedDevice
<1>4. /\ Does(DeleteDevice, "devices", {}, "devices", None, "devices")
      /\ Does(ToggleMaintenance, "devices", {}, "devices", None, "devices")
      /\ Does(SubmitStep2, None, {"created"}, None, None, None)
      /\ Does(SavePushKey, "created", {}, None, None, None)
      /\ Does(SaveRadiusSecret, "created", {}, None, None, None)
  BY ActionDoes, MoreDoes DEF DeleteDevice, ToggleMaintenance, SubmitStep2, SavePushKey,
     SaveRadiusSecret
<1>5. \A k \in DOMAIN pg.panels : PanelFormed(pg, k)
  BY <1>1, <1>3 DEF PanelFormed, Is
<1>6. \A a \in DOMAIN pg.acts : ActFormed(pg, pg.acts[a])
  BY <1>1, <1>2, <1>3, <1>4, SMTT(30) DEF ActFormed, Plain, Lasting, Is, Does
<1>7. TabsFormed(pg)
  <2>1. Shows(DeviceTable, {"devices", "usage"}) /\ Shows(DeviceWizard, {})
    BY ViewShows, MoreShows DEF DeviceTable, DeviceWizard
  <2> QED
    BY <1>1, <2>1 DEF TabsFormed, pg, Devices, Tabs, Shows
<1> QED
  BY <1>5, <1>6, <1>7 DEF PageFormed, pg

LEMMA UsersFormed == PageFormed(Users)
<1> DEFINE pg == Users
<1>1. /\ DOMAIN pg.panels = {"users"} /\ DOMAIN pg.starts = {"filters"}
      /\ pg.panels.users = UserListPanel
  BY DEF Users
<1>2. /\ DOMAIN pg.acts = {"create", "delete", "toggleLock", "bulk"}
      /\ pg.acts.create = CreateSubscriber /\ pg.acts.delete = DeleteSubscriber
      /\ pg.acts.toggleLock = ToggleLock /\ pg.acts.bulk = BulkAction
  BY DEF Users
<1> HIDE DEF pg
<1>3. Is(UserListPanel, {"filters"}, None, None, {"waits"})
  BY PanelIs, MorePanelIs DEF UserListPanel
<1>4. /\ Does(CreateSubscriber, None, {}, "users", None, None)
      /\ Does(DeleteSubscriber, "users", {}, "users", None, "users")
      /\ Does(ToggleLock, "users", {}, "users", None, "users")
      /\ Does(BulkAction, "users", {}, "users", None, None)
  BY ActionDoes, MoreDoes DEF CreateSubscriber, DeleteSubscriber, ToggleLock, BulkAction
<1>5. \A k \in DOMAIN pg.panels : PanelFormed(pg, k)
  BY <1>1, <1>3 DEF PanelFormed, Is
<1>6. \A a \in DOMAIN pg.acts : ActFormed(pg, pg.acts[a])
  BY <1>1, <1>2, <1>3, <1>4, SMTT(30) DEF ActFormed, Plain, Lasting, Is, Does
<1>7. TabsFormed(pg)
  <2>1. Shows(UserHeader, {"users"}) /\ Shows(UserTable, {"users"}) /\ Shows(UserModal, {})
    BY ViewShows, MoreShows DEF UserHeader, UserTable, UserModal
  <2> QED
    BY <1>1, <2>1 DEF TabsFormed, pg, Users, Tabs, Shows
<1> QED
  BY <1>5, <1>6, <1>7 DEF PageFormed, pg

LEMMA TenantsFormed == PageFormed(Tenants)
<1> DEFINE pg == Tenants
<1>1. /\ DOMAIN pg.panels = {"tenants"} /\ DOMAIN pg.starts = {}
      /\ pg.panels.tenants = TenantListPanel
  BY DEF Tenants
<1>2. /\ DOMAIN pg.acts = {"save", "remove", "create", "setPassword", "revokePassword"}
      /\ pg.acts.save = SaveTenant /\ pg.acts.remove = RemoveTenant
      /\ pg.acts.create = CreateTenant /\ pg.acts.setPassword = SetTenantPassword
      /\ pg.acts.revokePassword = RevokeTenantPassword
  BY DEF Tenants
<1> HIDE DEF pg
<1>3. Is(TenantListPanel, {}, None, None, {"waits"})
  BY PanelIs, MorePanelIs DEF TenantListPanel
<1>4. /\ Does(SaveTenant, "tenants", {}, "tenants", None, None)
      /\ Does(RemoveTenant, "tenants", {}, "tenants", None, "tenants")
      /\ Does(CreateTenant, None, {}, "tenants", None, None)
      /\ Does(SetTenantPassword, "tenants", {}, "tenants", None, None)
      /\ Does(RevokeTenantPassword, "tenants", {}, "tenants", None, None)
  BY ActionDoes, MoreDoes DEF SaveTenant, RemoveTenant, CreateTenant, SetTenantPassword,
     RevokeTenantPassword
<1>5. \A k \in DOMAIN pg.panels : PanelFormed(pg, k)
  BY <1>1, <1>3 DEF PanelFormed, Is
<1>6. \A a \in DOMAIN pg.acts : ActFormed(pg, pg.acts[a])
  BY <1>1, <1>2, <1>3, <1>4, SMTT(30) DEF ActFormed, Plain, Lasting, Is, Does
<1>7. TabsFormed(pg)
  <2>1. Shows(TenantList, {"tenants"}) /\ Shows(TenantForm, {"tenants"}) /\ Shows(TenantModal, {})
    BY ViewShows, MoreShows DEF TenantList, TenantForm, TenantModal
  <2> QED
    BY <1>1, <2>1 DEF TabsFormed, pg, Tenants, Tabs, Shows
<1> QED
  BY <1>5, <1>6, <1>7 DEF PageFormed, pg

LEMMA PackagesFormed == PageFormed(Packages)
<1> DEFINE pg == Packages
<1>1. /\ DOMAIN pg.panels = {"packages"} /\ DOMAIN pg.starts = {}
      /\ pg.panels.packages = PackageListPanel
  BY DEF Packages
<1>2. /\ DOMAIN pg.acts = {"save", "remove"} /\ pg.acts.save = SavePackage
      /\ pg.acts.remove = RemovePackage
  BY DEF Packages
<1> HIDE DEF pg
<1>3. Is(PackageListPanel, {}, None, None, {"waits"})
  BY PanelIs, MorePanelIs DEF PackageListPanel
<1>4. /\ Does(SavePackage, None, {}, "packages", None, None)
      /\ Does(RemovePackage, "packages", {}, "packages", None, "packages")
  BY ActionDoes, MoreDoes DEF SavePackage, RemovePackage
<1>5. \A k \in DOMAIN pg.panels : PanelFormed(pg, k)
  BY <1>1, <1>3 DEF PanelFormed, Is
<1>6. \A a \in DOMAIN pg.acts : ActFormed(pg, pg.acts[a])
  BY <1>1, <1>2, <1>3, <1>4, SMTT(30) DEF ActFormed, Plain, Lasting, Is, Does
<1>7. TabsFormed(pg)
  <2>1. Shows(PackageView, {"packages"}) /\ Shows(View({}), {})
    BY ViewShows, MoreShows DEF PackageView
  <2> QED
    BY <1>1, <2>1 DEF TabsFormed, pg, Packages, Tabs, Shows
<1> QED
  BY <1>5, <1>6, <1>7 DEF PageFormed, pg

LEMMA RadiusAaaFormed == PageFormed(RadiusAaa)
<1> DEFINE pg == RadiusAaa
<1>1. /\ DOMAIN pg.panels = {"monitoring", "nas", "settings", "secrets"} /\ DOMAIN pg.starts = {}
      /\ pg.panels.monitoring = MonitoringPanel /\ pg.panels.nas = NasPanel
      /\ pg.panels.settings = ServerSettingsPanel /\ pg.panels.secrets = NasSecrets
  BY DEF RadiusAaa
<1>2. /\ DOMAIN pg.acts = {"save", "reveal"} /\ pg.acts.save = SaveNas
      /\ pg.acts.reveal = RevealNasSecret
  BY DEF RadiusAaa
<1> HIDE DEF pg
<1>3. /\ Is(MonitoringPanel, {}, None, None, {"waits"}) /\ Is(NasPanel, {}, None, None, {"resets", "waits"})
      /\ Is(ServerSettingsPanel, {}, None, None, {"quiet"})
      /\ Is(NasSecrets, {}, None, None, {"quiet"})
  BY PanelIs, MorePanelIs DEF MonitoringPanel, NasPanel, ServerSettingsPanel, NasSecrets
<1>4. /\ Does(SaveNas, "nas", {"nas"}, None, None, None)
      /\ Does(RevealNasSecret, "nas", {"secrets"}, None, None, None)
  BY ActionDoes, MoreDoes DEF SaveNas, RevealNasSecret
<1>5. \A k \in DOMAIN pg.panels : PanelFormed(pg, k)
  BY <1>1, <1>3 DEF PanelFormed, Is
<1>6. \A a \in DOMAIN pg.acts : ActFormed(pg, pg.acts[a])
  BY <1>1, <1>2, <1>3, <1>4, SMTT(30) DEF ActFormed, Plain, Lasting, Is, Does
<1>7. TabsFormed(pg)
  <2>1. /\ Shows(ServerView, {"settings"}) /\ Shows(NasTable, {"nas", "secrets"})
        /\ Shows(MonitoringView, {"monitoring"})
    BY ViewShows, MoreShows DEF ServerView, NasTable, MonitoringView
  <2>2. Shows(Both(ServerView, MonitoringView), {"settings"} \union {"monitoring"})
    BY <2>1, BothShow
  <2> QED
    BY <1>1, <2>1, <2>2 DEF TabsFormed, pg, RadiusAaa, Tabs, Shows
<1> QED
  BY <1>5, <1>6, <1>7 DEF PageFormed, pg

LEMMA SettingsFormed == PageFormed(Settings)
<1> DEFINE pg == Settings
<1>1. /\ DOMAIN pg.panels = {"role", "core", "endpoints"} /\ DOMAIN pg.starts = {}
      /\ pg.panels.role = RolePanel /\ pg.panels.core = CorePanel
      /\ pg.panels.endpoints = EndpointsPanel
  BY DEF Settings
<1>2. /\ DOMAIN pg.acts = {"database", "radius", "collectors", "zerotier", "add", "edit", "remove", "run"}
      /\ pg.acts.database = SaveDatabase /\ pg.acts.radius = SaveRadius
      /\ pg.acts.collectors = SaveCollectors /\ pg.acts.zerotier = SaveZerotier
      /\ pg.acts.add = CreateEndpoint /\ pg.acts.edit = SaveEndpoint
      /\ pg.acts.remove = RemoveEndpoint /\ pg.acts.run = RunAction
  BY DEF Settings
<1> HIDE DEF pg
<1>3. /\ Is(RolePanel, {}, None, None, {"empties", "waits"}) /\ Is(CorePanel, {}, None, None, {"waits"})
      /\ Is(EndpointsPanel, {}, None, None, {"waits"})
  BY PanelIs, MorePanelIs DEF RolePanel, CorePanel, EndpointsPanel
<1>4. /\ Does(SaveDatabase, "core", {"core"}, None, None, None)
      /\ Does(SaveRadius, "core", {"core"}, None, None, None)
      /\ Does(SaveCollectors, "core", {"core"}, None, None, None)
      /\ Does(SaveZerotier, "core", {"core"}, None, None, None)
      /\ Does(CreateEndpoint, None, {}, "endpoints", None, None)
      /\ Does(SaveEndpoint, "endpoints", {}, "endpoints", None, None)
      /\ Does(RemoveEndpoint, "endpoints", {}, "endpoints", None, "endpoints")
      /\ Does(RunAction, "endpoints", {}, "endpoints", None, "endpoints")
  BY ActionDoes, MoreDoes DEF SaveDatabase, UpdateSettings, SaveRadius, SaveCollectors,
     SaveZerotier, CreateEndpoint, SaveEndpoint, RemoveEndpoint, RunAction
<1>5. \A k \in DOMAIN pg.panels : PanelFormed(pg, k)
  BY <1>1, <1>3 DEF PanelFormed, Is
<1>6. \A a \in DOMAIN pg.acts : ActFormed(pg, pg.acts[a])
  BY <1>1, <1>2, <1>3, <1>4, SMTT(30) DEF ActFormed, Plain, Lasting, Is, Does
<1>7. TabsFormed(pg)
  <2>1. Shows(CoreForms, {"role", "core"}) /\ Shows(EndpointsTable, {"endpoints"})
    BY ViewShows, MoreShows DEF CoreForms, EndpointsTable
  <2> QED
    BY <1>1, <2>1 DEF TabsFormed, pg, Settings, Tabs, Shows
<1> QED
  BY <1>5, <1>6, <1>7 DEF PageFormed, pg

LEMMA BulkAssignFormed == PageFormed(BulkAssign)
<1> DEFINE pg == BulkAssign
<1>1. /\ DOMAIN pg.panels = {"choices"} /\ DOMAIN pg.starts = {}
      /\ pg.panels.choices = ChoicesPanel
  BY DEF BulkAssign
<1>2. DOMAIN pg.acts = {"apply"} /\ pg.acts.apply = Apply
  BY DEF BulkAssign
<1> HIDE DEF pg
<1>3. Is(ChoicesPanel, {}, None, None, {"waits"})
  BY PanelIs, MorePanelIs DEF ChoicesPanel
<1>4. Does(Apply, "choices", {}, None, None, None)
  BY ActionDoes, MoreDoes DEF Apply
<1>5. \A k \in DOMAIN pg.panels : PanelFormed(pg, k)
  BY <1>1, <1>3 DEF PanelFormed, Is
<1>6. \A a \in DOMAIN pg.acts : ActFormed(pg, pg.acts[a])
  BY <1>1, <1>2, <1>3, <1>4, SMTT(30) DEF ActFormed, Plain, Lasting, Is, Does
<1>7. TabsFormed(pg)
  <2>1. Shows(BulkAssignSteps, {"choices"}) /\ Shows(View({}), {})
    BY ViewShows, MoreShows DEF BulkAssignSteps
  <2> QED
    BY <1>1, <2>1 DEF TabsFormed, pg, BulkAssign, Tabs, Shows
<1> QED
  BY <1>5, <1>6, <1>7 DEF PageFormed, pg

LEMMA LoginFormed == PageFormed(Login)
<1> DEFINE pg == Login
<1>1. DOMAIN pg.panels = {} /\ DOMAIN pg.starts = {}
  BY DEF Login
<1>2. DOMAIN pg.acts = {"submit"} /\ pg.acts.submit = HandleSubmit
  BY DEF Login
<1> HIDE DEF pg
<1>4. Does(HandleSubmit, None, {}, None, None, None)
  BY ActionDoes, MoreDoes DEF HandleSubmit
<1>5. \A k \in DOMAIN pg.panels : PanelFormed(pg, k)
  BY <1>1 DEF PanelFormed, Is
<1>6. \A a \in DOMAIN pg.acts : ActFormed(pg, pg.acts[a])
  BY <1>1, <1>2, <1>4 DEF ActFormed, Plain, Lasting, Is, Does
<1>7. TabsFormed(pg)
  <2>1. Shows(View({}), {}) /\ Shows(Offering({"submit"}, View({})), {})
    BY ViewShows, MoreShows
  <2> QED
    BY <1>1, <2>1 DEF TabsFormed, pg, Login, Tabs, Shows
<1> QED
  BY <1>5, <1>6, <1>7 DEF PageFormed, pg

\* Every page of the portal is formed like that.
LEMMA EveryPageFormed == \A p \in DOMAIN Pages : PageFormed(Pages[p])
BY DeviceDetailFormed, SubscriberDetailFormed, ShipDashboardFormed, GlobalDashboardFormed,
   AreaDashboardFormed, DevicesFormed, UsersFormed, TenantsFormed, PackagesFormed,
   RadiusAaaFormed, SettingsFormed, BulkAssignFormed, LoginFormed DEF Pages

---------------------------------------------------------------------------
(* The portal's pages: what the proofs know of the page shown.           *)

\* What holds of the new state of a page that stays, holds next.
LEMMA FitsStay ==
  ASSUME page' = page, page \in PagesShown => PortalFits(scope', panel', flight', doubt')
  PROVE  PortalInv'
<1>1. P' = P
  BY DEF P
<1> QED
  BY <1>1, SMTT(60) DEF PortalInv, PortalFits, PortalTypeOK, CallFits, Writers, PanelFits,
     NumbersFit, Panels, Has, Puts, Watched, Asked

\* The page shown is one of those.
LEMMA PageKnown == page \in PagesShown => PageFormed(P)
BY PortalOK, EveryPageFormed DEF P

\* What is asked for is not None.
LEMMA AskedSomething ==
  ASSUME page \in PagesShown, NEW s, NEW pan, NEW d, PortalTypeOK(s, pan, d), NEW k \in Panels
  PROVE  Asked(k, s) # None
<1>1. P.panels[k].by \subseteq DOMAIN P.starts
  BY PageKnown DEF PageFormed, PanelFormed, Panels
<1>2. Asked(k, s) \in [P.panels[k].by -> Values \union {None}]
  BY <1>1 DEF Asked, PortalTypeOK
<1>3. None \notin [P.panels[k].by -> Values \union {None}]
  BY <1>1, PortalOK DEF P
<1> QED
  BY <1>2, <1>3

---------------------------------------------------------------------------
(* A render.                                                               *)

Fields == {"shown", "read", "told", "id", "loading", "error"}
SameData(r, q) == r.shown = q.shown /\ r.read = q.read /\ r.told = q.told

\* A panel whose request begins: the data stay.
LEMMA BegunFields ==
  ASSUME NEW k, NEW r, DOMAIN r = Fields, NEW n
  PROVE  /\ DOMAIN Begun(k, r, n) = Fields /\ SameData(Begun(k, r, n), r)
         /\ Begun(k, r, n).id = n /\ Begun(k, r, n).error = FALSE
         /\ ~Has(k, "quiet") => Begun(k, r, n).loading = TRUE
BY DEF Begun, Loading, Fields, SameData

\* A panel with another number: the data stay.
LEMMA NumberedFields ==
  ASSUME NEW r, DOMAIN r = Fields, NEW n
  PROVE  LET q == [r EXCEPT !.id = n] IN
         /\ DOMAIN q = Fields /\ SameData(q, r)
         /\ q.id = n /\ q.error = r.error /\ q.loading = r.loading
BY DEF Fields, SameData

\* What an effect that does not run again asked for stays.
LEMMA StillWatched ==
  ASSUME page \in PagesShown, NEW s, NEW t, NEW pan, NEW new, NEW d, NEW set, NEW k \in Panels,
         PortalTypeOK(s, pan, d), PortalTypeOK(t, new, d),
         Watched(k, t, new), ~Reruns(k, s, t, pan, new, set)
  PROVE  Watched(k, s, pan) /\ Asked(k, s) = Asked(k, t)
<1>1. Asked(k, s) = Asked(k, t)
  BY DEF Reruns
<1>2. s.tab \in P.panels[k].on
  BY PageKnown DEF Watched, Reruns, PortalTypeOK, PageFormed, TabsFormed
<1>3. ASSUME NEW e \in P.panels[k].by
      PROVE  s.at[e] # None
  <2>1. Asked(k, s)[e] = s.at[e] /\ Asked(k, t)[e] = t.at[e]
    BY DEF Asked
  <2> QED
    BY <1>1, <2>1 DEF Watched
<1>4. P.panels[k].after # None => pan[P.panels[k].after].shown # None
  BY DEF Watched, Reruns
<1> QED
  BY <1>1, <1>2, <1>3, <1>4 DEF Watched

\* What a step sees to before the render: the calls in rest are still outstanding,
\* those in more begin with it.
Rendered(t, p, set, more, rest) ==
    /\ PortalTypeOK(t, p, doubt)
    /\ \A k \in Panels : p[k].id = panel[k].id
    /\ \A c \in more \union rest : CallFits(c, p)
    /\ \A c, d \in more : c = d
    /\ \A c \in more : c.op # "act" =>
         /\ c.since = p[c.panel].told
         /\ Has(c.panel, "numbered") => c.id = p[c.panel].id + 1 /\ c.asked = Asked(c.panel, t)
    /\ more # {} => CleanedUp(t, p, set) = {} /\ Started(t, p, set) = {}
    /\ \A k \in Panels :
         /\ NumbersFit(k, p[k], rest)
         /\ \/ k \in doubt
            \/ ~Has(k, "numbered") /\ \E c \in more : c.op # "act" /\ c.panel = k
            \/ PanelFits(k, Watched(k, scope, panel), Asked(k, scope), p[k], rest)

EffectLoad(k, t, cleaned, p) == Request("load", k, Asked(k, t), NewId(k, cleaned), p[k].told, None, None)

\* The new state of a panel in a render.
InRender(k, p, cleaned, new) ==
    LET id == p[k].id + BumpOf(k \in cleaned) IN
      IF \E c \in new : c.op = "load" /\ c.panel = k
      THEN Begun(k, p[k], id + 1)
      ELSE [p[k] EXCEPT !.id = id]

\* The calls of the effects that run; and what a render does, from
\* the panels whose effect is cleaned up, those whose effect begins a request, and all
\* the new calls.
Begins(started, t, cleaned, p) == {EffectLoad(k, t, cleaned, p) : k \in started}
Becomes(t, p, cleaned, new, rest) ==
    /\ scope' = t
    /\ panel' = [k \in Panels |-> InRender(k, p, cleaned, new)]
    /\ flight' = rest \union new
    /\ doubt' = DoubtAfter(new, rest, t)

\* A render is that.
LEMMA RenderMeans ==
  ASSUME NEW t, NEW p, NEW set, NEW more, NEW rest, Render(t, p, set, more, rest)
  PROVE  Becomes(t, p, CleanedUp(t, p, set),
                 more \union Begins(Started(t, p, set), t, CleanedUp(t, p, set), p), rest)
<1>1. PICK pan \in {p}, left \in {rest} :
        \E cleaned \in {CleanedUp(t, pan, set)}, started \in {Started(t, pan, set)} :
        \E new \in {more \union Begins(started, t, cleaned, pan)} :
          Becomes(t, pan, cleaned, new, left)
  BY DEF Render, EffectLoad, InRender, Begins, Becomes
<1>2. pan = p /\ left = rest
  OBVIOUS
<1>3. PICK cleaned \in {CleanedUp(t, p, set)}, started \in {Started(t, p, set)} :
        \E new \in {more \union Begins(started, t, cleaned, p)} : Becomes(t, p, cleaned, new, rest)
  BY <1>1, <1>2
<1> QED
  BY <1>3

\* What the request of an effect carries.
LEMMA EffectLoadFields ==
  ASSUME NEW k, NEW t, NEW cleaned, NEW p
  PROVE  LET c == EffectLoad(k, t, cleaned, p) IN
         /\ c.op = "load" /\ c.panel = k /\ c.asked = Asked(k, t) /\ c.id = NewId(k, cleaned)
         /\ c.since = p[k].told
BY DEF EffectLoad, Request

\* The panels have the data they had, and higher numbers.
ReadIn(k, new) == \E c \in new : c.op = "load" /\ c.panel = k
IdAfter(k, p, cleaned) == p[k].id + BumpOf(k \in cleaned)

Renewed(r, k, p, cleaned, new) ==
    /\ DOMAIN r = Fields /\ SameData(r, p[k])
    /\ ReadIn(k, new) =>
         r.id = IdAfter(k, p, cleaned) + 1 /\ r.error = FALSE /\ (~Has(k, "quiet") => r.loading = TRUE)
    /\ ~ReadIn(k, new) =>
         r.id = IdAfter(k, p, cleaned) /\ r.error = p[k].error /\ r.loading = p[k].loading

\* A panel after a render is that.
LEMMA RenderedFields ==
  ASSUME NEW t, NEW p, PortalTypeOK(t, p, doubt), NEW k \in Panels, NEW cleaned, NEW new
  PROVE  Renewed(InRender(k, p, cleaned, new), k, p, cleaned, new)
<1> DEFINE id == IdAfter(k, p, cleaned)
<1>1. DOMAIN p[k] = Fields
  BY DEF PortalTypeOK, Fields
<1>2. InRender(k, p, cleaned, new) = IF ReadIn(k, new) THEN Begun(k, p[k], id + 1) ELSE [p[k] EXCEPT !.id = id]
  BY DEF InRender, ReadIn, IdAfter
<1> HIDE DEF id
<1>3. CASE ReadIn(k, new)
  <2> DEFINE q == Begun(k, p[k], id + 1)
  <2>1. /\ DOMAIN q = Fields /\ SameData(q, p[k])
        /\ q.id = id + 1 /\ q.error = FALSE
        /\ ~Has(k, "quiet") => q.loading = TRUE
    BY <1>1, BegunFields
  <2> HIDE DEF q
  <2>2. InRender(k, p, cleaned, new) = q
    BY <1>2, <1>3 DEF q
  <2> QED
    BY <1>3, <2>1, <2>2 DEF id, Renewed
<1>4. CASE ~ReadIn(k, new)
  <2> DEFINE q == [p[k] EXCEPT !.id = id]
  <2>1. /\ DOMAIN q = Fields /\ SameData(q, p[k])
        /\ q.id = id /\ q.error = p[k].error /\ q.loading = p[k].loading
    BY <1>1, NumberedFields
  <2> HIDE DEF q
  <2>2. InRender(k, p, cleaned, new) = q
    BY <1>2, <1>4 DEF q
  <2> QED
    BY <1>4, <2>1, <2>2 DEF id, Renewed
<1> QED
  BY <1>3, <1>4

\* A render keeps the types, and what calls carry.
LEMMA RenderKeepsTypes ==
  ASSUME page \in PagesShown, NEW t, NEW p, NEW set, NEW more, NEW rest,
         Rendered(t, p, set, more, rest), Render(t, p, set, more, rest)
  PROVE  PortalTypeOK(scope', panel', doubt') /\ \A c \in flight' : CallFits(c, panel')
<1> DEFINE cleaned == CleanedUp(t, p, set)
           started == Started(t, p, set)
           loads == Begins(started, t, cleaned, p)
           new == more \union loads
<1>1. Becomes(t, p, cleaned, new, rest)
  BY RenderMeans, Zenon
<1>2. /\ PortalTypeOK(t, p, doubt) /\ \A c \in more \union rest : CallFits(c, p)
  BY DEF Rendered
<1>3. started \subseteq Panels
  BY DEF Started
<1>4. \A c \in loads : CallFits(c, p)
  <2> SUFFICES ASSUME NEW k \in Panels
               PROVE  CallFits(EffectLoad(k, t, cleaned, p), p)
    BY <1>3 DEF Begins
  <2>1. Asked(k, t) # None
    BY <1>2, AskedSomething
  <2> QED
    BY <2>1, EffectLoadFields DEF CallFits
<1> HIDE DEF new, cleaned, started, loads
<1>5. \A k \in Panels : /\ DOMAIN panel'[k] = Fields /\ panel'[k].shown = p[k].shown
                        /\ panel'[k].id \in Nat /\ panel'[k].told \in Nat
  <2> SUFFICES ASSUME NEW k \in Panels
               PROVE  /\ DOMAIN panel'[k] = Fields /\ panel'[k].shown = p[k].shown
                      /\ panel'[k].id \in Nat /\ panel'[k].told \in Nat
    OBVIOUS
  <2>1. panel'[k] = InRender(k, p, cleaned, new) 
    BY <1>1 DEF Becomes
  <2>2. IdAfter(k, p, cleaned) \in Nat
    BY <1>2 DEF PortalTypeOK, BumpOf, IdAfter
  <2>4. PortalTypeOK(t, p, doubt)
    BY <1>2
  <2>3. Renewed(panel'[k], k, p, cleaned, new)
    BY <2>1, <2>4, RenderedFields, Zenon
  <2>5. p[k].told \in Nat
    BY <2>4 DEF PortalTypeOK
  <2> QED
    BY <2>2, <2>3, <2>5 DEF SameData, Renewed
<1>6. \A k \in DoubtAfter(new, rest, t) : k \in Panels /\ ~Has(k, "numbered")
  BY <1>2 DEF DoubtAfter, PortalTypeOK
<1>7. PortalTypeOK(scope', panel', doubt')
  BY <1>1, <1>2, <1>5, <1>6 DEF PortalTypeOK, Fields, Becomes
<1>8. ASSUME NEW c, CallFits(c, p)
      PROVE  CallFits(c, panel')
  <2>1. c.op = "act" /\ c.of \in DOMAIN P.acts =>
          (P.acts[c.of].needs # None => P.acts[c.of].needs \in Panels)
    BY PageKnown DEF PageFormed, ActFormed, Panels
  <2> QED
    BY <1>5, <1>8, <2>1 DEF CallFits
<1> QED
  BY <1>1, <1>2, <1>4, <1>7, <1>8 DEF new, Becomes

\* An action fills no panel that numbers its requests.
LEMMA FillsPlain ==
  ASSUME page \in PagesShown, NEW c, NEW p, CallFits(c, p), NEW k \in Panels, Puts(c, k), Has(k, "numbered")
  PROVE  c.op # "act" /\ c.panel = k
<1>1. SUFFICES ASSUME c.op = "act" PROVE FALSE
  BY DEF Puts
<1>2. c.of \in DOMAIN P.acts /\ k \in P.acts[c.of].fills
  BY <1>1 DEF CallFits, Puts
<1> QED
  BY <1>2, PageKnown DEF PageFormed, ActFormed, Plain, Has, Panels

\* A panel that is not in doubt afterwards: its new read began with no other outstanding.
LEMMA NoDoubt ==
  ASSUME NEW new, NEW left, NEW t, NEW k \in Panels, k \notin DoubtAfter(new, left, t)
  PROVE  /\ (\E c \in new : Puts(c, k)) /\ ~Has(k, "numbered") =>
              (\A c \in left : ~Puts(c, k)) /\ (\A c \in new : Puts(c, k) => c.asked = Asked(k, t))
         /\ k \in doubt => ~Has(k, "numbered") /\ \E c \in new : c.op # "act" /\ c.panel = k
<1> DEFINE begun == {j \in Panels : ~Has(j, "numbered") /\ \E c \in new : Puts(c, j)}
           apart(j) ==
             \/ \E c \in left : Puts(c, j)
             \/ \E c \in new : Puts(c, j) /\ c.asked # Asked(j, t)
           read == {j \in begun : \E c \in new : c.op # "act" /\ c.panel = j}
<1>1. DoubtAfter(new, left, t) = (doubt \ read) \union {j \in begun : apart(j)}
  BY DEF DoubtAfter
<1>2. k \in begun => ~apart(k)
  BY <1>1
<1>3. k \in doubt => k \in read
  BY <1>1
<1> QED
  BY <1>2, <1>3

\* A panel whose only new call is c, a read of it for what is selected now.
LEMMA FreshRead ==
  ASSUME page \in PagesShown, NEW t, NEW p, NEW r, NEW rest, NEW new, NEW k \in Panels, NEW c \in new,
         \A d \in rest : CallFits(d, p), NumbersFit(k, p[k], rest),
         \A d \in new : Puts(d, k) => d = c,
         c.op # "act", c.panel = k, c.since = r.told, c.asked = Asked(k, t),
         c.op = "load" /\ ~Has(k, "quiet") => r.loading,
         Has(k, "numbered") => r.id > p[k].id /\ c.id = r.id /\ r.id \in Nat /\ p[k].id \in Nat,
         ~Has(k, "numbered") => \A d \in rest : ~Puts(d, k),
         NEW w
  PROVE  PanelFits(k, w, Asked(k, t), r, rest \union new)
<1>1. ASSUME NEW d \in Writers(k, r, rest \union new)
      PROVE  d = c
  <2>1. Puts(d, k) /\ (Has(k, "numbered") => d.id = r.id)
    BY DEF Writers
  <2>2. CASE d \in new
    BY <2>1, <2>2
  <2>3. CASE d \in rest /\ ~Has(k, "numbered")
    BY <2>1, <2>3
  <2>4. CASE d \in rest /\ Has(k, "numbered")
    <3>1. d.op # "act" /\ d.panel = k
      BY <2>1, <2>4, FillsPlain
    <3>2. d.id \in Nat /\ d.id <= p[k].id
      BY <3>1, <2>4 DEF NumbersFit
    <3> QED
      BY <2>1, <2>4, <3>2
  <2> QED
    BY <2>2, <2>3, <2>4 DEF Writers
<1>2. c \in Writers(k, r, rest \union new)
  BY DEF Writers, Puts
<1> QED
  BY <1>1, <1>2 DEF PanelFits

\* A panel that no new call reads. An action may have begun to fill it.
LEMMA NotRead ==
  ASSUME page \in PagesShown, NEW p, NEW r, NEW rest, NEW new, NEW k \in Panels,
         \A d \in rest \union new : CallFits(d, p), NumbersFit(k, p[k], rest),
         SameData(r, p[k]), r.error = p[k].error, r.loading = p[k].loading,
         r.id \in Nat, p[k].id \in Nat, r.id = p[k].id \/ r.id > p[k].id,
         \A d \in new : Puts(d, k) => d.op = "act",
         \A d, e \in new : Puts(d, k) /\ Puts(e, k) => d = e,
         (\E d \in new : Puts(d, k)) => \A d \in rest : ~Puts(d, k),
         NEW w, NEW asked, PanelFits(k, w, asked, p[k], rest),
         NEW now, NEW wanted, now => w /\ wanted = asked,
         Has(k, "numbered") /\ r.id # p[k].id => ~now
  PROVE  PanelFits(k, now, wanted, r, rest \union new)
<1> DEFINE W == Writers(k, r, rest \union new)
           V == Writers(k, p[k], rest)
<1>0. r.shown = p[k].shown /\ r.read = p[k].read /\ r.told = p[k].told
  BY DEF SameData
<1>1. Has(k, "numbered") => \A d \in new : ~Puts(d, k)
  BY FillsPlain
<1>2. CASE Has(k, "numbered") /\ r.id # p[k].id
  <2>1. ASSUME NEW d \in W
        PROVE  FALSE
    <3>1. d \in rest /\ Puts(d, k) /\ d.id = r.id
      BY <1>1, <1>2 DEF Writers
    <3>2. d.op # "act" /\ d.panel = k
      BY <1>2, <3>1, FillsPlain
    <3>3. d.id \in Nat /\ d.id <= p[k].id
      BY <1>2, <3>1, <3>2 DEF NumbersFit
    <3> QED
      BY <1>2, <3>1, <3>3
  <2>2. p[k].read = p[k].told
    BY <1>2 DEF NumbersFit
  <2> QED
    BY <1>0, <1>2, <2>1, <2>2 DEF PanelFits
<1>3. CASE \E d \in new : Puts(d, k)
  <2>1. PICK d \in new : Puts(d, k)
    BY <1>3
  <2>2. W \subseteq {d} /\ d.op = "act" /\ V = {}
    BY <2>1 DEF Writers
  <2>3. ~p[k].error => (w => p[k].shown = asked) /\ (p[k].shown # None => p[k].read = p[k].told)
    BY <2>2 DEF PanelFits
  <2> HIDE DEF W, V
  <2>4. /\ \A c, e \in W : c = e
        /\ \A c \in W : c.op = "act"
    BY <2>2
  <2> QED
    BY <1>0, <2>3, <2>4 DEF PanelFits, W
<1>4. CASE (\A d \in new : ~Puts(d, k)) /\ (Has(k, "numbered") => r.id = p[k].id)
  <2>1. W = V
    BY <1>4 DEF Writers
  <2> QED
    BY <1>0, <2>1 DEF PanelFits
<1> QED
  BY <1>1, <1>2, <1>3, <1>4

\* The calls that begin in a render put data into the panels that they name.
LEMMA BeginsPuts ==
  ASSUME NEW started, NEW t, NEW cleaned, NEW p, NEW c \in Begins(started, t, cleaned, p), NEW k, Puts(c, k)
  PROVE  k \in started /\ c = EffectLoad(k, t, cleaned, p) /\ c.op = "load" /\ c.panel = k
<1>1. PICK j \in started : c = EffectLoad(j, t, cleaned, p)
  BY DEF Begins
<1>2. c.op = "load" /\ c.panel = j
  BY <1>1, EffectLoadFields
<1>3. j = k
  BY <1>2 DEF Puts
<1> QED
  BY <1>1, <1>2, <1>3

\* A render keeps what is true of each panel.
LEMMA RenderKeepsPanel ==
  ASSUME page \in PagesShown, NEW t, NEW p, NEW set, NEW more, NEW rest,
         Rendered(t, p, set, more, rest), NEW k \in Panels,
         NEW r, NEW cleaned, NEW started, NEW new, NEW now, 
         cleaned = CleanedUp(t, p, set), started = Started(t, p, set),
         new = more \union Begins(started, t, cleaned, p),
         Renewed(r, k, p, cleaned, new),
         PortalTypeOK(scope, panel, doubt),
         now <=> Watched(k, t, p),
         \A c \in new : CallFits(c, p)
  PROVE  /\ NumbersFit(k, r, rest \union new)
         /\ k \notin DoubtAfter(new, rest, t) => PanelFits(k, now, Asked(k, t), r, rest \union new)
<1>1. /\ PortalTypeOK(t, p, doubt) /\ p[k].id = panel[k].id
      /\ \A c \in more \union rest : CallFits(c, p)
      /\ \A c, d \in more : c = d
      /\ \A c \in more : c.op # "act" =>
           /\ c.since = p[c.panel].told
           /\ Has(c.panel, "numbered") => c.id = p[c.panel].id + 1 /\ c.asked = Asked(c.panel, t)
      /\ more # {} => cleaned = {} /\ started = {}
      /\ NumbersFit(k, p[k], rest)
      /\ \/ k \in doubt
         \/ ~Has(k, "numbered") /\ \E c \in more : c.op # "act" /\ c.panel = k
         \/ PanelFits(k, Watched(k, scope, panel), Asked(k, scope), p[k], rest)
  BY DEF Rendered
<1>2. p[k].id \in Nat /\ BumpOf(k \in cleaned) \in {0, 1} /\ (k \notin cleaned => BumpOf(k \in cleaned) = 0)
      /\ IdAfter(k, p, cleaned) = p[k].id + BumpOf(k \in cleaned)
  BY <1>1 DEF PortalTypeOK, BumpOf, IdAfter
<1>3. /\ SameData(r, p[k])
      /\ ReadIn(k, new) =>
           r.id = IdAfter(k, p, cleaned) + 1 /\ r.error = FALSE /\ (~Has(k, "quiet") => r.loading = TRUE)
      /\ ~ReadIn(k, new) =>
           r.id = IdAfter(k, p, cleaned) /\ r.error = p[k].error /\ r.loading = p[k].loading
  BY DEF Renewed
<1>4. r.id \in Nat /\ r.id >= p[k].id
  BY <1>2, <1>3
<1>5. r.told = p[k].told /\ r.read = p[k].read
  BY <1>3 DEF SameData
<1>6. CASE k \in started
  <2> DEFINE c == EffectLoad(k, t, cleaned, p)
  <2>1. /\ c.op = "load" /\ c.panel = k /\ c.asked = Asked(k, t) /\ c.since = p[k].told
        /\ c.id = panel[k].id + BumpOf(k \in cleaned) + 1
    BY EffectLoadFields DEF NewId
  <2>2. c \in Begins(started, t, cleaned, p)
    BY <1>6 DEF Begins
  <2>3. more = {}
    BY <1>1, <1>6
  <2>4. \A d \in new : Puts(d, k) => d = c
    BY <2>3, BeginsPuts
  <2> HIDE DEF c
  <2>5. ReadIn(k, new) /\ c \in new
    BY <2>1, <2>2 DEF ReadIn
  <2>6. c.id = r.id /\ r.id > p[k].id
    BY <1>1, <1>2, <1>3, <2>1, <2>5
  <2>7. NumbersFit(k, r, rest \union new)
    <3> SUFFICES ASSUME Has(k, "numbered"), NEW d \in rest \union new, d.op # "act", d.panel = k
                 PROVE  d.id \in Nat /\ d.id <= r.id /\ d.since = r.told
      BY <1>1, <1>5 DEF NumbersFit
    <3>1. CASE d \in rest
      BY <1>1, <1>2, <1>4, <1>5, <3>1 DEF NumbersFit
    <3>2. CASE d \in new
      <4>1. d = c
        BY <2>4, <3>2 DEF Puts
      <4> QED
        BY <1>4, <1>5, <2>1, <2>6, <4>1
    <3> QED
      BY <3>1, <3>2
  <2>8. ASSUME k \notin DoubtAfter(new, rest, t)
        PROVE  PanelFits(k, now, Asked(k, t), r, rest \union new)
    <3>1. ~Has(k, "numbered") => \A d \in rest : ~Puts(d, k)
      BY <2>1, <2>5, <2>8, NoDoubt DEF Puts
    <3>2. \A d \in rest : CallFits(d, p)
      BY <1>1
    <3>3. /\ c.since = r.told /\ c.op # "act"
          /\ c.op = "load" /\ ~Has(k, "quiet") => r.loading
          /\ Has(k, "numbered") => r.id > p[k].id /\ c.id = r.id /\ r.id \in Nat /\ p[k].id \in Nat
      BY <1>2, <1>3, <1>4, <1>5, <2>1, <2>5, <2>6
    <3>4. NumbersFit(k, p[k], rest) /\ c.panel = k /\ c.asked = Asked(k, t) /\ c \in new
      BY <1>1, <2>1, <2>5
    <3> QED
      BY <2>4, <3>1, <3>2, <3>3, <3>4, FreshRead
  <2> QED
    BY <2>7, <2>8
<1>7. CASE k \notin started /\ \E c \in more : c.op # "act" /\ c.panel = k
  <2>1. PICK c \in more : c.op # "act" /\ c.panel = k
    BY <1>7
  <2>2. new = {c} /\ cleaned = {} /\ started = {}
    BY <1>1, <2>1 DEF Begins
  <2>3. c.op = "load" \/ (c.op = "reget" /\ ~Has(k, "numbered"))
    <3>1. CallFits(c, p)
      BY <1>1
    <3> QED
      BY <2>1, <3>1 DEF CallFits
  <2>4. c.op = "load" => ReadIn(k, new)
    BY <2>1, <2>2 DEF ReadIn
  <2>5. c.since = r.told
    BY <1>1, <1>5, <2>1
  <2>6. Has(k, "numbered") => c.id = r.id /\ r.id > p[k].id /\ c.asked = Asked(k, t)
    BY <1>1, <1>2, <1>3, <2>1, <2>2, <2>3, <2>4
  <2>7. NumbersFit(k, r, rest \union new)
    <3> SUFFICES ASSUME Has(k, "numbered"), NEW d \in rest \union new, d.op # "act", d.panel = k
                 PROVE  d.id \in Nat /\ d.id <= r.id /\ d.since = r.told
      BY <1>1, <1>5 DEF NumbersFit
    <3>1. CASE d \in rest
      BY <1>1, <1>2, <1>4, <1>5, <3>1 DEF NumbersFit
    <3>2. CASE d \in new
      BY <1>4, <2>2, <2>5, <2>6, <3>2
    <3> QED
      BY <3>1, <3>2
  <2>8. ASSUME k \notin DoubtAfter(new, rest, t)
        PROVE  PanelFits(k, now, Asked(k, t), r, rest \union new)
    <3>1. Puts(c, k) /\ c \in new
      BY <2>1, <2>2 DEF Puts
    <3>2. ~Has(k, "numbered") => (\A d \in rest : ~Puts(d, k)) /\ c.asked = Asked(k, t)
      BY <3>1, <2>8, NoDoubt
    <3>3. \A d \in rest : CallFits(d, p)
      BY <1>1
    <3>4. c.op = "load" /\ ~Has(k, "quiet") => r.loading
      BY <1>3, <2>4
    <3>5. \A d \in new : Puts(d, k) => d = c
      BY <2>2
    <3> QED
      BY <1>1, <1>2, <1>4, <2>1, <2>5, <2>6, <3>1, <3>2, <3>3, <3>4, <3>5, FreshRead, ZenonT(30)
  <2> QED
    BY <2>7, <2>8
<1>8. CASE k \notin started /\ ~\E c \in more : c.op # "act" /\ c.panel = k
  <2>1. \A d \in new : Puts(d, k) => d.op = "act" /\ d \in more
    <3> SUFFICES ASSUME NEW d \in new, Puts(d, k) PROVE d.op = "act" /\ d \in more
      OBVIOUS
    <3>1. d \notin Begins(started, t, cleaned, p)
      BY <1>8, BeginsPuts
    <3> QED
      BY <1>8, <3>1 DEF Puts
  <2>2. \A d \in new : ~(d.op # "act" /\ d.panel = k)
    BY <2>1 DEF Puts
  <2>3. ~ReadIn(k, new)
    BY <2>2 DEF ReadIn
  <2>4. NumbersFit(k, r, rest \union new)
    <3> SUFFICES ASSUME Has(k, "numbered"), NEW d \in rest \union new, d.op # "act", d.panel = k
                 PROVE  d.id \in Nat /\ d.id <= r.id /\ d.since = r.told
      BY <1>1, <1>5 DEF NumbersFit
    <3>1. d \in rest
      BY <2>2
    <3> QED
      BY <1>1, <1>2, <1>4, <1>5, <3>1 DEF NumbersFit
  <2>5. ASSUME k \notin DoubtAfter(new, rest, t)
        PROVE  PanelFits(k, now, Asked(k, t), r, rest \union new)
    <3>1. k \notin doubt
      BY <2>2, <2>5, NoDoubt
    <3>2. PanelFits(k, Watched(k, scope, panel), Asked(k, scope), p[k], rest)
      BY <1>1, <1>8, <3>1
    <3>3. (\E d \in new : Puts(d, k)) => \A d \in rest : ~Puts(d, k)
      <4>1. (\E d \in new : Puts(d, k)) => ~Has(k, "numbered")
        BY <2>1, FillsPlain
      <4> QED
        BY <2>5, <4>1, NoDoubt
    <3>4. now => Watched(k, scope, panel) /\ Asked(k, t) = Asked(k, scope)
      <4> SUFFICES ASSUME now PROVE Watched(k, scope, panel) /\ Asked(k, t) = Asked(k, scope)
        OBVIOUS
      <4>1. Watched(k, t, p) /\ ~Reruns(k, scope, t, panel, p, set)
        BY <1>8 DEF Started
      <4> QED
        BY <1>1, <4>1, StillWatched
    <3>5. r.id # p[k].id => ~now
      <4> SUFFICES ASSUME r.id # p[k].id, now PROVE FALSE
        OBVIOUS
      <4>1. k \in cleaned
        BY <1>2, <1>3, <2>3
      <4> QED
        BY <1>8, <4>1 DEF CleanedUp, Started
    <3>6. /\ \A d \in rest \union new : CallFits(d, p)
          /\ \A d, e \in new : Puts(d, k) /\ Puts(e, k) => d = e
          /\ r.id = p[k].id \/ r.id > p[k].id
          /\ r.error = p[k].error /\ r.loading = p[k].loading
      BY <1>1, <1>2, <1>3, <1>4, <2>1, <2>3
    <3>7. SameData(r, p[k]) /\ r.id \in Nat /\ p[k].id \in Nat /\ NumbersFit(k, p[k], rest)
          /\ \A d \in new : Puts(d, k) => d.op = "act"
      BY <1>1, <1>2, <1>3, <1>4, <2>1
    <3> QED
      BY <3>2, <3>3, <3>4, <3>5, <3>6, <3>7, NotRead, ZenonT(30)
  <2> QED
    BY <2>4, <2>5
<1> QED
  BY <1>6, <1>7, <1>8

\* A render keeps what is true of the page.
LEMMA RenderFits ==
  ASSUME page \in PagesShown, NEW t, NEW p, NEW set, NEW more, NEW rest,
         PortalTypeOK(scope, panel, doubt),
         Rendered(t, p, set, more, rest), Render(t, p, set, more, rest)
  PROVE  PortalFits(scope', panel', flight', doubt')
<1> DEFINE cleaned == CleanedUp(t, p, set)
           started == Started(t, p, set)
           new == more \union Begins(started, t, cleaned, p)
<1>1. PortalTypeOK(scope', panel', doubt') /\ \A c \in flight' : CallFits(c, panel')
  BY RenderKeepsTypes
<1>2. Becomes(t, p, cleaned, new, rest)
  BY RenderMeans, Zenon
<1>3. PortalTypeOK(t, p, doubt)
  BY DEF Rendered
<1>4. \A c \in new : CallFits(c, p)
  <2>1. \A c \in more : CallFits(c, p)
    BY DEF Rendered
  <2>2. ASSUME NEW c \in Begins(started, t, cleaned, p)
        PROVE  CallFits(c, p)
    <3>1. PICK k \in started : c = EffectLoad(k, t, cleaned, p)
      BY DEF Begins
    <3>2. k \in Panels
      BY DEF Started
    <3>3. Asked(k, t) # None
      BY <1>3, <3>2, AskedSomething
    <3> QED
      BY <3>1, <3>2, <3>3, EffectLoadFields DEF CallFits
  <2> QED
    BY <2>1, <2>2
<1> SUFFICES ASSUME NEW k \in Panels
             PROVE  /\ NumbersFit(k, panel'[k], flight')
                    /\ \/ k \in doubt'
                       \/ PanelFits(k, Watched(k, scope', panel'), Asked(k, scope'), panel'[k], flight')
  BY <1>1 DEF PortalFits
<1> HIDE DEF new, started, cleaned
<1>5. \A j \in Panels : panel'[j] = InRender(j, p, cleaned, new) /\ Renewed(panel'[j], j, p, cleaned, new)
  <2> SUFFICES ASSUME NEW j \in Panels
               PROVE  panel'[j] = InRender(j, p, cleaned, new) /\ Renewed(panel'[j], j, p, cleaned, new)
    OBVIOUS
  <2>1. panel'[j] = InRender(j, p, cleaned, new)
    BY <1>2 DEF Becomes
  <2>2. Renewed(InRender(j, p, cleaned, new), j, p, cleaned, new)
    BY <1>3, RenderedFields, Zenon
  <2> QED
    BY <2>1, <2>2
<1>6. Watched(k, t, panel') <=> Watched(k, t, p)
  <2>1. P.panels[k].after # None => panel'[P.panels[k].after].shown = p[P.panels[k].after].shown
    BY <1>5, PageKnown DEF PageFormed, PanelFormed, Panels, Renewed, SameData
  <2> QED
    BY <2>1 DEF Watched
<1>7. /\ NumbersFit(k, panel'[k], rest \union new)
      /\ k \notin DoubtAfter(new, rest, t) =>
           PanelFits(k, Watched(k, t, panel'), Asked(k, t), panel'[k], rest \union new)
  BY <1>4, <1>5, <1>6, RenderKeepsPanel DEF cleaned, started, new
<1> QED
  BY <1>2, <1>7 DEF Becomes

---------------------------------------------------------------------------
(* What every step starts from.                                          *)

\* The parts of what is true of the page.
LEMMA FitsParts ==
  ASSUME NEW s, NEW pan, NEW sent, NEW d, PortalFits(s, pan, sent, d)
  PROVE  /\ PortalTypeOK(s, pan, d)
         /\ \A c \in sent : CallFits(c, pan)
         /\ \A k \in Panels : NumbersFit(k, pan[k], sent)
         /\ \A k \in Panels : k \in d \/ PanelFits(k, Watched(k, s, pan), Asked(k, s), pan[k], sent)
BY DEF PortalFits

\* A render with the panels as they are...
LEMMA RenderedAsIs ==
  ASSUME PortalFits(scope, panel, flight, doubt), NEW t, PortalTypeOK(t, panel, doubt), NEW set
  PROVE  Rendered(t, panel, set, {}, flight)
BY FitsParts DEF Rendered

\* ... and with a click's call.
LEMMA RenderedCall ==
  ASSUME PortalFits(scope, panel, flight, doubt), NEW c, CallFits(c, panel),
         CleanedUp(scope, panel, {}) = {}, Started(scope, panel, {}) = {},
         c.op # "act" =>
           /\ c.since = panel[c.panel].told
           /\ Has(c.panel, "numbered") => c.id = panel[c.panel].id + 1 /\ c.asked = Asked(c.panel, scope)
  PROVE  Rendered(scope, panel, {}, {c}, flight)
BY FitsParts DEF Rendered

\* Panels that are there or not as before, under the same selections, run no effect.
LEMMA NoEffect ==
  ASSUME page \in PagesShown, NEW p,
         \A j, k \in Panels : P.panels[k].after = j => ((p[j].shown = None) <=> (panel[j].shown = None))
  PROVE  CleanedUp(scope, p, {}) = {} /\ Started(scope, p, {}) = {}
<1>1. ASSUME NEW k \in Panels, Reruns(k, scope, scope, panel, p, {})
      PROVE  FALSE
  <2>1. P.panels[k].after # None => P.panels[k].after \in Panels
    BY PageKnown DEF PageFormed, PanelFormed, Panels
  <2> QED
    BY <1>1, <2>1 DEF Reruns
<1> QED
  BY <1>1 DEF CleanedUp, Started

\* A panel that is there stays, unless a failure empties it.
LEMMA CallsStayFit ==
  ASSUME page \in PagesShown, NEW p, NEW q, NEW c, CallFits(c, p),
         \A k \in Panels : p[k].shown # None => Has(k, "empties") \/ q[k].shown # None
  PROVE  CallFits(c, q)
<1>1. c.op = "act" /\ c.of \in DOMAIN P.acts =>
        (P.acts[c.of].needs # None => P.acts[c.of].needs \in Panels)
  BY PageKnown DEF PageFormed, ActFormed, Panels
<1> QED
  BY <1>1 DEF CallFits

\* A tab or a value that is selected is of the page.
LEMMA TypedScope ==
  ASSUME NEW p, PortalTypeOK(scope, p, doubt)
  PROVE  /\ \A tab \in DOMAIN P.tabs : PortalTypeOK([scope EXCEPT !.tab = tab], p, doubt)
         /\ \A d \in DOMAIN P.starts, v \in Values : PortalTypeOK([scope EXCEPT !.at[d] = v], p, doubt)
<1>1. ASSUME NEW tab \in DOMAIN P.tabs
      PROVE  PortalTypeOK([scope EXCEPT !.tab = tab], p, doubt)
  <2> DEFINE s == [scope EXCEPT !.tab = tab]
  <2>1. DOMAIN s = {"tab", "at"} /\ s.tab = tab /\ s.at = scope.at
    BY DEF PortalTypeOK
  <2> HIDE DEF s
  <2> QED
    BY <2>1 DEF PortalTypeOK, s
<1>2. ASSUME NEW d \in DOMAIN P.starts, NEW v \in Values
      PROVE  PortalTypeOK([scope EXCEPT !.at[d] = v], p, doubt)
  <2> DEFINE s == [scope EXCEPT !.at[d] = v]
  <2>1. DOMAIN s = {"tab", "at"} /\ s.tab = scope.tab /\ s.at = [scope.at EXCEPT ![d] = v]
    BY DEF PortalTypeOK
  <2> HIDE DEF s
  <2>2. s.at \in [DOMAIN P.starts -> Values \union {None}]
    BY <2>1 DEF PortalTypeOK
  <2> QED
    BY <2>1, <2>2 DEF PortalTypeOK, s
<1> QED
  BY <1>1, <1>2

\* What a request carries.
LEMMA RequestFields ==
  \A op, k, asked, id, since, of, r :
    LET c == Request(op, k, asked, id, since, of, r) IN
      c.op = op /\ c.panel = k /\ c.asked = asked /\ c.id = id /\ c.since = since /\ c.of = of
BY DEF Request

---------------------------------------------------------------------------
(* The operator's steps.                                                   *)

\* Another tab: its effects begin, and those of the tab left are cleaned up.
LEMMA SelectTabFits ==
  ASSUME page \in PagesShown, PortalFits(scope, panel, flight, doubt),
         NEW tab \in DOMAIN P.tabs, SelectTab(tab)
  PROVE  PortalInv'
<1>1. PortalTypeOK([scope EXCEPT !.tab = tab], panel, doubt)
  BY FitsParts, TypedScope
<1>2. Rendered([scope EXCEPT !.tab = tab], panel, {}, {}, flight)
  BY <1>1, RenderedAsIs
<1>3. Render([scope EXCEPT !.tab = tab], panel, {}, {}, flight) /\ page' = page
  BY DEF SelectTab
<1>4. PortalFits(scope', panel', flight', doubt')
  BY <1>2, <1>3, FitsParts, RenderFits
<1> QED
  BY <1>3, <1>4, FitsStay

\* Another ship, area, filter or range.
LEMMA SelectFits ==
  ASSUME page \in PagesShown, PortalFits(scope, panel, flight, doubt),
         NEW d \in DOMAIN P.starts, NEW v \in Values, Select(d, v)
  PROVE  PortalInv'
<1>1. PortalTypeOK([scope EXCEPT !.at[d] = v], panel, doubt)
  BY FitsParts, TypedScope
<1>2. Rendered([scope EXCEPT !.at[d] = v], panel, {}, {}, flight)
  BY <1>1, RenderedAsIs
<1>3. Render([scope EXCEPT !.at[d] = v], panel, {}, {}, flight) /\ page' = page
  BY DEF Select
<1>4. PortalFits(scope', panel', flight', doubt')
  BY <1>2, <1>3, FitsParts, RenderFits
<1> QED
  BY <1>3, <1>4, FitsStay

\* A button that reads a panel again.
LEMMA RefetchFits ==
  ASSUME page \in PagesShown, PortalFits(scope, panel, flight, doubt),
         NEW k \in Panels, Refetch(k)
  PROVE  PortalInv'
<1> DEFINE c == Reading(k, Asked(k, scope), None, None)
<1>1. /\ c.op = "load" /\ c.panel = k /\ c.asked = Asked(k, scope)
      /\ c.id = panel[k].id + 1 /\ c.since = panel[k].told
  BY RequestFields DEF Reading
<1>2. Render(scope, panel, {}, {c}, flight) /\ page' = page
  BY DEF Refetch
<1> HIDE DEF c
<1>3. PortalTypeOK(scope, panel, doubt)
  BY FitsParts
<1>4. CallFits(c, panel)
  BY <1>1, <1>3, AskedSomething DEF CallFits
<1>5. CleanedUp(scope, panel, {}) = {} /\ Started(scope, panel, {}) = {}
  BY NoEffect
<1>6. Rendered(scope, panel, {}, {c}, flight)
  BY <1>1, <1>4, <1>5, RenderedCall
<1>7. PortalFits(scope', panel', flight', doubt')
  BY <1>2, <1>3, <1>6, RenderFits
<1> QED
  BY <1>2, <1>7, FitsStay

\* An action of the operator begins.
LEMMA ActFits ==
  ASSUME page \in PagesShown, PortalFits(scope, panel, flight, doubt),
         NEW name \in DOMAIN P.acts, NEW r, Act(name, r)
  PROVE  PortalInv'
<1> DEFINE a == P.acts[name]
           asked == IF a.reloads = None THEN <<>> ELSE Asked(a.reloads, scope)
           c == Request("act", None, asked, clicks', 0, name, r)
<1>1. c.op = "act" /\ c.of = name /\ c.asked = asked
  BY RequestFields
<1>2. Render(scope, panel, {}, {c}, flight) /\ page' = page
  BY DEF Act
<1>3. a.needs # None => panel[a.needs].shown # None
  BY DEF Act, Drawn
<1> HIDE DEF c
<1>4. PortalTypeOK(scope, panel, doubt)
  BY FitsParts
<1>5. a.reloads # None => a.reloads \in Panels
  BY PageKnown DEF PageFormed, ActFormed, Plain, Panels
<1>6. a.reloads # None => asked # None
  BY <1>4, <1>5, AskedSomething
<1>7. CallFits(c, panel)
  BY <1>1, <1>3, <1>6 DEF CallFits
<1>8. CleanedUp(scope, panel, {}) = {} /\ Started(scope, panel, {}) = {}
  BY NoEffect
<1>9. Rendered(scope, panel, {}, {c}, flight)
  BY <1>1, <1>7, <1>8, RenderedCall
<1>10. PortalFits(scope', panel', flight', doubt')
  BY <1>2, <1>4, <1>9, RenderFits
<1> QED
  BY <1>2, <1>10, FitsStay

\* No page is open afterwards.
LEMMA LeaveFits ==
  ASSUME Leave
  PROVE  PortalInv'
<1>1. "closed" \notin DOMAIN Pages
  BY DEF Pages
<1> QED
  BY <1>1, PortalOK DEF Leave, PortalInv

---------------------------------------------------------------------------
(* The answers.                                                          *)

\* The panel after an answer to a load.
Updated(q, r, c, ok) ==
    /\ DOMAIN q = Fields /\ q.told = r.told /\ q.id = r.id
    /\ ok => q.shown = c.asked /\ q.read = c.since
    /\ ~ok => q.error = TRUE /\ q.read = r.read
              /\ (~Has(c.panel, "empties") => q.shown = r.shown)

\* A panel after an answer is that.
LEMMA AnswerFields ==
  ASSUME NEW c, NEW r, DOMAIN r = Fields, NEW ok \in BOOLEAN
  PROVE  Updated(AfterAnswer(c, r, ok), r, c, ok)
BY DEF AfterAnswer, Fields, Updated

\* A call that is answered was the panel's only one.
LEMMA LastWriter ==
  ASSUME NEW k, NEW w, NEW asked, NEW r, NEW sent, PanelFits(k, w, asked, r, sent),
         NEW c \in Writers(k, r, sent), NEW q, q.id = r.id
  PROVE  Writers(k, q, sent \ {c}) = {}
BY DEF PanelFits, Writers

\* A call that is answered elsewhere changes nothing here.
LEMMA OtherWriters ==
  ASSUME NEW k, NEW r, NEW q, q.id = r.id, NEW sent, NEW c, c \notin Writers(k, r, sent)
  PROVE  Writers(k, q, sent \ {c}) = Writers(k, r, sent)
BY DEF Writers

\* Fewer calls outstanding, the numbers still fit.
LEMMA FewerNumbersFit ==
  ASSUME NEW k, NEW r, NEW sent, NumbersFit(k, r, sent), NEW c
  PROVE  NumbersFit(k, r, sent \ {c})
BY DEF NumbersFit

\* An answer that is current: the panel shows it, or the error notice is up.
LEMMA LoadAnswered ==
  ASSUME page \in PagesShown, PortalFits(scope, panel, flight, doubt),
         NEW c \in flight, c.op = "load", NEW ok \in BOOLEAN, IsCurrent(c),
         NEW p, p = [panel EXCEPT ![c.panel] = AfterAnswer(c, @, ok)],
         NEW t, PortalTypeOK(t, panel, doubt), NEW set
  PROVE  Rendered(t, p, set, {}, flight \ {c})
<1>1. /\ PortalTypeOK(scope, panel, doubt) /\ CallFits(c, panel)
      /\ \A d \in flight : CallFits(d, panel)
      /\ \A k \in Panels : NumbersFit(k, panel[k], flight)
      /\ \A k \in Panels :
           k \in doubt \/ PanelFits(k, Watched(k, scope, panel), Asked(k, scope), panel[k], flight)
  BY FitsParts
<1>2. c.panel \in Panels /\ c.asked # None
  BY <1>1 DEF CallFits
<1> DEFINE k == c.panel
           q == AfterAnswer(c, panel[k], ok)
<1>20. DOMAIN panel[k] = Fields
  BY <1>1, <1>2 DEF PortalTypeOK, Fields
<1>21. Updated(q, panel[k], c, ok)
  BY <1>20, AnswerFields, Zenon
<1>3. /\ DOMAIN panel = Panels
      /\ \A j \in Panels : DOMAIN panel[j] = Fields /\ panel[j].id \in Nat /\ panel[j].told \in Nat
  BY <1>1 DEF PortalTypeOK, Fields
<1>4. /\ DOMAIN q = Fields /\ q.told = panel[k].told /\ q.id = panel[k].id
      /\ ok => q.shown = c.asked /\ q.read = c.since
      /\ ~ok => q.error = TRUE /\ q.read = panel[k].read
                /\ (~Has(k, "empties") => q.shown = panel[k].shown)
  BY <1>21 DEF Updated
<1> HIDE DEF q
<1>5. DOMAIN p = Panels /\ p[k] = q /\ \A j \in Panels : j # k => p[j] = panel[j]
  BY <1>2, <1>3 DEF q
<1>6. PortalTypeOK(t, p, doubt)
  BY <1>3, <1>4, <1>5 DEF PortalTypeOK, Fields
<1>7. \A j \in Panels : p[j].id = panel[j].id
  BY <1>4, <1>5
<1>8. \A d \in flight \ {c} : CallFits(d, p)
  <2>1. \A j \in Panels : panel[j].shown # None => Has(j, "empties") \/ p[j].shown # None
    BY <1>2, <1>4, <1>5
  <2> QED
    BY <1>1, <2>1, CallsStayFit
<1>9. ASSUME NEW j \in Panels
      PROVE  /\ NumbersFit(j, p[j], flight \ {c})
             /\ j \in doubt \/ PanelFits(j, Watched(j, scope, panel), Asked(j, scope), p[j], flight \ {c})
  <2>1. CASE j # k
    <3>1. NumbersFit(j, p[j], flight \ {c}) /\ p[j] = panel[j]
      BY <1>1, <1>5, <2>1, FewerNumbersFit
    <3>2. c \notin Writers(j, panel[j], flight)
      BY <2>1 DEF Writers, Puts
    <3> QED
      BY <1>1, <3>1, <3>2, OtherWriters DEF PanelFits
  <2>2. CASE j = k
    <3>1. NumbersFit(k, p[k], flight \ {c})
      BY <1>1, <1>2, <1>4, <1>5 DEF NumbersFit
    <3>2. ASSUME k \notin doubt
          PROVE  PanelFits(k, Watched(k, scope, panel), Asked(k, scope), p[k], flight \ {c})
      <4>1. PanelFits(k, Watched(k, scope, panel), Asked(k, scope), panel[k], flight)
        BY <1>1, <1>2, <3>2
      <4>2. c \in Writers(k, panel[k], flight)
        BY DEF Writers, Puts, IsCurrent
      <4>3. (Watched(k, scope, panel) => c.asked = Asked(k, scope)) /\ c.since = panel[k].told
        BY <4>1, <4>2 DEF PanelFits
      <4>4. Writers(k, q, flight \ {c}) = {}
        BY <1>4, <4>1, <4>2, LastWriter
      <4> QED
        BY <1>4, <1>5, <4>3, <4>4 DEF PanelFits
    <3> QED
      BY <2>2, <3>1, <3>2
  <2> QED
    BY <2>1, <2>2
<1> QED
  BY <1>6, <1>7, <1>8, <1>9 DEF Rendered

\* An answer that a newer request has outdated changes no panel.
LEMMA LoadOutdated ==
  ASSUME page \in PagesShown, PortalFits(scope, panel, flight, doubt),
         NEW c \in flight, c.op = "load", ~IsCurrent(c),
         NEW t, PortalTypeOK(t, panel, doubt), NEW set
  PROVE  Rendered(t, panel, set, {}, flight \ {c})
<1>1. /\ \A d \in flight : CallFits(d, panel)
      /\ \A k \in Panels : NumbersFit(k, panel[k], flight)
      /\ \A k \in Panels :
           k \in doubt \/ PanelFits(k, Watched(k, scope, panel), Asked(k, scope), panel[k], flight)
  BY FitsParts
<1>2. ASSUME NEW k \in Panels
      PROVE  /\ NumbersFit(k, panel[k], flight \ {c})
             /\ k \in doubt \/ PanelFits(k, Watched(k, scope, panel), Asked(k, scope), panel[k], flight \ {c})
  <2>1. c \notin Writers(k, panel[k], flight)
    BY DEF Writers, Puts, IsCurrent
  <2>2. NumbersFit(k, panel[k], flight \ {c})
    BY <1>1, FewerNumbersFit
  <2> QED
    BY <1>1, <2>1, <2>2, OtherWriters DEF PanelFits
<1> QED
  BY <1>1, <1>2 DEF Rendered

\* A notice that goes up at another panel changes nothing else.
LEMMA ErrorRendered ==
  ASSUME page \in PagesShown, NEW t, NEW p, NEW set, NEW left, Rendered(t, p, set, {}, left), NEW x
  PROVE  Rendered(t, [p EXCEPT ![x].error = TRUE], set, {}, left)
<1> DEFINE q == [p EXCEPT ![x].error = TRUE]
<1>1. /\ PortalTypeOK(t, p, doubt) /\ \A k \in Panels : p[k].id = panel[k].id
      /\ \A c \in left : CallFits(c, p)
      /\ \A k \in Panels :
           /\ NumbersFit(k, p[k], left)
           /\ k \in doubt \/ PanelFits(k, Watched(k, scope, panel), Asked(k, scope), p[k], left)
  BY DEF Rendered
<1>2. DOMAIN p = Panels /\ \A k \in Panels : DOMAIN p[k] = Fields
  BY <1>1 DEF PortalTypeOK, Fields
<1>3. ASSUME NEW k \in Panels
      PROVE  /\ DOMAIN q[k] = Fields
             /\ q[k].shown = p[k].shown /\ q[k].read = p[k].read /\ q[k].told = p[k].told
             /\ q[k].id = p[k].id /\ q[k].loading = p[k].loading /\ (p[k].error => q[k].error)
  <2>1. q[k] = IF k = x THEN [p[k] EXCEPT !.error = TRUE] ELSE p[k]
    BY <1>2
  <2> HIDE DEF q
  <2>2. CASE k = x
    BY <1>2, <2>1, <2>2 DEF Fields
  <2>3. CASE k # x
    BY <1>2, <2>1, <2>3
  <2> QED
    BY <2>2, <2>3
<1>4. DOMAIN q = Panels
  BY <1>2
<1> HIDE DEF q
<1>5. PortalTypeOK(t, q, doubt)
  BY <1>1, <1>3, <1>4 DEF PortalTypeOK, Fields
<1>6. \A c \in left : CallFits(c, q)
  BY <1>1, <1>3, CallsStayFit
<1>7. ASSUME NEW k \in Panels
      PROVE  /\ NumbersFit(k, q[k], left)
             /\ k \in doubt \/ PanelFits(k, Watched(k, scope, panel), Asked(k, scope), q[k], left)
  <2>1. NumbersFit(k, q[k], left)
    BY <1>1, <1>3 DEF NumbersFit
  <2>2. Writers(k, q[k], left) = Writers(k, p[k], left)
    BY <1>3 DEF Writers
  <2>3. ASSUME PanelFits(k, Watched(k, scope, panel), Asked(k, scope), p[k], left)
        PROVE  PanelFits(k, Watched(k, scope, panel), Asked(k, scope), q[k], left)
    BY <1>3, <2>2, <2>3 DEF PanelFits
  <2> QED
    BY <1>1, <2>1, <2>3
<1>8. \A k \in Panels : q[k].id = panel[k].id
  BY <1>1, <1>3
<1> QED
  BY <1>5, <1>6, <1>7, <1>8 DEF Rendered, q

\* The answer to a load.
LEMMA LoadAnswerFits ==
  ASSUME page \in PagesShown, PortalFits(scope, panel, flight, doubt), LoadAnswer
  PROVE  PortalInv'
<1>1. PICK c \in flight, ok \in BOOLEAN :
        /\ c.op = "load"
        /\ \E t \in Scopes(c.panel, ok) :
             IF IsCurrent(c)
             THEN Render(t, AfterLoad(c, ok), IF ok THEN {c.panel} ELSE {}, {}, flight \ {c})
             ELSE Render(t, panel, {}, {}, flight \ {c})
        /\ page' = page
  BY Zenon DEF LoadAnswer
<1>2. PICK t \in Scopes(c.panel, ok) :
        IF IsCurrent(c)
        THEN Render(t, AfterLoad(c, ok), IF ok THEN {c.panel} ELSE {}, {}, flight \ {c})
        ELSE Render(t, panel, {}, {}, flight \ {c})
  BY <1>1
<1>3. PortalTypeOK(scope, panel, doubt) /\ CallFits(c, panel)
  BY FitsParts
<1>4. PortalTypeOK(t, panel, doubt)
  <2>1. c.panel \in Panels
    BY <1>1, <1>3 DEF CallFits
  <2>2. P.panels[c.panel].picks # None => P.panels[c.panel].picks \in DOMAIN P.starts
    BY <2>1, PageKnown DEF PageFormed, PanelFormed, Panels
  <2> QED
    BY <1>2, <1>3, <2>2, TypedScope DEF Scopes
<1>5. PortalFits(scope', panel', flight', doubt')
  <2>1. CASE IsCurrent(c)
    <3> DEFINE p == [panel EXCEPT ![c.panel] = AfterAnswer(c, @, ok)]
               list == P.panels[c.panel].picks
               set == IF ok THEN {c.panel} ELSE {}
    <3>1. Render(t, AfterLoad(c, ok), set, {}, flight \ {c})
      BY <1>2, <2>1
    <3>2. Rendered(t, p, set, {}, flight \ {c})
      BY <1>1, <1>4, <2>1, LoadAnswered
    <3>3. AfterLoad(c, ok) \in {p, [p EXCEPT ![list].error = TRUE]}
      BY DEF AfterLoad
    <3> HIDE DEF p, list, set
    <3>4. Rendered(t, AfterLoad(c, ok), set, {}, flight \ {c})
      BY <3>2, <3>3, ErrorRendered
    <3> QED
      BY <1>3, <3>1, <3>4, RenderFits
  <2>2. CASE ~IsCurrent(c)
    <3>1. Render(t, panel, {}, {}, flight \ {c})
      BY <1>2, <2>2
    <3>2. Rendered(t, panel, {}, {}, flight \ {c})
      BY <1>1, <1>4, <2>2, LoadOutdated
    <3> QED
      BY <1>3, <3>1, <3>2, RenderFits
  <2> QED
    BY <2>1, <2>2
<1> QED
  BY <1>1, <1>5, FitsStay

\* The answer to the read of one record: without a notice, a failure leaves doubt.
LEMMA RegetAnswerFits ==
  ASSUME page \in PagesShown, PortalFits(scope, panel, flight, doubt), RegetAnswer
  PROVE  PortalInv'
<1>1. PICK c \in flight, ok \in BOOLEAN :
        /\ c.op = "reget"
        /\ panel' = IF ok
                    THEN [panel EXCEPT ![c.panel].shown = c.asked, ![c.panel].read = c.since]
                    ELSE panel
        /\ flight' = flight \ {c}
        /\ doubt' = IF ok THEN doubt ELSE doubt \union {c.panel}
        /\ page' = page /\ scope' = scope
  BY DEF RegetAnswer
<1>2. /\ PortalTypeOK(scope, panel, doubt) /\ CallFits(c, panel)
      /\ \A d \in flight : CallFits(d, panel)
      /\ \A k \in Panels : NumbersFit(k, panel[k], flight)
      /\ \A k \in Panels :
           k \in doubt \/ PanelFits(k, Watched(k, scope, panel), Asked(k, scope), panel[k], flight)
  BY FitsParts
<1> DEFINE k == c.panel
<1>3. k \in Panels /\ c.asked # None /\ ~Has(k, "numbered") /\ panel[k].shown # None
  BY <1>1, <1>2 DEF CallFits
<1>4. /\ DOMAIN panel = Panels
      /\ \A j \in Panels : DOMAIN panel[j] = Fields /\ panel[j].id \in Nat /\ panel[j].told \in Nat
  BY <1>2 DEF PortalTypeOK, Fields
<1>5. /\ DOMAIN panel' = Panels /\ \A j \in Panels : j # k => panel'[j] = panel[j]
      /\ ok => panel'[k].shown = c.asked /\ panel'[k].read = c.since
      /\ ~ok => panel'[k] = panel[k]
      /\ DOMAIN panel'[k] = Fields /\ panel'[k].id = panel[k].id /\ panel'[k].told = panel[k].told
  BY <1>1, <1>3, <1>4 DEF Fields
<1> HIDE DEF k
<1>6. PortalTypeOK(scope', panel', doubt')
  BY <1>1, <1>2, <1>3, <1>4, <1>5 DEF PortalTypeOK, Fields, k
<1>7. \A j \in Panels : (panel'[j].shown = None) <=> (panel[j].shown = None)
  BY <1>3, <1>5
<1>8. \A d \in flight' : CallFits(d, panel')
  <2> SUFFICES ASSUME NEW d \in flight PROVE CallFits(d, panel')
    BY <1>1
  <2>1. CallFits(d, panel)
    BY <1>2
  <2> QED
    BY <1>7, <2>1, CallsStayFit
<1>9. ASSUME NEW j \in Panels
      PROVE  /\ NumbersFit(j, panel'[j], flight')
             /\ j \in doubt' \/ PanelFits(j, Watched(j, scope', panel'), Asked(j, scope'), panel'[j], flight')
  <2>1. Watched(j, scope', panel') <=> Watched(j, scope, panel)
    BY <1>1, <1>7, PageKnown DEF Watched, PageFormed, PanelFormed, Panels
  <2>2. CASE j # k
    <3>1. NumbersFit(j, panel'[j], flight') /\ panel'[j] = panel[j]
      BY <1>1, <1>2, <1>5, <2>2, FewerNumbersFit
    <3>2. c \notin Writers(j, panel[j], flight)
      BY <1>1, <2>2 DEF Writers, Puts, k
    <3>3. Writers(j, panel'[j], flight') = Writers(j, panel[j], flight)
      BY <1>1, <3>1, <3>2, OtherWriters
    <3>4. j \in doubt \/ PanelFits(j, Watched(j, scope, panel), Asked(j, scope), panel[j], flight)
      BY <1>2
    <3>5. j \in doubt => j \in doubt'
      BY <1>1
    <3> QED
      BY <1>1, <2>1, <3>1, <3>3, <3>4, <3>5 DEF PanelFits
  <2>3. CASE j = k
    <3>1. NumbersFit(k, panel'[k], flight')
      BY <1>3 DEF NumbersFit
    <3>2. ASSUME k \notin doubt'
          PROVE  PanelFits(k, Watched(k, scope', panel'), Asked(k, scope'), panel'[k], flight')
      <4>1. ok /\ PanelFits(k, Watched(k, scope, panel), Asked(k, scope), panel[k], flight)
        BY <1>1, <1>2, <1>3, <3>2 DEF k
      <4>2. c \in Writers(k, panel[k], flight)
        BY <1>1, <1>3 DEF Writers, Puts, k
      <4>3. (Watched(k, scope, panel) => c.asked = Asked(k, scope)) /\ c.since = panel[k].told
        BY <1>1, <4>1, <4>2 DEF PanelFits
      <4>4. Writers(k, panel'[k], flight \ {c}) = {}
        BY <1>5, <4>1, <4>2, LastWriter
      <4> QED
        BY <1>1, <1>5, <2>1, <2>3, <4>1, <4>3, <4>4 DEF PanelFits
    <3> QED
      BY <2>3, <3>1, <3>2
  <2> QED
    BY <2>2, <2>3
<1>10. PortalFits(scope', panel', flight', doubt')
  BY <1>6, <1>8, <1>9 DEF PortalFits
<1> QED
  BY <1>1, <1>10, FitsStay

\* A change that failed leaves the data.
LEMMA ActFailedFits ==
  ASSUME page \in PagesShown, PortalFits(scope, panel, flight, doubt),
         NEW c \in flight, c.op = "act", ActFailed(c), page' = page
  PROVE  PortalInv'
<1> DEFINE a == P.acts[c.of]
<1>1. /\ panel' = IF a.reports = None THEN panel
                  ELSE [panel EXCEPT ![a.reports].error = TRUE]
      /\ flight' = flight \ {c} /\ doubt' = doubt /\ scope' = scope
  BY DEF ActFailed
<1>2. /\ PortalTypeOK(scope, panel, doubt) /\ CallFits(c, panel)
      /\ \A d \in flight : CallFits(d, panel)
      /\ \A k \in Panels : NumbersFit(k, panel[k], flight)
      /\ \A k \in Panels :
           k \in doubt \/ PanelFits(k, Watched(k, scope, panel), Asked(k, scope), panel[k], flight)
  BY FitsParts
<1> HIDE DEF a
<1>3. /\ DOMAIN panel = Panels
      /\ \A j \in Panels : DOMAIN panel[j] = Fields /\ panel[j].id \in Nat /\ panel[j].told \in Nat
  BY <1>2 DEF PortalTypeOK, Fields
<1>4. /\ DOMAIN panel' = Panels
      /\ \A j \in Panels : /\ DOMAIN panel'[j] = Fields /\ SameData(panel'[j], panel[j])
                           /\ panel'[j].id = panel[j].id /\ panel'[j].loading = panel[j].loading
                           /\ panel[j].error => panel'[j].error
  BY <1>1, <1>3 DEF Fields, SameData
<1>5. PortalTypeOK(scope', panel', doubt')
  BY <1>1, <1>2, <1>3, <1>4 DEF PortalTypeOK, Fields, SameData
<1>6. \A j \in Panels : panel'[j].shown = panel[j].shown
  BY <1>4 DEF SameData
<1>7. \A d \in flight' : CallFits(d, panel')
  <2> SUFFICES ASSUME NEW d \in flight PROVE CallFits(d, panel')
    BY <1>1
  <2>1. CallFits(d, panel)
    BY <1>2
  <2> QED
    BY <1>6, <2>1, CallsStayFit
<1>8. ASSUME NEW j \in Panels
      PROVE  /\ NumbersFit(j, panel'[j], flight')
             /\ j \in doubt' \/ PanelFits(j, Watched(j, scope', panel'), Asked(j, scope'), panel'[j], flight')
  <2> DEFINE r == panel[j]
             q == panel'[j]
  <2>1. /\ q.shown = r.shown /\ q.read = r.read /\ q.told = r.told
        /\ q.id = r.id /\ q.loading = r.loading /\ (r.error => q.error)
    BY <1>4 DEF SameData
  <2>2. Watched(j, scope', panel') <=> Watched(j, scope, panel)
    BY <1>1, <1>6, PageKnown DEF Watched, PageFormed, PanelFormed, Panels
  <2>3. NumbersFit(j, r, flight)
    BY <1>2
  <2> HIDE DEF q, r
  <2>4. NumbersFit(j, q, flight \ {c})
    BY <2>1, <2>3 DEF NumbersFit
  <2>5. ASSUME NEW w, NEW asked, PanelFits(j, w, asked, r, flight)
        PROVE  PanelFits(j, w, asked, q, flight \ {c})
    <3>1. Writers(j, q, flight \ {c}) = Writers(j, r, flight) \ {c}
      BY <2>1 DEF Writers
    <3> QED
      BY <2>1, <2>5, <3>1 DEF PanelFits
  <2>6. j \in doubt \/ PanelFits(j, Watched(j, scope, panel), Asked(j, scope), r, flight)
    BY <1>2 DEF r
  <2>7. j \in doubt \/ PanelFits(j, Watched(j, scope, panel), Asked(j, scope), q, flight \ {c})
    BY <2>5, <2>6
  <2>8. j \in doubt \/ PanelFits(j, Watched(j, scope', panel'), Asked(j, scope), q, flight \ {c})
    BY <2>2, <2>7 DEF PanelFits
  <2> QED
    BY <1>1, <2>4, <2>8 DEF q
<1>9. PortalFits(scope', panel', flight', doubt')
  BY <1>5, <1>7, <1>8 DEF PortalFits
<1> QED
  BY <1>9, FitsStay

\* The panels after a change.
Changed(q, r, k, name) ==
    /\ DOMAIN q = Fields /\ q.id = r.id /\ q.loading = r.loading /\ q.error = r.error
    /\ q.told \in Nat /\ (k \notin Targets(name) => q.told = r.told)
    /\ k \in P.acts[name].fills => q.shown = Asked(k, scope) /\ (k \in Targets(name) => q.read = q.told)
    /\ k \notin P.acts[name].fills => q.shown = r.shown /\ q.read = r.read

\* What a panel becomes by a change.
LEMMA ChangeFields ==
  ASSUME NEW name, NEW k \in Panels, DOMAIN panel[k] = Fields, panel[k].told \in Nat
  PROVE  Changed(AfterChange(name)[k], panel[k], k, name)
<1> DEFINE r == panel[k]
           told == r.told + BumpOf(k \in Targets(name))
           read == IF k \in P.acts[name].fills THEN r.told + 1 ELSE r.read
           shown == IF k \in P.acts[name].fills THEN Asked(k, scope) ELSE r.shown
           q == [r EXCEPT !.told = told, !.read = read, !.shown = shown]
<1>1. AfterChange(name)[k] =
        [r EXCEPT !.told = r.told + BumpOf(k \in Targets(name)), !.read = read, !.shown = shown]
  BY DEF AfterChange
<1>2. told \in Nat /\ (k \in Targets(name) => told = r.told + 1) /\ (k \notin Targets(name) => told = r.told)
  BY DEF BumpOf
<1> HIDE DEF told, read, shown, r
<1>3. /\ DOMAIN q = Fields /\ q.told = told /\ q.read = read /\ q.shown = shown
      /\ q.id = r.id /\ q.loading = r.loading /\ q.error = r.error
  BY DEF Fields, r
<1>4. AfterChange(name)[k] = q
  BY <1>1 DEF told
<1> HIDE DEF q
<1> QED
  BY <1>2, <1>3, <1>4 DEF Changed, told, read, shown, r

\* A change, and what its handler reads next.
LEMMA ChangeRendered ==
  ASSUME page \in PagesShown, PortalFits(scope, panel, flight, doubt),
         NEW c \in flight, c.op = "act",
         NEW pan, pan = AfterChange(c.of), NEW more,
         \A d, e \in more : d = e,
         \A d \in more : /\ CallFits(d, pan) /\ d.op # "act" /\ ~Has(d.panel, "numbered")
                         /\ d.since = pan[d.panel].told,
         \A k \in Panels : k \in Targets(c.of) => k \in P.acts[c.of].fills \/ \E d \in more : d.panel = k
  PROVE  Rendered(scope, pan, {}, more, flight \ {c})
<1> DEFINE a == P.acts[c.of]
           name == c.of
<1>1. /\ PortalTypeOK(scope, panel, doubt) /\ CallFits(c, panel)
      /\ \A d \in flight : CallFits(d, panel)
      /\ \A k \in Panels : NumbersFit(k, panel[k], flight)
      /\ \A k \in Panels :
           k \in doubt \/ PanelFits(k, Watched(k, scope, panel), Asked(k, scope), panel[k], flight)
  BY FitsParts
<1>2. /\ DOMAIN panel = Panels
      /\ \A j \in Panels : DOMAIN panel[j] = Fields /\ panel[j].id \in Nat /\ panel[j].told \in Nat
  BY <1>1 DEF PortalTypeOK, Fields
<1>3. \A k \in Panels : Changed(pan[k], panel[k], k, name)
  BY <1>2, ChangeFields
<1>4. DOMAIN pan = Panels
  BY DEF AfterChange
<1>5. name \in DOMAIN P.acts /\ (a.needs # None => Has(a.needs, "empties") \/ panel[a.needs].shown # None)
  BY <1>1 DEF CallFits
<1>6. ActFormed(P, a)
  BY <1>5, PageKnown DEF PageFormed
<1> HIDE DEF a, name
<1>7. PortalTypeOK(scope, pan, doubt)
  BY <1>1, <1>2, <1>3, <1>4 DEF PortalTypeOK, Fields, Changed
<1>8. \A k \in Panels : Asked(k, scope) # None
  BY <1>1, AskedSomething
<1>9. \A k \in Panels : panel[k].shown # None => pan[k].shown # None
  BY <1>3, <1>8 DEF Changed
<1>10. \A d \in more \union (flight \ {c}) : CallFits(d, pan)
  <2>1. ASSUME NEW d \in flight
        PROVE  CallFits(d, pan)
    BY <1>1, <1>9, CallsStayFit
  <2> QED
    BY <2>1
<1>11. ASSUME NEW j \in Panels, NEW k \in Panels, P.panels[k].after = j
       PROVE  (pan[j].shown = None) <=> (panel[j].shown = None)
  <2>1. CASE j \notin a.fills
    BY <1>3, <2>1 DEF Changed, a, name
  <2>2. CASE j \in a.fills
    <3>1. j # None
      BY PortalOK DEF Panels, P
    <3>2. Lasting(P, j) /\ a.needs = j
      BY <1>6, <1>11, <2>2, <3>1 DEF ActFormed, Panels
    <3>3. panel[j].shown # None
      BY <1>5, <3>1, <3>2 DEF Lasting, Has
    <3> QED
      BY <1>9, <3>3
  <2> QED
    BY <2>1, <2>2
<1>12. CleanedUp(scope, pan, {}) = {} /\ Started(scope, pan, {}) = {}
  BY <1>11, NoEffect
<1>13. ASSUME NEW k \in Panels
       PROVE  /\ NumbersFit(k, pan[k], flight \ {c})
              /\ \/ k \in doubt
                 \/ ~Has(k, "numbered") /\ \E d \in more : d.op # "act" /\ d.panel = k
                 \/ PanelFits(k, Watched(k, scope, panel), Asked(k, scope), pan[k], flight \ {c})
  <2> DEFINE q == pan[k]
             r == panel[k]
  <2>1. Changed(q, r, k, name)
    BY <1>3
  <2>2. k # None
    BY PortalOK DEF Panels, P
  <2>3. k \in a.fills => k \in Targets(name) /\ ~Has(k, "numbered")
    BY <1>6, <2>2 DEF Targets, ActFormed, Plain, Has, a, name
  <2>4. /\ NumbersFit(k, r, flight)
        /\ k \in doubt \/ PanelFits(k, Watched(k, scope, panel), Asked(k, scope), r, flight)
    BY <1>1
  <2> HIDE DEF q, r
  <2>5. CASE k \in a.fills
    <3>1. NumbersFit(k, q, flight \ {c})
      BY <2>3, <2>5 DEF NumbersFit
    <3>2. ASSUME k \notin doubt
          PROVE  PanelFits(k, Watched(k, scope, panel), Asked(k, scope), q, flight \ {c})
      <4>1. c \in Writers(k, r, flight)
        BY <2>3, <2>5 DEF Writers, Puts, a
      <4>2. q.id = r.id /\ q.shown = Asked(k, scope) /\ q.read = q.told
        BY <2>1, <2>3, <2>5 DEF Changed, a, name
      <4>3. Writers(k, q, flight \ {c}) = {}
        BY <2>4, <3>2, <4>1, <4>2, LastWriter
      <4> QED
        BY <4>2, <4>3 DEF PanelFits
    <3> QED
      BY <3>1, <3>2 DEF q
  <2>6. CASE k \notin a.fills /\ k \in Targets(name)
    <3>1. PICK d \in more : d.panel = k
      BY <2>6 DEF a, name
    <3>2. d.op # "act" /\ ~Has(k, "numbered")
      BY <3>1
    <3> QED
      BY <3>1, <3>2 DEF NumbersFit
  <2>7. CASE k \notin a.fills /\ k \notin Targets(name)
    <3>1. /\ q.shown = r.shown /\ q.read = r.read /\ q.told = r.told
          /\ q.id = r.id /\ q.loading = r.loading /\ q.error = r.error
      BY <2>1, <2>7 DEF Changed, a, name
    <3>2. c \notin Writers(k, r, flight)
      BY <2>7 DEF Writers, Puts, a
    <3>3. Writers(k, q, flight \ {c}) = Writers(k, r, flight)
      BY <3>1, <3>2, OtherWriters
    <3>4. NumbersFit(k, q, flight \ {c})
      BY <2>4, <3>1 DEF NumbersFit
    <3> QED
      BY <2>4, <3>1, <3>3, <3>4 DEF PanelFits, q
  <2> QED
    BY <2>5, <2>6, <2>7
<1>14. \A j \in Panels : pan[j].id = panel[j].id
  BY <1>3 DEF Changed
<1> QED
  BY <1>7, <1>10, <1>12, <1>13, <1>14 DEF Rendered

\* A change that was made, and the read that its handler begins.
LEMMA ActDoneFits ==
  ASSUME page \in PagesShown, PortalFits(scope, panel, flight, doubt),
         NEW c \in flight, c.op = "act", ActDone(c)
  PROVE  PortalInv'
<1> DEFINE a == P.acts[c.of]
           pan == AfterChange(c.of)
           reload == Request("load", a.reloads, c.asked, panel[a.reloads].id + 1,
                             pan[a.reloads].told, c.of, c.row)
           reget == Request("reget", a.regets, Asked(a.regets, scope), c.id,
                            pan[a.regets].told, c.of, c.row)
<1>1. CASE a.leaves
  BY <1>1, LeaveFits DEF ActDone
<1>2. CASE ~a.leaves
  <2>1. /\ \/ a.reloads # None /\ Render(scope, pan, {}, {reload}, flight \ {c})
           \/ a.regets # None /\ Render(scope, pan, {}, {reget}, flight \ {c})
           \/ a.reloads = None /\ a.regets = None /\ Render(scope, pan, {}, {}, flight \ {c})
        /\ page' = page
    BY <1>2 DEF ActDone, Follows
  <2> HIDE DEF pan, a
  <2>2. /\ reload.op = "load" /\ reload.panel = a.reloads /\ reload.asked = c.asked
        /\ reload.since = pan[a.reloads].told
    BY DEF Request
  <2>3. /\ reget.op = "reget" /\ reget.panel = a.regets /\ reget.asked = Asked(a.regets, scope)
        /\ reget.since = pan[a.regets].told
    BY DEF Request
  <2> HIDE DEF reload, reget
  <2>4. PortalTypeOK(scope, panel, doubt) /\ CallFits(c, panel)
    BY FitsParts
  <2>5. /\ c.of \in DOMAIN P.acts /\ (a.reloads # None => c.asked # None)
        /\ a.needs # None => Has(a.needs, "empties") \/ panel[a.needs].shown # None
    BY <2>4 DEF CallFits, a
  <2>6. ActFormed(P, a)
    BY <2>5, PageKnown DEF PageFormed, a
  <2>7. \A k \in Panels : k \in Targets(c.of) => k \in a.fills \/ k = a.reloads \/ k = a.regets
    BY DEF Targets, a
  <2>8. None \notin Panels
    BY PortalOK DEF Panels, P
  <2>9. CASE a.reloads # None
    <3>1. a.reloads \in Panels /\ ~Has(a.reloads, "numbered") /\ a.regets = None
      BY <2>6, <2>9 DEF ActFormed, Plain, Has, Panels
    <3>2. CallFits(reload, pan)
      BY <2>2, <2>5, <2>9, <3>1 DEF CallFits
    <3>3. Rendered(scope, pan, {}, {reload}, flight \ {c})
      BY <2>2, <2>7, <2>8, <3>1, <3>2, ChangeRendered DEF pan, a
    <3>4. Render(scope, pan, {}, {reload}, flight \ {c})
      BY <2>1, <2>9, <3>1
    <3>5. PortalFits(scope', panel', flight', doubt')
      BY <2>4, <3>3, <3>4, RenderFits
    <3> QED
      BY <2>1, <3>5, FitsStay
  <2>10. CASE a.regets # None
    <3>1. /\ a.regets \in Panels /\ ~Has(a.regets, "numbered") /\ ~Has(a.regets, "empties")
          /\ a.needs = a.regets /\ a.reloads = None
      BY <2>6, <2>10 DEF ActFormed, Plain, Lasting, Has, Panels
    <3>2. Asked(a.regets, scope) # None
      BY <2>4, <3>1, AskedSomething
    <3>3. pan[a.regets].shown # None
      <4>1. panel[a.regets].shown # None
        BY <2>5, <2>10, <3>1
      <4>2. Changed(pan[a.regets], panel[a.regets], a.regets, c.of)
        BY <2>4, <3>1, ChangeFields DEF PortalTypeOK, Fields, pan
      <4> QED
        BY <3>2, <4>1, <4>2 DEF Changed
    <3>4. CallFits(reget, pan)
      BY <2>3, <3>1, <3>2, <3>3 DEF CallFits
    <3>5. Rendered(scope, pan, {}, {reget}, flight \ {c})
      BY <2>3, <2>7, <2>8, <3>1, <3>4, ChangeRendered DEF pan, a
    <3>6. Render(scope, pan, {}, {reget}, flight \ {c})
      BY <2>1, <2>10, <3>1
    <3>7. PortalFits(scope', panel', flight', doubt')
      BY <2>4, <3>5, <3>6, RenderFits
    <3> QED
      BY <2>1, <3>7, FitsStay
  <2>11. CASE a.reloads = None /\ a.regets = None
    <3>1. Rendered(scope, pan, {}, {}, flight \ {c})
      BY <2>7, <2>8, <2>11, ChangeRendered DEF pan, a
    <3>2. Render(scope, pan, {}, {}, flight \ {c})
      BY <2>1, <2>11
    <3>3. PortalFits(scope', panel', flight', doubt')
      BY <2>4, <3>1, <3>2, RenderFits
    <3> QED
      BY <2>1, <3>3, FitsStay
  <2> QED
    BY <2>9, <2>10, <2>11
<1> QED
  BY <1>1, <1>2

\* The answer to an action.
LEMMA ActAnswerFits ==
  ASSUME page \in PagesShown, PortalFits(scope, panel, flight, doubt), ActAnswer
  PROVE  PortalInv'
<1>1. PICK c \in flight, ok \in BOOLEAN : c.op = "act" /\ IF ok THEN ActDone(c) ELSE ActFailed(c)
  BY Zenon DEF ActAnswer
<1>2. CASE ok
  BY <1>1, <1>2, ActDoneFits
<1>3. CASE ~ok
  <2>1. ActFailed(c)
    BY <1>1, <1>3
  <2>2. page' = page
    BY <2>1 DEF ActFailed
  <2> QED
    BY <1>1, <2>1, <2>2, ActFailedFits
<1> QED
  BY <1>2, <1>3

\* Every step of a page keeps the invariant.
LEMMA PortalStepFits == PortalInv /\ PortalStep => PortalInv'
<1> SUFFICES ASSUME PortalInv, PortalStep PROVE PortalInv'
  OBVIOUS
<1>1. page \in PagesShown /\ PortalFits(scope, panel, flight, doubt)
  BY DEF PortalStep, PortalInv
<1>2. CASE \E tab \in DOMAIN P.tabs : SelectTab(tab)
  BY <1>1, <1>2, SelectTabFits
<1>3. CASE \E d \in DOMAIN P.starts, v \in Values : Select(d, v)
  BY <1>1, <1>3, SelectFits
<1>4. CASE \E k \in Panels : Refetch(k)
  BY <1>1, <1>4, RefetchFits
<1>5. CASE \E name \in DOMAIN P.acts : \E r \in RowsOf(P.acts[name]) : Act(name, r)
  BY <1>1, <1>5, ActFits
<1>6. CASE LeavePage
  BY <1>6, LeaveFits DEF LeavePage
<1>7. CASE LoadAnswer
  BY <1>1, <1>7, LoadAnswerFits
<1>8. CASE RegetAnswer
  BY <1>1, <1>8, RegetAnswerFits
<1>9. CASE ActAnswer
  BY <1>1, <1>9, ActAnswerFits
<1> QED
  BY <1>2, <1>3, <1>4, <1>5, <1>6, <1>7, <1>8, <1>9 DEF PortalStep

---------------------------------------------------------------------------
(* The first render.                                                       *)

\* A page is opened: every effect of its first render has begun one request.
LEMMA OpenFits ==
  ASSUME page \in PagesShown, InitPage
  PROVE  PortalFits(scope, panel, flight, doubt)
<1> DEFINE blank == [k \in Panels |-> Blank(k)]
           begun == {k \in Panels : Watched(k, scope, blank)}
           first(k) == Request("load", k, Asked(k, scope), 1, 0, None, None)
<1>1. /\ panel = [k \in Panels |-> IF k \in begun THEN Begun(k, Blank(k), 1) ELSE Blank(k)]
      /\ flight = {first(k) : k \in begun}
      /\ doubt = {}
  BY DEF InitPage
<1>3. scope.at \in [DOMAIN P.starts -> Values \union {None}] /\ scope.tab = P.first
      /\ DOMAIN scope = {"tab", "at"}
  <2>1. PICK at \in {f \in [DOMAIN P.starts -> Values \union {None}] :
                       \A d \in DOMAIN P.starts : f[d] \in P.starts[d]} :
          scope = [tab |-> P.first, at |-> at]
    BY DEF InitPage
  <2> QED
    BY <2>1
<1>4. \A k \in Panels : /\ first(k).op = "load" /\ first(k).panel = k /\ first(k).asked = Asked(k, scope)
                        /\ first(k).id = 1 /\ first(k).since = 0
  BY RequestFields
<1>5. \A k : /\ DOMAIN Blank(k) = Fields /\ Blank(k).shown = None /\ Blank(k).read = 0
             /\ Blank(k).told = 0 /\ Blank(k).id = 0
  BY DEF Blank, Fields
<1>20. ASSUME NEW k \in Panels
       PROVE  panel[k] = IF k \in begun THEN Begun(k, Blank(k), 1) ELSE Blank(k)
  BY <1>1
<1>21. ASSUME NEW k \in Panels
       PROVE  LET r == Begun(k, Blank(k), 1) IN
              /\ DOMAIN r = Fields /\ r.id = 1
              /\ r.shown = None /\ r.read = 0 /\ r.told = 0
              /\ ~Has(k, "quiet") => r.loading
  BY DEF Begun, Loading, Blank, Fields
<1>6. ASSUME NEW k \in Panels
      PROVE  /\ DOMAIN panel[k] = Fields /\ panel[k].shown = None /\ panel[k].read = 0 /\ panel[k].told = 0
             /\ panel[k].id \in {0, 1} /\ (k \in begun => panel[k].id = 1)
  <2> DEFINE r == Begun(k, Blank(k), 1)
  <2>1. DOMAIN r = Fields /\ r.id = 1 /\ r.shown = None /\ r.read = 0 /\ r.told = 0
    BY <1>21
  <2> HIDE DEF r
  <2>2. panel[k] = IF k \in begun THEN r ELSE Blank(k)
    BY <1>20 DEF r
  <2> HIDE DEF begun
  <2> QED
    BY <1>5, <2>1, <2>2
<1>22. ASSUME NEW k \in begun, ~Has(k, "quiet")
       PROVE  panel[k].loading
  BY <1>20, <1>21, <1>22
<1>7. \A k \in Panels : Watched(k, scope, panel) <=> k \in begun
  <2> SUFFICES ASSUME NEW k \in Panels PROVE Watched(k, scope, panel) <=> Watched(k, scope, blank)
    OBVIOUS
  <2>1. P.panels[k].after # None =>
          panel[P.panels[k].after].shown = None /\ blank[P.panels[k].after].shown = None
    BY <1>5, <1>6, PageKnown DEF PageFormed, PanelFormed, Panels
  <2> HIDE DEF blank
  <2> QED
    BY <2>1 DEF Watched
<1>8. begun \subseteq Panels
  OBVIOUS
<1> HIDE DEF begun, first, blank
<1>9. PortalTypeOK(scope, panel, doubt)
  <2>1. scope.tab \in DOMAIN P.tabs
    BY <1>3, PageKnown DEF PageFormed, TabsFormed
  <2>2. DOMAIN panel = Panels /\ doubt = {}
    BY <1>1
  <2>3. \A k \in Panels : panel[k].id \in Nat /\ panel[k].told \in Nat /\ DOMAIN panel[k] = Fields
    BY <1>6
  <2> QED
    BY <1>3, <2>1, <2>2, <2>3 DEF PortalTypeOK, Fields
<1>10. \A c \in flight : CallFits(c, panel)
  <2> SUFFICES ASSUME NEW k \in begun PROVE CallFits(first(k), panel)
    BY <1>1
  <2>1. Asked(k, scope) # None
    BY <1>8, <1>9, AskedSomething
  <2> QED
    BY <1>4, <1>8, <2>1 DEF CallFits
<1>11. ASSUME NEW k \in Panels
       PROVE  /\ NumbersFit(k, panel[k], flight)
              /\ PanelFits(k, Watched(k, scope, panel), Asked(k, scope), panel[k], flight)
  <2>1. \A c \in flight : Puts(c, k) => k \in begun /\ c = first(k)
    BY <1>1, <1>4, <1>8 DEF Puts
  <2>2. NumbersFit(k, panel[k], flight)
    <3> SUFFICES ASSUME NEW c \in flight, c.op # "act", c.panel = k
                 PROVE  c.id \in Nat /\ c.id <= panel[k].id /\ c.since = panel[k].told
      BY <1>6 DEF NumbersFit
    <3>1. k \in begun /\ c = first(k)
      BY <2>1 DEF Puts
    <3> QED
      BY <1>4, <1>6, <3>1
  <2>3. PanelFits(k, Watched(k, scope, panel), Asked(k, scope), panel[k], flight)
    <3>1. CASE k \in begun
      <4>1. Writers(k, panel[k], flight) = {first(k)}
        BY <1>1, <1>4, <1>6, <2>1, <3>1 DEF Writers, Puts
      <4> QED
        BY <1>4, <1>6, <1>22, <3>1, <4>1 DEF PanelFits
    <3>2. CASE k \notin begun
      <4>1. Writers(k, panel[k], flight) = {}
        BY <2>1, <3>2 DEF Writers
      <4> QED
        BY <1>6, <1>7, <3>2, <4>1 DEF PanelFits
    <3> QED
      BY <3>1, <3>2
  <2> QED
    BY <2>2, <2>3
<1> QED
  BY <1>9, <1>10, <1>11 DEF PortalFits

---------------------------------------------------------------------------
(* From the invariant to the properties.                                 *)

\* A settled panel has no call outstanding that will put data into it.
LEMMA SettledFits ==
  ASSUME page \in PagesShown, PortalInv, NEW k \in Panels, Settled(k)
  PROVE  /\ Watched(k, scope, panel) => panel[k].shown = Asked(k, scope)
         /\ panel[k].shown # None => panel[k].read = panel[k].told
<1>1. PanelFits(k, Watched(k, scope, panel), Asked(k, scope), panel[k], flight)
  BY FitsParts DEF PortalInv, Settled
<1>2. ASSUME NEW c \in Writers(k, panel[k], flight)
      PROVE  c.op = "act"
  <2>1. c.op = "load" /\ ~Has(k, "quiet")
    BY DEF Settled, Writers
  <2>2. c.op # "act" => (c.op = "load" /\ ~Has(k, "quiet") => panel[k].loading)
    BY <1>1 DEF PanelFits
  <2> QED
    BY <2>1, <2>2 DEF Settled
<1>3. ~panel[k].error
  BY DEF Settled
<1> QED
  BY <1>1, <1>2, <1>3 DEF PanelFits

\* The invariant says that the panels are of the selections...
LEMMA InvShowsSelection == PortalInv => PanelShowsSelection
<1> SUFFICES ASSUME PortalInv, page \in PagesShown, NEW k \in Available("shows"),
                    Watched(k, scope, panel), Settled(k)
             PROVE  panel[k].shown = Asked(k, scope)
  BY DEF PanelShowsSelection
<1>1. scope.tab \in DOMAIN P.tabs
  BY DEF PortalInv, PortalFits, PortalTypeOK
<1>2. k \in Panels
  BY <1>1, PageKnown DEF Available, PageFormed, TabsFormed, Panels
<1> QED
  BY <1>2, SettledFits

\* ... and show the changes.
LEMMA InvShowsChanges == PortalInv => ChangesAreShown
BY SettledFits DEF ChangesAreShown

\* A step that leaves the page alone.
LEMMA PortalUnchanged ==
  ASSUME PortalInv, page' = page, portalVars' = portalVars
  PROVE  PortalInv'
<1>1. scope' = scope /\ panel' = panel /\ flight' = flight /\ doubt' = doubt
  BY DEF portalVars
<1>2. page \in PagesShown => PortalFits(scope', panel', flight', doubt')
  BY <1>1 DEF PortalInv
<1> QED
  BY <1>2, FitsStay

\* The invariant holds on the first page...
LEMMA PortalInit == Init => PortalInv
<1> SUFFICES ASSUME Init, page \in PagesShown PROVE PortalFits(scope, panel, flight, doubt)
  BY DEF PortalInv
<1>1. page # "vpn"
  BY PortalOK DEF Pages
<1>2. InitPage
  BY <1>1 DEF Init
<1> QED
  BY <1>2, OpenFits

\* ... and every step keeps it, those of the page for the networks included.
LEMMA PortalNext == PortalInv /\ [Next]_vars => PortalInv'
<1> SUFFICES ASSUME PortalInv, [Next]_vars PROVE PortalInv'
  OBVIOUS
<1>1. CASE PortalStep
  BY <1>1, PortalStepFits
<1>2. CASE VpnAction
  BY <1>2, PortalUnchanged DEF VpnAction
<1>3. CASE VpnAnswer
  BY <1>3, PortalUnchanged DEF VpnAnswer, VpnAction
<1>4. CASE UNCHANGED vars
  BY <1>4, PortalUnchanged DEF vars
<1>5. Next => PortalStep \/ VpnAction \/ VpnAnswer
  BY DEF Next, RetryList, SelectNetwork, OpenEdit, CloseEdit, SubmitCreate, SubmitEdit, DeleteNetwork,
     RetryMembers, OpenRowEdit, CancelRowEdit, SaveRowEdit, ToggleAuthorized, DeleteMember, RowButton,
     ConfirmExpires, MembersAnswer, OpenAnswer, ListAnswer, CreateAnswer,
     PatchNetworkAnswer, PatchMemberAnswer, DeleteAnswer
<1> QED
  BY <1>1, <1>2, <1>3, <1>4, <1>5

\* Of every page of the portal: the panels are of the selections, and their
\* numbers and flags say what is under way, whatever the order of the answers.
THEOREM PortalFitsAlways == Spec => []PortalInv
<1> QED
  BY PortalInit, PortalNext, PTL DEF Spec

THEOREM PanelsShowSelection == Spec => []PanelShowsSelection
BY PortalFitsAlways, InvShowsSelection, PTL

THEOREM ChangesSeen == Spec => []ChangesAreShown
BY PortalFitsAlways, InvShowsChanges, PTL
=============================================================================
