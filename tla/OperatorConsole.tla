-------------------------- MODULE OperatorConsole --------------------------
(***************************************************************************)
(* The operator's browser console: the pages of PortalPages, and the page  *)
(* for the ZeroTier networks, of which the router shows one at a time.     *)
(*                                                                         *)
(* frontend/src/pages/VpnZeroTier.tsx numbers nothing: an answer is        *)
(* applied whenever it comes, and the code after an await uses the network *)
(* that was selected or edited when the handler started. What it opens and *)
(* edits depends on the answers, so that it has a model of its own, with   *)
(* the controller that ZeroTierService passes its calls on to.             *)
(*                                                                         *)
(* Outside the model: two windows of one operator, and the return to a     *)
(* page once left (React builds it anew, so it is again an initial state). *)
(***************************************************************************)
EXTENDS PortalPages

CONSTANTS
    Networks        \* ZeroTier networks

ASSUME ConsoleOK == None \notin {"open", "members", "edit", "row"}

VARIABLES
    selected, \* selectedNetworkId
    members,  \* whose members the table holds, membersLoading and membersError
    row,      \* of the row of one node that has joined every network: the tables in
              \* which its name and its addresses were opened for an edit and its
              \* removal was clicked once, whether its buttons are disabled, and
              \* (history) moved, if it was so open when another network was selected
    editing,  \* editingNetworkId, whose settings the form holds
    calls,    \* calls not answered
    zerotier, \* the controller's networks, and the page's list of them
    overlap   \* history: kinds of calls that were outstanding together

vpnVars == <<selected, members, row, editing, calls, zerotier, overlap>>
vars == <<page, clicks, failures, portalVars, vpnVars>>

---------------------------------------------------------------------------
(* The controller behind modules/zerotier. A call is passed on with a time *)
(* limit: one that fails may have been carried out all the same, when only *)
(* its answer was late or a read after the change failed.                  *)

\* A call about a network fails as well when the controller has none such.
EndsAt(net, ok) ==
    IF net \in zerotier.exist THEN Ends(ok) /\ Counted(ok) ELSE ~ok /\ UNCHANGED failures

ListNetworks(ok) == IF ok THEN zerotier.exist ELSE {}

\* The members of one network, read in several calls: all of them or none.
ListMembers(net, ok) == IF ok THEN net ELSE None

CreateNetwork(ok) ==
    {[zerotier EXCEPT !.exist = @ \union {net}, !.ever = @ \union {net}] :
       net \in Networks \ zerotier.ever}
    \union (IF ok THEN {} ELSE {zerotier})

\* What a change of an existing network may leave behind.
Outcomes(net, changed, ok) ==
    IF ok THEN {changed} ELSE IF net \in zerotier.exist THEN {zerotier, changed} ELSE {zerotier}

UpdateNetwork(net, form, ok) ==
    Outcomes(net, [zerotier EXCEPT !.settings[net] = form], ok)

RemoveNetwork(net, ok) == Outcomes(net, [zerotier EXCEPT !.exist = @ \ {net}], ok)

\* UpdateMember and deleteMember: what is changed is kept, for the properties.
UpdateMember(net, change, ok) ==
    Outcomes(net, [zerotier EXCEPT !.patched =
                     @ \union {[net |-> net, row |-> change.row, from |-> change.from,
                                field |-> change.field]}], ok)

---------------------------------------------------------------------------
(* The VPN page. A call is [op, net, arg, sel, click]: the operation, its  *)
(* network, what else its handler closed over, selectedNetworkId as the    *)
(* handler closed over it, and the click that it goes back to. What the    *)
(* controller does for a call and the code after its await are one step.   *)

VpnAction == page = "vpn" /\ UNCHANGED <<page, portalVars>>

Call(op, net, arg, sel, click) ==
    [op |-> op, net |-> net, arg |-> arg, sel |-> sel, click |-> click]

\* Calls that are, or that will go on with, fetchMembers.
ReadsMembers(c) ==
    \/ c.op \in {"members", "patchMember"}
    \/ c.op = "patchNetwork" /\ c.net = c.sel
    \/ c.op = "list" /\ c.arg = "members"

\* createBusy and editSaving: a handler is under way until its last call ends.
OfCreate(c) ==
    \/ c.op = "create"
    \/ c.op = "list" /\ c.arg = "open"
    \/ c.op = "open" /\ c.arg = "create"
OfEdit(c) ==
    \/ c.op = "patchNetwork"
    \/ c.op = "list" /\ c.net # None /\ c.arg # "open"
    \/ c.op = "members" /\ c.arg = "edit"

GroupsOf(c) == {g \in {"members", "open"} :
                  (g = "members" /\ ReadsMembers(c)) \/ (g = "open" /\ c.op = g)}

\* The calls in new begin together, with those in left outstanding.
Begin(new, left) ==
    /\ calls' = left \union new
    /\ overlap' = overlap \union
         UNION {GroupsOf(pair[1]) \intersect GroupsOf(pair[2]) :
                  pair \in (new \X left) \union {two \in new \X new : two[1] # two[2]}}

\* fetchMembers begins.
Fetching == [members EXCEPT !.loading = TRUE, !.error = FALSE]

\* The effect on selectedNetworkId, when that becomes net, reads the members.
EffectOf(net, click) ==
    IF net # selected /\ net # None
    THEN {Call("members", net, None, net, click)} ELSE {}

\* What stays open of a row when the network net is selected.
Drafts == {"name", "ip", "confirm"}
RowAfter(net) ==
    [row EXCEPT !.moved = @ \/ (net # selected /\ \E f \in Drafts : row[f] # None)]

\* openEdit: the form is emptied until its network's settings have come.
OpenedOnStale(net) == [net |-> net, loading |-> TRUE, form |-> editing.form]
Opened(net) == [net |-> net, loading |-> TRUE, form |-> None]
Closed == [editing EXCEPT !.net = None, !.form = None]

RetryList ==
    /\ VpnAction /\ Click
    /\ zerotier.error
    /\ zerotier' = [zerotier EXCEPT !.error = FALSE]
    /\ Begin({Call("list", None, None, selected, clicks')}, calls)
    /\ UNCHANGED <<selected, members, row, editing>>

\* While the edit modal is shown, its overlay covers the page.
NoModal == editing.net = None

\* The table of members: its network, and whether there is one to click on.
MembersDrawn == NoModal /\ selected # None /\ ~members.loading

SelectNetwork(net) ==
    /\ VpnAction /\ Click
    /\ NoModal /\ net \in zerotier.listed
    /\ selected' = net
    /\ members' = IF net # selected THEN Fetching ELSE members
    /\ row' = RowAfter(net)
    /\ Begin(EffectOf(net, clicks'), calls)
    /\ UNCHANGED <<editing, zerotier>>

OpenEdit(net) ==
    /\ VpnAction /\ Click
    /\ NoModal /\ net \in zerotier.listed
    /\ editing' = Opened(net)
    /\ Begin({Call("open", net, None, selected, clicks')}, calls)
    /\ UNCHANGED <<selected, members, row, zerotier>>

CloseEdit ==
    /\ VpnAction /\ Click
    /\ editing.net # None
    /\ editing' = Closed
    /\ UNCHANGED <<selected, members, row, calls, zerotier, overlap>>

SubmitCreate ==
    /\ VpnAction /\ Click
    /\ NoModal /\ ~\E c \in calls : OfCreate(c)
    /\ Begin({Call("create", None, None, selected, clicks')}, calls)
    /\ UNCHANGED <<selected, members, row, editing, zerotier>>

SubmitEdit ==
    /\ VpnAction /\ Click
    /\ editing.net # None /\ ~editing.loading /\ editing.form # None
    /\ ~\E c \in calls : OfEdit(c)
    /\ Begin({Call("patchNetwork", editing.net, editing.form, selected, clicks')}, calls)
    /\ UNCHANGED <<selected, members, row, editing, zerotier>>

\* The second click on the button, within the four seconds of the first.
DeleteNetwork(net) ==
    /\ VpnAction /\ Click
    /\ NoModal /\ net \in zerotier.listed
    /\ Begin({Call("delete", net, None, selected, clicks')}, calls)
    /\ UNCHANGED <<selected, members, row, editing, zerotier>>

RetryMembers ==
    /\ VpnAction /\ Click
    /\ NoModal /\ selected # None /\ members.error
    /\ members' = Fetching
    /\ Begin({Call("members", selected, None, selected, clicks')}, calls)
    /\ UNCHANGED <<selected, row, editing, zerotier>>

\* A button of a row of the table. The row is of the table's network, and what
\* is sent is from the network in whose table it was typed or first clicked;
\* the path is of the selected network.
RowButton == VpnAction /\ Click /\ MembersDrawn /\ members.of # None
ChangeMember(from, field) ==
    Begin({Call("patchMember", selected, [row |-> members.of, from |-> from, field |-> field],
                selected, clicks')}, calls)

\* openEditIp and openEditName, cancelEditIp and cancelEditName.
OpenRowEdit(f) ==
    /\ RowButton /\ ~row.busy /\ row[f] = None
    /\ row' = [row EXCEPT ![f] = members.of]
    /\ UNCHANGED <<selected, members, editing, calls, zerotier, overlap>>

CancelRowEdit(f) ==
    /\ RowButton /\ row[f] # None
    /\ row' = [row EXCEPT ![f] = None]
    /\ UNCHANGED <<selected, members, editing, calls, zerotier, overlap>>

\* saveEditIp and saveEditName.
SaveRowEdit(f) ==
    /\ RowButton /\ ~row.busy /\ row[f] # None
    /\ row' = [row EXCEPT !.busy = TRUE]
    /\ ChangeMember(row[f], f)
    /\ UNCHANGED <<selected, members, editing, zerotier>>

\* memberBusyId is of the row clicked last: this one, or another.
ToggleAuthorized ==
    /\ RowButton
    /\ \/ ~row.busy /\ row' = [row EXCEPT !.busy = TRUE]
       \/ row' = [row EXCEPT !.busy = FALSE]
    /\ ChangeMember(members.of, "authorized")
    /\ UNCHANGED <<selected, members, editing, zerotier>>

\* handleDeleteMemberClick, the first time and, within four seconds, the second.
DeleteMember ==
    /\ RowButton /\ ~row.busy
    /\ \/ /\ row.confirm = None
          /\ row' = [row EXCEPT !.confirm = members.of]
          /\ UNCHANGED <<calls, overlap>>
       \/ /\ row.confirm # None
          /\ row' = [row EXCEPT !.confirm = None, !.busy = TRUE]
          /\ ChangeMember(row.confirm, "gone")
    /\ UNCHANGED <<selected, members, editing, zerotier>>

ConfirmExpires ==
    /\ VpnAction /\ row.confirm # None
    /\ row' = [row EXCEPT !.confirm = None]
    /\ UNCHANGED <<clicks, failures, selected, members, editing, calls, zerotier, overlap>>

VpnAnswer == VpnAction /\ UNCHANGED clicks

\* fetchMembers, answered: a failure empties the table.
AfterMembersKeep(c, ok) ==
    [of |-> IF ok THEN c.net ELSE members.of, loading |-> FALSE, error |-> members.error \/ ~ok]
AfterMembers(c, ok) ==
    [of |-> ListMembers(c.net, ok), loading |-> FALSE, error |-> members.error \/ ~ok]

MembersAnswer ==
    /\ VpnAnswer
    /\ \E c \in calls, ok \in BOOLEAN :
         /\ c.op = "members"
         /\ EndsAt(c.net, ok)
         /\ members' = AfterMembers(c, ok)
         /\ row' = [row EXCEPT !.busy = @ /\ c.arg # "row"]
         /\ Begin({}, calls \ {c})
    /\ UNCHANGED <<selected, editing, zerotier>>

OpenAnswer ==
    /\ VpnAnswer
    /\ \E c \in calls, ok \in BOOLEAN :
         /\ c.op = "open"
         /\ EndsAt(c.net, ok)
         /\ editing' = [editing EXCEPT !.loading = FALSE, !.form = IF ok THEN c.net ELSE @]
         /\ Begin({}, calls \ {c})
    /\ UNCHANGED <<selected, members, row, zerotier>>

\* fetchNetworks, answered, and what its caller does next: after a creation
\* the new network is selected and opened, after an edit its members are read.
ListAnswer ==
    /\ VpnAnswer
    /\ \E c \in calls, ok \in BOOLEAN :
         LET next == CASE c.arg = "open" -> {Call("open", c.net, "create", c.sel, c.click)}
                      [] c.arg = "members" -> {Call("members", c.net, "edit", c.sel, c.click)}
                      [] OTHER -> {}
             choices == CASE c.arg = "open" -> {c.net}
                          [] c.arg # "open" /\ ok /\ selected = None /\ zerotier.exist # {} -> zerotier.exist
                          [] OTHER -> {selected}
         IN /\ c.op = "list" /\ Ends(ok) /\ Counted(ok)
            /\ zerotier' = [zerotier EXCEPT !.listed = ListNetworks(ok),
                                            !.error = ~ok]
            /\ \E net \in choices :
                 LET new == EffectOf(net, c.click) \union next IN
                   /\ selected' = net
                   /\ members' = IF \E d \in new : d.op = "members" THEN Fetching ELSE members
                   /\ row' = RowAfter(net)
                   /\ Begin(new, calls \ {c})
            /\ editing' = IF c.arg = "open" THEN Opened(c.net) ELSE editing

CreateAnswer ==
    /\ VpnAnswer
    /\ \E c \in calls, ok \in BOOLEAN :
         /\ c.op = "create" /\ Ends(ok) /\ Counted(ok)
         /\ \E z \in CreateNetwork(ok) :
              /\ zerotier' = [z EXCEPT !.error = @ /\ ~ok]
              /\ Begin({Call("list", net, "open", c.sel, c.click) :
                          net \in IF ok THEN z.exist \ zerotier.exist ELSE {}}, calls \ {c})
    /\ UNCHANGED <<selected, members, row, editing>>

\* The edit's handler closes whatever modal is shown by then.
PatchNetworkAnswer ==
    /\ VpnAnswer
    /\ \E c \in calls, ok \in BOOLEAN :
         /\ c.op = "patchNetwork" /\ EndsAt(c.net, ok)
         /\ \E z \in UpdateNetwork(c.net, c.arg, ok) :
              zerotier' = [z EXCEPT !.error = @ /\ ~ok]
         /\ \/ /\ ok
               /\ editing' = Closed
               /\ Begin({Call("list", c.net, IF c.net = c.sel THEN "members" ELSE None,
                              c.sel, c.click)}, calls \ {c})
            \/ ~ok /\ UNCHANGED editing /\ Begin({}, calls \ {c})
    /\ UNCHANGED <<selected, members, row>>

\* A save that has succeeded closes the row's edit, whichever it is by then.
PatchMemberAnswer ==
    /\ VpnAnswer
    /\ \E c \in calls, ok \in BOOLEAN :
         /\ c.op = "patchMember" /\ EndsAt(c.net, ok)
         /\ zerotier' \in UpdateMember(c.net, c.arg, ok)
         /\ \/ /\ ok
               /\ members' = Fetching
               /\ row' = IF c.arg.field \in {"name", "ip"}
                         THEN [row EXCEPT ![c.arg.field] = None] ELSE row
               /\ Begin({Call("members", c.net, "row", c.sel, c.click)}, calls \ {c})
            \/ /\ ~ok
               /\ members' = [members EXCEPT !.error = TRUE]
               /\ row' = [row EXCEPT !.busy = FALSE]
               /\ Begin({}, calls \ {c})
    /\ UNCHANGED <<selected, editing>>

DeleteAnswer ==
    /\ VpnAnswer
    /\ \E c \in calls, ok \in BOOLEAN :
         /\ c.op = "delete" /\ EndsAt(c.net, ok)
         /\ \E z \in RemoveNetwork(c.net, ok) : zerotier' = [z EXCEPT !.error = ~ok]
         /\ \E net \in {IF ok /\ c.sel = c.net THEN None ELSE selected} :
              selected' = net /\ row' = RowAfter(net)
         /\ Begin({Call("list", None, None, c.sel, c.click) : x \in IF ok THEN {1} ELSE {}},
                  calls \ {c})
    /\ UNCHANGED <<members, editing>>

---------------------------------------------------------------------------
\* The page that the router mounts reads its data.
Init ==
    /\ page \in PagesShown \union {"vpn"}
    /\ clicks = 0
    /\ failures = 0
    /\ IF page = "vpn" THEN InitNoPage ELSE InitPage
    /\ selected = None
    /\ members = [of |-> None, loading |-> FALSE, error |-> FALSE]
    /\ row = [name |-> None, ip |-> None, confirm |-> None, busy |-> FALSE, moved |-> FALSE]
    /\ editing = [net |-> None, loading |-> FALSE, form |-> None]
    /\ calls = IF page = "vpn" THEN {Call("list", None, None, None, 0)} ELSE {}
    /\ \E exist \in IF page = "vpn" THEN SUBSET Networks ELSE {{}} :
         zerotier = [exist |-> exist, ever |-> exist, listed |-> {}, error |-> FALSE,
                     settings |-> [n \in Networks |-> n], patched |-> {}]
    /\ overlap = {}

Next ==
    \/ PortalStep /\ UNCHANGED vpnVars
    \/ RetryList
    \/ \E net \in Networks : SelectNetwork(net)
    \/ \E net \in Networks : OpenEdit(net)
    \/ CloseEdit
    \/ SubmitCreate
    \/ SubmitEdit
    \/ \E net \in Networks : DeleteNetwork(net)
    \/ RetryMembers
    \/ \E f \in {"name", "ip"} : OpenRowEdit(f) \/ CancelRowEdit(f) \/ SaveRowEdit(f)
    \/ ToggleAuthorized
    \/ DeleteMember
    \/ ConfirmExpires
    \/ MembersAnswer
    \/ OpenAnswer
    \/ ListAnswer
    \/ CreateAnswer
    \/ PatchNetworkAnswer
    \/ PatchMemberAnswer
    \/ DeleteAnswer

Spec == Init /\ [][Next]_vars /\ PortalFairness

---------------------------------------------------------------------------
\* No network is given the settings of another, as long as no edit form was
\* opened while the settings for an earlier one were still outstanding:
\* openEdit fills the form with whatever answer comes.
SettingsStay ==
    "open" \in overlap \/ \A n \in Networks : zerotier.settings[n] = n

\* A member is authorised, named, addressed or removed only in its own
\* network, as long as no read of members began with another, or while another
\* or a change that ends in one was outstanding: fetchMembers keeps the last
\* answer. Two begin together when the handler of an edit reads the members of
\* the network edited, in the render that selects the first network again.
\* What is sent was typed or first clicked in that network too, as long as
\* nothing was open in the row when another network was selected: nothing
\* closes it then.
MembersStay ==
    "members" \in overlap \/
      \A p \in zerotier.patched : p.row = p.net /\ (row.moved \/ p.from = p.net)

---------------------------------------------------------------------------
(* What makes it so.                                                       *)

ConsoleTypeOK ==
    /\ DOMAIN members = {"of", "loading", "error"}
    /\ DOMAIN row = {"name", "ip", "confirm", "busy", "moved"}
    /\ DOMAIN editing = {"net", "loading", "form"}
    /\ DOMAIN zerotier = {"exist", "ever", "listed", "error", "settings", "patched"}
    /\ DOMAIN zerotier.settings = Networks

\* The form is of the network edited, now and when the settings have come.
FormInv ==
    /\ \A c \in calls : c.op = "patchNetwork" => c.arg = c.net
    /\ \A c, d \in calls : c.op = "open" /\ d.op = "open" => c = d
    /\ \A c \in calls : c.op = "open" => editing.net \in {None, c.net}
    /\ editing.net # None => editing.form \in {None, editing.net}

\* The table is of the network selected, now and when the members have come.
TableInv ==
    /\ \A c \in calls : c.op = "patchMember" =>
         c.arg.row = c.net /\ (row.moved \/ c.arg.from = c.net)
    /\ row.moved \/ \A f \in Drafts : row[f] \in {None, selected}
    /\ \A c, d \in calls : ReadsMembers(c) /\ ReadsMembers(d) => c = d
    /\ \A c \in calls : ReadsMembers(c) => selected \in {None, c.net}
    /\ selected # None /\ members.of # None /\ ~members.loading => members.of = selected

ConsoleInv ==
    /\ ConsoleTypeOK
    /\ SettingsStay /\ ("open" \in overlap \/ FormInv)
    /\ MembersStay /\ ("members" \in overlap \/ TableInv)
=============================================================================
