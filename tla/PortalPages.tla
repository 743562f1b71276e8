---------------------------- MODULE PortalPages ----------------------------
(***************************************************************************)
(* A page of the portal with its requests under way, answered in any       *)
(* order. PortalViews says what each page has.                             *)
(*                                                                         *)
(* A panel is read by an effect, when what it depends on has changed since *)
(* the last render, or by a click. An answer is applied whenever it comes; *)
(* only the pages for ships, areas and the fleet number their requests and *)
(* drop what a newer one has outdated. A handler goes on after its await   *)
(* with the selections that it closed over at the click.                   *)
(*                                                                         *)
(* A call takes effect when it is answered, and a read returns what was    *)
(* there when it began, the oldest it may. The pages left are not told     *)
(* apart: React builds a page anew when it is opened again.                *)
(***************************************************************************)
EXTENDS Naturals, FiniteSets, PortalViews

CONSTANTS
    PagesShown,      \* pages of PortalViews that are opened
    MaxClicks,       \* operator's actions on a page,
    MaxFailures      \* and calls that fail, in one behaviour

\* None is no panel, and not what a panel asks for.
ASSUME PortalOK ==
    /\ PagesShown \subseteq DOMAIN Pages
    /\ \A p \in PagesShown :
         /\ None \notin DOMAIN Pages[p].panels
         /\ \A dims \in SUBSET DOMAIN Pages[p].starts : None \notin [dims -> Values \union {None}]

VARIABLES
    page,     \* the page that the router shows
    clicks,   \* actions of the operator so far
    failures, \* calls that failed so far
    scope,    \* [tab, at]: the tab and the selections
    panel,    \* per panel: what it shows, and how its requests stand
    busy,     \* per flag of the page's actions: the rows whose buttons are disabled
    flight,   \* requests not answered
    doubt     \* history: panels without numbers whose requests overlapped

portalVars == <<scope, panel, busy, flight, doubt>>

P == Pages[page]
Panels == DOMAIN P.panels
Has(k, feature) == feature \in P.panels[k].is
BumpOf(b) == IF b THEN 1 ELSE 0

Click == clicks < MaxClicks[page] /\ clicks' = clicks + 1 /\ UNCHANGED failures

\* A call ends with an answer or with an error.
Ends(ok) == ok \/ failures < MaxFailures
Counted(ok) == failures' = failures + BumpOf(~ok)

---------------------------------------------------------------------------
(* Panels. A panel is [shown, read, told, id, loading, error]: the         *)
(* selection it shows, how many of the changes it is told of the data      *)
(* shown are sure to contain, how many it was told of, the number of the   *)
(* newest request, and the flags of the loading and the error notice.      *)

\* What a request of this panel asks for.
Asked(k, s) == [d \in P.panels[k].by |-> s.at[d]]

\* The effect of a panel asks for something in this render.
Watched(k, s, pan) ==
    /\ s.tab \in P.panels[k].on
    /\ \A d \in P.panels[k].by : s.at[d] # None
    /\ P.panels[k].after # None => pan[P.panels[k].after].shown # None

\* A dependency of the panel's effect differs between two renders; set are
\* the panels that were given new data.
Reruns(k, s, t, pan, new, set) ==
    LET parent == P.panels[k].after IN
      \/ Asked(k, s) # Asked(k, t)
      \/ P.panels[k].on # Tabs /\ s.tab # t.tab
      \/ parent # None /\ (new[parent].shown = None) # (pan[parent].shown = None)
      \/ Has(k, "each") /\ parent \in set

NewIdBeforeCleanup(k, cleaned) == panel[k].id + 1
\* The number that the new request keeps: the cleanup runs before it begins.
NewId(k, cleaned) == panel[k].id + BumpOf(k \in cleaned) + 1

Request(op, k, asked, id, since, of, row) ==
    [op |-> op, panel |-> k, asked |-> asked, id |-> id, since |-> since, of |-> of, row |-> row]

\* Calls that, when they are answered, put data into the panel.
Puts(c, k) == IF c.op = "act" THEN k \in P.acts[c.of].fills ELSE c.panel = k

\* The panels in doubt, when the calls in new begin with those in left
\* outstanding: a read that begins alone, for what is selected, ends the doubt.
DoubtAfter(new, left, t) ==
    LET begun == {k \in Panels : ~Has(k, "numbered") /\ \E c \in new : Puts(c, k)}
        apart(k) ==
           \/ \E c \in left : Puts(c, k)
           \/ \E c \in new : Puts(c, k) /\ c.asked # Asked(k, t)
        read == {k \in begun : \E c \in new : c.op # "act" /\ c.panel = k}
    IN (doubt \ read) \union {k \in begun : apart(k)}

Loading(p, id) == [p EXCEPT !.loading = TRUE, !.error = FALSE, !.id = id]
\* Panels without a loading flag have no new request to show for it.
Begun(k, p, id) == IF Has(k, "quiet") THEN [p EXCEPT !.id = id, !.error = FALSE]
                   ELSE Loading(p, id)

\* The panels whose effect is cleaned up, and those whose effect begins a
\* request, in the render with scope t and panels pan.
CleanedUp(t, pan, set) ==
    {k \in Panels : /\ Has(k, "cleans") /\ Watched(k, scope, panel)
                    /\ Reruns(k, scope, t, panel, pan, set)}
Started(t, pan, set) ==
    {k \in Panels : Watched(k, t, pan) /\ Reruns(k, scope, t, panel, pan, set)}

\* The render with scope t and panels p, after a step that gave new data to
\* the panels in set and began the calls in more, with those in rest still
\* outstanding. (An \E over one value has TLC compute it once.)
Render(t, p, set, more, rest) ==
    \E pan \in {p}, left \in {rest} :
    \E cleaned \in {CleanedUp(t, pan, set)}, started \in {Started(t, pan, set)} :
    \E new \in {more \union
          {Request("load", k, Asked(k, t), NewId(k, cleaned), pan[k].told, None, None) :
             k \in started}} :
      /\ scope' = t
      /\ panel' = [k \in Panels |->
                     LET id == pan[k].id + BumpOf(k \in cleaned) IN
                       IF \E c \in new : c.op = "load" /\ c.panel = k
                       THEN Begun(k, pan[k], id + 1)
                       ELSE [pan[k] EXCEPT !.id = id]]
      /\ flight' = left \union new
      /\ doubt' = DoubtAfter(new, left, t)

---------------------------------------------------------------------------
(* The operator. The tabs, and what is on them, are drawn once the page's  *)
(* main panel has come.                                                    *)

MainShown == P.main # None => panel[P.main].shown # None

\* What the frame of the page and the current tab have of a field.
Available(field) ==
    P.frame[field] \union (IF MainShown THEN P.tabs[scope.tab][field] ELSE {})

SelectTab(tab) ==
    /\ Click /\ MainShown
    /\ tab # scope.tab
    /\ Render([scope EXCEPT !.tab = tab], panel, {}, {}, flight)
    /\ UNCHANGED <<page, busy>>

\* A ship or an area is selected in the list of them, once that has come and
\* is not empty.
Select(d, v) ==
    /\ Click /\ d \in Available("asks")
    /\ v # scope.at[d]
    /\ \A k \in Panels : P.panels[k].picks = d => panel[k].shown # None /\ scope.at[d] # None
    /\ Render([scope EXCEPT !.at[d] = v], panel, {}, {}, flight)
    /\ UNCHANGED <<page, busy>>

\* The number, told and selection of a request by a click.
Reading(k, asked, of, row) ==
    Request("load", k, asked, panel[k].id + 1, panel[k].told, of, row)

\* The button that applies the filters is disabled while its panel loads.
Refetch(k) ==
    /\ Click
    /\ \A d \in P.panels[k].by : scope.at[d] # None
    /\ \/ k \in Available("reloads") /\ (Has(k, "numbered") => ~panel[k].loading)
       \/ k \in Available("retries") /\ panel[k].error
    /\ Render(scope, panel, {}, {Reading(k, Asked(k, scope), None, None)}, flight)
    /\ UNCHANGED <<page, busy>>

\* A row's buttons are drawn with its panel.
Drawn(k) ==
    /\ panel[k].shown # None
    /\ Has(k, "hides") => ~panel[k].loading /\ ~panel[k].error

Flags == {P.acts[a].busy : a \in DOMAIN P.acts} \ {None}

\* The flag of an action goes up when it begins, and down when it ends: one
\* flag for all rows holds the row clicked last.
Raised(a, row) ==
    IF a.busy = None THEN busy
    ELSE [busy EXCEPT ![a.busy] = IF a.per = "each" THEN @ \union {row} ELSE {row}]
Lowered(a, row) ==
    IF a.busy = None THEN busy
    ELSE [busy EXCEPT ![a.busy] = IF a.per = "each" THEN @ \ {row} ELSE {}]

RowsOf(a) == IF a.per = "page" THEN {"page"} ELSE Rows

FollowsNothing(a) == [reloads |-> None, regets |-> None]
\* What a handler reads after its change: the panel, with its loading flag or
\* without; its selections are those of the click.
Follows(a) == [reloads |-> P.acts[a].reloads, regets |-> P.acts[a].regets]

Act(name, row) ==
    LET a == P.acts[name] IN
      /\ Click /\ name \in Available("offers")
      /\ row \in RowsOf(a)
      /\ a.needs # None => Drawn(a.needs)
      /\ a.busy # None => row \notin busy[a.busy]
      /\ busy' = Raised(a, row)
      /\ LET asked == IF a.reloads = None THEN <<>> ELSE Asked(a.reloads, scope) IN
           Render(scope, panel, {}, {Request("act", None, asked, clicks', 0, name, row)}, flight)
      /\ UNCHANGED page

\* The router shows no page of these any more.
Leave ==
    /\ page' = "closed"
    /\ scope' = [tab |-> "Main", at |-> <<>>]
    /\ panel' = <<>> /\ busy' = <<>>
    /\ flight' = {} /\ doubt' = {}

LeavePage == Click /\ Leave

---------------------------------------------------------------------------
(* The answers.                                                            *)

IsCurrentAlways(c) == TRUE
\* isCurrentRequest: on a page that numbers nothing, every answer is current.
IsCurrent(c) == Has(c.panel, "numbered") => c.id = panel[c.panel].id

AfterAnswer(c, p, ok) ==
    [p EXCEPT !.shown   = IF ok THEN c.asked ELSE IF Has(c.panel, "empties") THEN None ELSE @,
              !.read    = IF ok THEN c.since ELSE @,
              !.loading = FALSE,
              !.error   = @ \/ ~ok]

\* A list of ships or areas that fails is told of by the notice of the panel
\* for one of them.
AfterLoad(c, ok) ==
    LET own == [panel EXCEPT ![c.panel] = AfterAnswer(c, @, ok)] IN
      IF ok \/ P.panels[c.panel].picks = None THEN own
      ELSE [own EXCEPT ![P.panels[c.panel].picks].error = TRUE]

\* The first answer of a list of ships or areas selects one, unless it is empty.
Scopes(k, ok) ==
    LET d == P.panels[k].picks IN
      {scope} \union (IF d # None /\ ok /\ scope.at[d] = None
                      THEN {[scope EXCEPT !.at[d] = v] : v \in Values} ELSE {})

\* A load that an action waits for takes its flag down; an answer of the list
\* of clients rebuilds the flags of all its rows.
BusyAfterLoad(c, ok) ==
    IF c.of # None THEN Lowered(P.acts[c.of], c.row)
    ELSE IF ok /\ Has(c.panel, "resets") THEN [busy EXCEPT !["save"] = {}]
    ELSE busy

LoadAnswer ==
    \E c \in flight, ok \in BOOLEAN :
      /\ c.op = "load"
      /\ Ends(ok) /\ Counted(ok)
      /\ busy' = BusyAfterLoad(c, ok)
      /\ \E t \in Scopes(c.panel, ok) :
           IF IsCurrent(c)
           THEN Render(t, AfterLoad(c, ok), IF ok THEN {c.panel} ELSE {}, {}, flight \ {c})
           ELSE Render(t, panel, {}, {}, flight \ {c})
      /\ UNCHANGED <<page, clicks>>

\* The read of one record after a change of it: no loading flag, and no notice.
RegetAnswer ==
    \E c \in flight, ok \in BOOLEAN :
      /\ c.op = "reget"
      /\ Ends(ok) /\ Counted(ok)
      /\ busy' = Lowered(P.acts[c.of], c.row)
      /\ panel' = IF ok
                  THEN [panel EXCEPT ![c.panel].shown = c.asked, ![c.panel].read = c.since]
                  ELSE panel
      /\ flight' = flight \ {c}
      /\ doubt' = IF ok THEN doubt ELSE doubt \union {c.panel}
      /\ UNCHANGED <<page, clicks, scope>>

\* The panels that an action changes the data of, as far as its handler goes
\* on to show it.
Targets(name) ==
    (P.acts[name].fills \union {P.acts[name].reloads, P.acts[name].regets}) \ {None}

AfterChange(name) ==
    [k \in Panels |->
       [panel[k] EXCEPT
          !.told  = @ + BumpOf(k \in Targets(name)),
          !.read  = IF k \in P.acts[name].fills THEN panel[k].told + 1 ELSE @,
          !.shown = IF k \in P.acts[name].fills THEN Asked(k, scope) ELSE @]]

ActDone(c) ==
    LET a == P.acts[c.of]
        next == Follows(c.of)
        pan == AfterChange(c.of)
    IN IF a.leaves THEN Leave
       ELSE /\ \/ /\ next.reloads # None
                  /\ LET r == Request("load", next.reloads, c.asked, panel[next.reloads].id + 1,
                                      pan[next.reloads].told, c.of, c.row)
                     IN Render(scope, pan, {}, {r}, flight \ {c})
                  /\ UNCHANGED busy
               \/ /\ next.regets # None
                  /\ LET r == Request("reget", next.regets, Asked(next.regets, scope), c.id,
                                      pan[next.regets].told, c.of, c.row)
                     IN Render(scope, pan, {}, {r}, flight \ {c})
                  /\ UNCHANGED busy
               \/ /\ next.reloads = None /\ next.regets = None
                  /\ Render(scope, pan, {}, {}, flight \ {c})
                  /\ busy' = Lowered(a, c.row)
            /\ UNCHANGED page

ActFailed(c) ==
    LET a == P.acts[c.of] IN
      /\ busy' = Lowered(a, c.row)
      /\ panel' = IF a.reports = None THEN panel
                  ELSE [panel EXCEPT ![a.reports].error = TRUE]
      /\ flight' = flight \ {c}
      /\ UNCHANGED <<page, scope, doubt>>

ActAnswer ==
    \E c \in flight, ok \in BOOLEAN :
      /\ c.op = "act"
      /\ Ends(ok) /\ Counted(ok)
      /\ IF ok THEN ActDone(c) ELSE ActFailed(c)
      /\ UNCHANGED clicks

---------------------------------------------------------------------------
Blank(k) == [shown |-> None, read |-> 0, told |-> 0, id |-> 0,
             loading |-> Has(k, "waits"), error |-> FALSE]

\* A page is opened: the effects of its first render have begun.
InitPage ==
    /\ \E at \in {f \in [DOMAIN P.starts -> Values \union {None}] :
                    \A d \in DOMAIN P.starts : f[d] \in P.starts[d]} :
         scope = [tab |-> P.first, at |-> at]
    /\ LET blank == [k \in Panels |-> Blank(k)]
           begun == {k \in Panels : Watched(k, scope, blank)}
       IN /\ panel = [k \in Panels |-> IF k \in begun THEN Begun(k, Blank(k), 1) ELSE Blank(k)]
          /\ flight = {Request("load", k, Asked(k, scope), 1, 0, None, None) : k \in begun}
    /\ busy = [f \in Flags |-> {}]
    /\ doubt = {}

\* No page of these is open.
InitNoPage ==
    /\ scope = [tab |-> "Main", at |-> <<>>]
    /\ panel = <<>> /\ busy = <<>> /\ flight = {} /\ doubt = {}

PortalStep ==
    /\ page \in PagesShown
    /\ \/ \E tab \in DOMAIN P.tabs : SelectTab(tab)
       \/ \E d \in DOMAIN P.starts, v \in Values : Select(d, v)
       \/ \E k \in Panels : Refetch(k)
       \/ \E name \in DOMAIN P.acts : \E row \in RowsOf(P.acts[name]) : Act(name, row)
       \/ LeavePage
       \/ LoadAnswer
       \/ RegetAnswer
       \/ ActAnswer

\* Every HTTP request ends, with an answer or with an error.
PortalFairness ==
    WF_<<page, failures, portalVars>>(page \in PagesShown /\ (LoadAnswer \/ RegetAnswer \/ ActAnswer))

---------------------------------------------------------------------------
\* The panel's loading flag is down, its last request did not fail, and no
\* request without a flag is outstanding.
Settled(k) ==
    /\ ~panel[k].loading /\ ~panel[k].error /\ k \notin doubt
    /\ \A c \in flight : Puts(c, k) => c.op = "load" /\ ~Has(k, "quiet")

\* A panel that is drawn and settled shows what the selections ask for now:
\* no ship's report under another ship's name. Where requests are numbered
\* that is so in whatever order the answers come. A panel without numbers is
\* left out once its requests have overlapped (doubt): it shows the answer
\* that came last. Left out as well are the panels that only a click reads,
\* which keep what it asked for.
PanelShowsSelection ==
    page \in PagesShown =>
      \A k \in Available("shows") :
        (P.panels[k].on # {} /\ Watched(k, scope, panel) /\ Settled(k))
          => panel[k].shown = Asked(k, scope)

\* What the operator has changed is seen: a settled panel shows data that
\* contain every change its page was told of.
ChangesAreShown ==
    page \in PagesShown =>
      \A k \in Panels : (panel[k].shown # None /\ Settled(k)) => panel[k].read = panel[k].told

\* A panel that is drawn is loading, or a button waits for its action.
Loads(k) == k \in Available("shows") /\ panel[k].loading
ButtonWaits == \E f \in Flags : busy[f] # {}

\* The ship or the area that the panel is about has been selected.
Selected(k) == \A d \in P.panels[k].by : scope.at[d] # None

\* When the operator stops, no panel that has what to ask for goes on loading
\* and every button comes back: no answer is dropped as outdated with nothing
\* to follow it.
LoadingEnds ==
    <>[](page \in PagesShown => ~ButtonWaits /\ \A k \in Panels : Selected(k) => ~Loads(k))

---------------------------------------------------------------------------
(* What makes it so.                                                       *)

PortalTypeOK(s, pan, indoubt) ==
    /\ DOMAIN s = {"tab", "at"} /\ s.tab \in DOMAIN P.tabs
    /\ s.at \in [DOMAIN P.starts -> Values \union {None}]
    /\ DOMAIN pan = Panels
    /\ \A k \in Panels :
         /\ DOMAIN pan[k] = {"shown", "read", "told", "id", "loading", "error"}
         /\ pan[k].id \in Nat /\ pan[k].told \in Nat
    /\ \A k \in indoubt : k \in Panels /\ ~Has(k, "numbered")

\* What a call carries; and what an action needed is still there, where a
\* failure does not empty it.
CallFits(c, pan) ==
    LET there(k) == Has(k, "empties") \/ pan[k].shown # None IN
      \/ c.op = "load" /\ c.panel \in Panels /\ c.asked # None
      \/ /\ c.op = "reget" /\ c.panel \in Panels /\ c.asked # None
         /\ ~Has(c.panel, "numbered") /\ ~Has(c.panel, "empties") /\ pan[c.panel].shown # None
      \/ /\ c.op = "act" /\ c.of \in DOMAIN P.acts
         /\ P.acts[c.of].reloads # None => c.asked # None
         /\ P.acts[c.of].needs # None => there(P.acts[c.of].needs)

\* The calls whose answers will be put into panel k, when its state is p.
Writers(k, p, calls) == {c \in calls : Puts(c, k) /\ (Has(k, "numbered") => c.id = p.id)}

\* There is one at most. A read that is under way is for what is asked, if
\* that is watched, and shows all changes; or what is shown does, unless the
\* error notice is up.
PanelFits(k, watched, asked, p, calls) ==
    LET writers == Writers(k, p, calls) IN
      /\ \A c, d \in writers : c = d
      /\ \A c \in writers :
           c.op # "act" =>
             /\ c.op = "load" /\ ~Has(k, "quiet") => p.loading
             /\ watched => c.asked = asked
             /\ c.since = p.told
      /\ ~p.error /\ (\A c \in writers : c.op = "act") =>
           /\ watched => p.shown = asked
           /\ p.shown # None => p.read = p.told

\* The number of a request is not above the panel's; and no change is made
\* where requests are numbered.
NumbersFit(k, p, calls) ==
    Has(k, "numbered") =>
      /\ p.read = p.told
      /\ \A c \in calls : c.op # "act" /\ c.panel = k =>
           c.id \in Nat /\ c.id <= p.id /\ c.since = p.told

PortalFits(s, pan, calls, indoubt) ==
    /\ PortalTypeOK(s, pan, indoubt)
    /\ \A c \in calls : CallFits(c, pan)
    /\ \A k \in Panels :
         /\ NumbersFit(k, pan[k], calls)
         /\ k \in indoubt \/ PanelFits(k, Watched(k, s, pan), Asked(k, s), pan[k], calls)

PortalInv == page \in PagesShown => PortalFits(scope, panel, flight, doubt)
=============================================================================
