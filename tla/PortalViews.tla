---------------------------- MODULE PortalViews ----------------------------
(***************************************************************************)
(* The pages of the operator's portal (frontend/src/pages), as data: which *)
(* panels of data a page keeps, when it reads them, and what the operator  *)
(* can do on each tab. What the pages do with this is in PortalPages.      *)
(*                                                                         *)
(* What a panel draws, the forms and their checks, the dialogs that ask    *)
(* for a confirmation and the clipboard are outside the model.             *)
(***************************************************************************)
CONSTANTS
    None,
    Rows,        \* rows of a table
    Values,      \* ships, areas, filters, ranges: values a selection can have,
    FirstValue   \* and the one that a selection with a default begins with

Tabs == {"Main", "Traffic", "Interface", "Users", "Push", "Overview", "Package", "Usage",
         "Sessions", "History", "WAN", "Interfaces", "Devices", "Health", "CREW", "BUSINESS",
         "Flow", "Other", "network", "finance"}

\* A panel: the tabs on which an effect reads it, the selections that it asks
\* for, the panel that has to be there first, the selection that its first
\* answer makes for the panel of that name, and further features:
\*   numbered  only the answer to the newest request is applied
\*   cleans    the effect has a cleanup, which outdates the request it began
\*   empties   a failure empties the panel
\*   quiet     there is no loading flag
\*   each      read again after every answer of the panel it follows
\*   hides     its rows are not drawn while it loads
\*   resets    its answer takes down the flags of the rows being saved
\*   waits     the loading flag is up from the start, before any request
Panel(by, is) == [on |-> Tabs, by |-> by, after |-> None, picks |-> None, is |-> is]
OnTabs(tabs, p) == [p EXCEPT !.on = tabs]
After(parent, p) == [p EXCEPT !.after = parent]
Picking(dim, p) == [p EXCEPT !.picks = dim]
\* A panel that only a click of the operator reads or fills.
OnClick(p) == OnTabs({}, p)

\* A tab: the panels drawn, the selections made there, the buttons that read
\* a panel again (always, or after a failure), and the actions on offer.
View(shows) == [shows |-> shows, asks |-> {}, reloads |-> {}, retries |-> {}, offers |-> {}]
Asking(dims, v) == [v EXCEPT !.asks = @ \union dims]
Reloading(panels, v) == [v EXCEPT !.reloads = @ \union panels]
Retrying(panels, v) == [v EXCEPT !.retries = @ \union panels]
Both(v, w) == [f \in DOMAIN v |-> v[f] \union w[f]]
Offering(acts, v) == [v EXCEPT !.offers = @ \union acts]

\* An action: the flag that disables its button (of the page, of the row that
\* was clicked last, or one of each row), the panel it needs, the panels that
\* its answer fills, the one read afterwards, with or without the loading
\* flag, the one whose notice shows its failure, and whether the page
\* is left.
Action(flag, needs) ==
    [busy |-> flag, per |-> "page", needs |-> needs, fills |-> {}, reloads |-> None,
     regets |-> None, reports |-> None, leaves |-> FALSE]
PerRow(a) == [a EXCEPT !.per = "row"]
PerEachRow(a) == [a EXCEPT !.per = "each"]
ThenReload(p, a) == [a EXCEPT !.reloads = p]
ThenReget(p, a) == [a EXCEPT !.regets = p]
Filling(panels, a) == [a EXCEPT !.fills = panels]
Reporting(p, a) == [a EXCEPT !.reports = p]
ThenLeave(a) == [a EXCEPT !.leaves = TRUE]

---------------------------------------------------------------------------
(* DeviceDetail.tsx: a router, its traffic and its credentials.            *)

DevicePanel == Panel({}, {"waits"})
TrafficPanel == OnTabs({"Traffic"}, Panel({"range"}, {"waits"}))
DeviceCrewPanel == After("device", OnTabs({"Traffic"}, Panel({"range"}, {"waits"})))
InterfaceTrafficPanel == OnTabs({"Interface"}, Panel({"range"}, {"waits"}))
DeviceUsersPanel == OnTabs({"Users"}, Panel({}, {"waits"}))
RadiusSettingsPanel == OnTabs({"Push"}, Panel({}, {"quiet", "empties"}))
RevealedSecret == OnClick(Panel({}, {"quiet"}))

SaveIpAddress == Filling({"device"}, Action("ip", "device"))
SetPushKey == ThenReget("device", Action("key", "device"))
RevokeKey == ThenReget("device", Action("key", "device"))
SetRadiusSecret == Filling({"secret"}, ThenReget("device", Action("radius", "device")))
RevokeRadiusSecret == SetRadiusSecret
RevealRadiusSecret == Filling({"secret"}, Action("reveal", "device"))

DeviceHeader == Retrying({"device"}, View({"device"}))
DeviceTrafficTab ==
    Asking({"range"}, Retrying({"traffic", "crew"}, View({"traffic", "crew"})))
DeviceInterfaceTab ==
    Asking({"range"}, Retrying({"interfaceTraffic"}, View({"interfaceTraffic"})))
DeviceUsersTab == Retrying({"users"}, View({"users"}))
DevicePushTab ==
    Offering({"saveIp", "setKey", "revokeKey", "setSecret", "revokeSecret", "reveal"},
             View({"settings", "secret"}))

DeviceDetail ==
    [main |-> "device", first |-> "Traffic", starts |-> [range |-> {FirstValue}],
     panels |-> [device |-> DevicePanel, traffic |-> TrafficPanel,
                 crew |-> DeviceCrewPanel, interfaceTraffic |-> InterfaceTrafficPanel,
                 users |-> DeviceUsersPanel, settings |-> RadiusSettingsPanel,
                 secret |-> RevealedSecret],
     acts |-> [saveIp |-> SaveIpAddress, setKey |-> SetPushKey, revokeKey |-> RevokeKey,
               setSecret |-> SetRadiusSecret, revokeSecret |-> RevokeRadiusSecret,
               reveal |-> RevealRadiusSecret],
     frame |-> DeviceHeader,
     tabs |-> [Traffic |-> DeviceTrafficTab, Interface |-> DeviceInterfaceTab,
               Users |-> DeviceUsersTab, Push |-> DevicePushTab]]

---------------------------------------------------------------------------
(* SubscriberDetail.tsx: a subscriber, the usage, sessions and history.    *)

SubscriberPanel == Panel({}, {"waits"})
SessionsPanel == After("subscriber", Panel({}, {"empties", "hides"}))
CrewUserPanel == After("subscriber", Panel({}, {"empties"}))
AuditPanel == Panel({}, {"empties"})

SaveEdit == ThenReload("subscriber", Action("edit", "subscriber"))
ResetQuota == ThenReload("subscriber", Action("quota", "subscriber"))
DeleteThisSubscriber == ThenLeave(Action("delete", "subscriber"))
SetPassword == ThenReget("subscriber", Action("password", "subscriber"))
RevokePassword == ThenReget("subscriber", Action("password", "subscriber"))
DisconnectSession == PerRow(ThenReload("sessions", Action("session", "sessions")))

SubscriberHeader ==
    Offering({"saveEdit", "setPassword", "revokePassword", "delete"},
             Retrying({"subscriber"}, View({"subscriber"})))
OverviewTab == Offering({"resetQuota"}, View({"sessions"}))
PackageTab == View({})
UsageTab == Retrying({"crewUser"}, View({"crewUser"}))
SessionsTab == Offering({"disconnect"}, Retrying({"sessions"}, View({"sessions"})))
HistoryTab == Retrying({"audit"}, View({"audit"}))

SubscriberDetail ==
    [main |-> "subscriber", first |-> "Overview", starts |-> <<>>,
     panels |-> [subscriber |-> SubscriberPanel, sessions |-> SessionsPanel,
                 crewUser |-> CrewUserPanel, audit |-> AuditPanel],
     acts |-> [saveEdit |-> SaveEdit, resetQuota |-> ResetQuota,
               delete |-> DeleteThisSubscriber, setPassword |-> SetPassword,
               revokePassword |-> RevokePassword, disconnect |-> DisconnectSession],
     frame |-> SubscriberHeader,
     tabs |-> [Overview |-> OverviewTab, Package |-> PackageTab, Usage |-> UsageTab,
               Sessions |-> SessionsTab, History |-> HistoryTab]]

---------------------------------------------------------------------------
(* ShipDashboard.tsx: a ship, one tab for each of its reports.             *)

ShipListPanel == Picking("ship", Panel({}, {"waits"}))
ShipPanel == Panel({"ship", "filters"}, {"numbered", "waits"})
ReconciliationPanel ==
    OnTabs({"WAN"}, Panel({"ship", "filters", "mode"}, {"numbered", "empties"}))
InterfacesPanel == OnTabs({"Interfaces"}, Panel({"ship"}, {"numbered", "cleans"}))
HealthPanel == OnTabs({"Health"}, Panel({}, {"numbered"}))
DevicesPanel == OnTabs({"Devices"}, Panel({"ship"}, {"numbered", "cleans"}))
CrewPanel == OnTabs({"CREW"}, Panel({"ship", "filters"}, {"numbered"}))
CrewSessionsPanel == OnClick(Panel({"ship"}, {"numbered", "quiet"}))
BusinessPanel == OnTabs({"BUSINESS", "Flow"}, Panel({"ship", "filters"}, {"numbered"}))

CreateShip == ThenReload("ships", Action("saving", None))

\* The list of ships, the filters and the state of the ship.
ShipFrame ==
    Asking({"ship", "filters"}, Reloading({"ship"}, Retrying({"ship"}, View({"ships", "ship"}))))
CreateShipModal == Offering({"createShip"}, View({}))
ShipOverviewTab == View({"ship"})
ReconciliationTab ==
    Asking({"mode"}, Retrying({"reconciliation"}, View({"reconciliation"})))
InterfacesTab == View({"interfaces"})
DevicesTab == View({"devices"})
HealthTab == Retrying({"health"}, View({"health"}))
CrewTab == Reloading({"crewSessions"}, Retrying({"crew"}, View({"crew", "crewSessions"})))
BusinessTab == Retrying({"business"}, View({"business"}))
TrafficFlowTab == Retrying({"business"}, View({"business"}))

ShipDashboard ==
    [main |-> "ship", first |-> "Overview",
     starts |-> [ship |-> Values \union {None}, filters |-> {FirstValue},
                 mode |-> {FirstValue}],
     panels |-> [ships |-> ShipListPanel, ship |-> ShipPanel,
                 reconciliation |-> ReconciliationPanel, interfaces |-> InterfacesPanel,
                 health |-> HealthPanel, devices |-> DevicesPanel, crew |-> CrewPanel,
                 crewSessions |-> CrewSessionsPanel, business |-> BusinessPanel],
     acts |-> [createShip |-> CreateShip],
     frame |-> Both(ShipFrame, CreateShipModal),
     tabs |-> [Overview |-> ShipOverviewTab, WAN |-> ReconciliationTab,
               Interfaces |-> InterfacesTab, Devices |-> DevicesTab, Health |-> HealthTab,
               CREW |-> CrewTab, BUSINESS |-> BusinessTab, Flow |-> TrafficFlowTab,
               Other |-> View({})]]

---------------------------------------------------------------------------
(* GlobalDashboard.tsx and AreaDashboard.tsx: the fleet and its areas.     *)

GlobalPanel == Panel({"filters"}, {"numbered", "empties", "waits"})
FinancePanel == Panel({}, {"empties", "waits"})
NetworkTab ==
    Asking({"filters"}, Reloading({"global"}, Retrying({"global"}, View({"global"}))))
FinanceTab == Retrying({"finance"}, View({"finance"}))

GlobalDashboard ==
    [main |-> None, first |-> "network", starts |-> [filters |-> {FirstValue}],
     panels |-> [global |-> GlobalPanel, finance |-> FinancePanel],
     acts |-> <<>>,
     frame |-> View({}),
     tabs |-> [network |-> NetworkTab, finance |-> FinanceTab]]

AreaListPanel == Picking("area", Panel({}, {"waits"}))
AreaPanel == Panel({"area", "filters"}, {"numbered", "waits"})
AreaView ==
    Asking({"area", "filters"}, Reloading({"area"}, Retrying({"area"}, View({"areas", "area"}))))

AreaDashboard ==
    [main |-> None, first |-> "Main",
     starts |-> [area |-> {None}, filters |-> {FirstValue}],
     panels |-> [areas |-> AreaListPanel, area |-> AreaPanel],
     acts |-> <<>>,
     frame |-> View({}),
     tabs |-> [Main |-> AreaView]]

---------------------------------------------------------------------------
(* Devices.tsx: the routers, and the wizard that adds one.                 *)

DeviceListPanel == Panel({}, {"hides", "waits"})
DeviceUsagePanel == After("devices", Panel({}, {"each"}))
ServerAddressPanel == Panel({}, {"quiet", "empties"})
CreatedDevice == OnClick(Panel({}, {"quiet"}))

DeleteDevice == PerRow(Reporting("devices", ThenReload("devices", Action("device", "devices"))))
ToggleMaintenance == DeleteDevice
\* The wizard: a router is created, and only then given its credentials.
SubmitStep2 == Filling({"created"}, Action("wizard", None))
SavePushKey == Action("token", "created")
SaveRadiusSecret == Action("token", "created")

DeviceTable == Offering({"delete", "toggle"}, Reloading({"devices"}, View({"devices", "usage"})))
DeviceWizard == Offering({"create", "savePushKey", "saveSecret"}, View({}))

Devices ==
    [main |-> None, first |-> "Main", starts |-> <<>>,
     panels |-> [devices |-> DeviceListPanel, usage |-> DeviceUsagePanel,
                 server |-> ServerAddressPanel, created |-> CreatedDevice],
     acts |-> [delete |-> DeleteDevice, toggle |-> ToggleMaintenance,
               create |-> SubmitStep2, savePushKey |-> SavePushKey,
               saveSecret |-> SaveRadiusSecret],
     frame |-> DeviceWizard,
     tabs |-> [Main |-> DeviceTable]]

---------------------------------------------------------------------------
(* Users.tsx: the subscribers that fit the filters, one by one or many at  *)
(* once.                                                                   *)

UserListPanel == Panel({"filters"}, {"waits"})

CreateSubscriber == ThenReload("users", Action("saving", None))
DeleteSubscriber == PerRow(Reporting("users", ThenReload("users", Action("row", "users"))))
ToggleLock == DeleteSubscriber
BulkAction == ThenReload("users", Action("bulk", "users"))

UserHeader ==
    Asking({"filters"}, Reloading({"users"}, Retrying({"users"}, View({"users"}))))
UserTable == Offering({"delete", "toggleLock", "bulk"}, UserHeader)
UserModal == Offering({"create"}, View({}))

Users ==
    [main |-> None, first |-> "Main", starts |-> [filters |-> {FirstValue}],
     panels |-> [users |-> UserListPanel],
     acts |-> [create |-> CreateSubscriber, delete |-> DeleteSubscriber,
               toggleLock |-> ToggleLock, bulk |-> BulkAction],
     frame |-> UserModal,
     tabs |-> [Main |-> UserTable]]

---------------------------------------------------------------------------
(* Tenants.tsx and Packages.tsx: a list, and a form for what is selected.  *)

TenantListPanel == Panel({}, {"waits"})

SaveTenant == ThenReload("tenants", Action("saving", "tenants"))
RemoveTenant == Reporting("tenants", ThenReload("tenants", Action(None, "tenants")))
CreateTenant == ThenReload("tenants", Action("create", None))
SetTenantPassword == ThenReload("tenants", Action("password", "tenants"))
RevokeTenantPassword == SetTenantPassword

TenantList == Retrying({"tenants"}, Offering({"remove"}, View({"tenants"})))
TenantForm == Offering({"save", "setPassword", "revokePassword"}, TenantList)
TenantModal == Offering({"create"}, View({}))

Tenants ==
    [main |-> None, first |-> "Main", starts |-> <<>>,
     panels |-> [tenants |-> TenantListPanel],
     acts |-> [save |-> SaveTenant, remove |-> RemoveTenant, create |-> CreateTenant,
               setPassword |-> SetTenantPassword, revokePassword |-> RevokeTenantPassword],
     frame |-> TenantModal,
     tabs |-> [Main |-> TenantForm]]

PackageListPanel == Panel({}, {"waits"})

SavePackage == ThenReload("packages", Action("saving", None))
RemovePackage == Reporting("packages", ThenReload("packages", Action(None, "packages")))

PackageView == Offering({"save", "remove"}, Retrying({"packages"}, View({"packages"})))

Packages ==
    [main |-> None, first |-> "Main", starts |-> <<>>,
     panels |-> [packages |-> PackageListPanel],
     acts |-> [save |-> SavePackage, remove |-> RemovePackage],
     frame |-> View({}),
     tabs |-> [Main |-> PackageView]]

---------------------------------------------------------------------------
(* RadiusAaa.tsx: the RADIUS server, its clients and their secrets.        *)

MonitoringPanel == Panel({}, {"waits"})
NasPanel == Panel({}, {"resets", "waits"})
ServerSettingsPanel == Panel({}, {"quiet"})
NasSecrets == OnClick(Panel({}, {"quiet"}))

SaveNas == PerEachRow(Filling({"nas"}, Action("save", "nas")))
RevealNasSecret == PerEachRow(Filling({"secrets"}, Action("reveal", "nas")))

ServerView == Retrying({"settings"}, View({"settings"}))
NasTable ==
    Offering({"save", "reveal"},
             Reloading({"nas"}, Retrying({"nas"}, View({"nas", "secrets"}))))
MonitoringView ==
    Reloading({"monitoring"}, Retrying({"monitoring"}, View({"monitoring"})))

RadiusAaa ==
    [main |-> None, first |-> "Main", starts |-> <<>>,
     panels |-> [monitoring |-> MonitoringPanel, nas |-> NasPanel,
                 settings |-> ServerSettingsPanel, secrets |-> NasSecrets],
     acts |-> [save |-> SaveNas, reveal |-> RevealNasSecret],
     frame |-> Both(ServerView, MonitoringView),
     tabs |-> [Main |-> NasTable]]

---------------------------------------------------------------------------
(* Settings.tsx: the settings of the server, four forms for one record,    *)
(* and the endpoints of its services.                                      *)

RolePanel == Panel({}, {"empties", "waits"})
CorePanel == Panel({}, {"waits"})
EndpointsPanel == Panel({}, {"waits"})

\* SettingsService.update: what a form does not send keeps its value, and the
\* answer is the whole record, with all that the other forms have saved. (An
\* audit row that cannot be written fails nothing.)
UpdateSettings(part) == Filling({"core"}, Action(part, "core"))
SaveDatabase == UpdateSettings("database")
SaveRadius == UpdateSettings("radius")
SaveCollectors == UpdateSettings("collectors")
SaveZerotier == UpdateSettings("zerotier")
CreateEndpoint == ThenReload("endpoints", Action("add", None))
SaveEndpoint == ThenReload("endpoints", Action("edit", "endpoints"))
RemoveEndpoint ==
    PerRow(Reporting("endpoints", ThenReload("endpoints", Action("action", "endpoints"))))
RunAction == RemoveEndpoint

CoreForms ==
    Offering({"database", "radius", "collectors", "zerotier"},
             Retrying({"core"}, View({"role", "core"})))
EndpointsTable ==
    Offering({"add", "edit", "remove", "run"}, Retrying({"endpoints"}, View({"endpoints"})))

Settings ==
    [main |-> None, first |-> "Main", starts |-> <<>>,
     panels |-> [role |-> RolePanel, core |-> CorePanel, endpoints |-> EndpointsPanel],
     acts |-> [database |-> SaveDatabase, radius |-> SaveRadius,
               collectors |-> SaveCollectors, zerotier |-> SaveZerotier,
               add |-> CreateEndpoint, edit |-> SaveEndpoint,
               remove |-> RemoveEndpoint, run |-> RunAction],
     frame |-> CoreForms,
     tabs |-> [Main |-> EndpointsTable]]

---------------------------------------------------------------------------
(* BulkAssign.tsx and Login.tsx.                                           *)

ChoicesPanel == Panel({}, {"waits"})
Apply == Action("applying", "choices")
BulkAssignSteps == Offering({"apply"}, View({"choices"}))

BulkAssign ==
    [main |-> None, first |-> "Main", starts |-> <<>>,
     panels |-> [choices |-> ChoicesPanel], acts |-> [apply |-> Apply],
     frame |-> View({}), tabs |-> [Main |-> BulkAssignSteps]]

HandleSubmit == ThenLeave(Action(None, None))

Login ==
    [main |-> None, first |-> "Main", starts |-> <<>>,
     panels |-> <<>>, acts |-> [submit |-> HandleSubmit],
     frame |-> View({}), tabs |-> [Main |-> Offering({"submit"}, View({}))]]

---------------------------------------------------------------------------
\* The routes of App.tsx, by the names of the pages.
Pages ==
    [deviceDetail |-> DeviceDetail, subscriberDetail |-> SubscriberDetail,
     shipDashboard |-> ShipDashboard, globalDashboard |-> GlobalDashboard,
     areaDashboard |-> AreaDashboard, devices |-> Devices, users |-> Users,
     tenants |-> Tenants, packages |-> Packages, radiusAaa |-> RadiusAaa,
     settings |-> Settings, bulkAssign |-> BulkAssign, login |-> Login]
=============================================================================
