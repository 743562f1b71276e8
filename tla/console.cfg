SPECIFICATION Spec
CONSTANTS
    None = None
    Rows = {r1, r2}
    Values = {v1, v2}
    FirstValue = v1
    Networks = {n1, n2}
    PagesShown <- MCPages
    MaxClicks <- MCClicks
    MaxFailures = 1
CHECK_DEADLOCK FALSE
INVARIANTS
    PanelShowsSelection
    ChangesAreShown
    SettingsStay
    MembersStay
PROPERTIES
    LoadingEnds
