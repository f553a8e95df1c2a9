SPECIFICATION MCSpec
CONSTANTS
    MaxPayload = 2
    Contexts <- MCContexts
    ReportsErrors <- MCReportsErrors
    Hosts <- MCHosts
    Via <- MCVia
    Requests <- SettingsRequests
    SettingsSize = 3
    RequestSize = 4
    SendsFail = TRUE
    HostsWait = FALSE
    HostsRestart = TRUE
    MaxRequests = 2
    None = None
    Lengths <- MCLengths
    Ids <- MCIds
    Capacity = 5
INVARIANT
    SettingsStayWhole
PROPERTIES
    AnswersStayWhole
    FramingHolds
    PatientHostsAreAnswered
CHECK_DEADLOCK FALSE
