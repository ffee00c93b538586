SPECIFICATION Spec
CONSTANTS
    search = search
    lanIp = lanIp
    h1 = h1
    h2 = h2
    r1 = r1
    r2 = r2
    c1 = c1
    Hub = Hub
    Nobody = Nobody
    Settings <- MCSettings
    Pins <- MCPins
    Seeded <- MCSeeded
    Fallback <- MCFallback
    Handlers <- MCHandlers
    Readers <- MCReaders
    Clients <- MCClients
    MaxRow = 1
    MaxIncidents = 4
SYMMETRY Symmetry
INVARIANTS
    SharedTracksStored
    PagesAgree
    ConnectMissesNothing
CHECK_DEADLOCK FALSE
