\* The parts on their own, one at a time.
SPECIFICATION PartsSpec
CONSTANTS
    h1 = h1  description = description  dealname = dealname  nextSteps = nextSteps  dealstage = dealstage
    Empty = Empty  Note = Note  Unset = Unset  Stub = Stub
    Parts = {"events", "associations", "forms", "requests", "tokens", "limits", "caches",
             "pair", "mirror"}
    \* AceEvents
    Handlers = {h1}
    Foreign = TRUE
    Findable = TRUE
    Reviews <- MCReviews
    MaxOpps = 1
    MaxEvents = 4
    MaxSubmits = 1
    Faults = {"crash", "duplicate", "no_get", "no_read", "no_write"}
    MaxFaults = 1
    \* Associations
    Items = {i1, i2}
    Workers = {w1}
    OwnWrites = TRUE
    MaxChanges = 3
    MaxRefusals = 1
    MaxCrashes = 1
    \* AceForms
    Deals <- MCDeals
    Customers <- MCCustomers
    Forms <- MCForms
    InCentral <- MCInCentral
    MaxFormEdits = 2
    MaxInCentral = 1
    \* HubSpotRequests
    Lambdas = {x1}
    PerSecond = 2
    MaxAge = 2
    Ahead = 1
    Made = {"edit"}
    MaxClock = 3
    MaxDeliveries = 2
    MaxTries = 2
    RequestFaults = {"crash", "no_sqs", "no_hubspot"}
    MaxRequestFaults = 1
    \* GovWinClient
    Clients = {c1, c2}
    Life = 3
    Buffer = 1
    MaxNow = 3
    MaxTokens = 2
    TokenFaults = {"withdraw", "no_refresh", "no_answer", "no_vault", "no_put"}
    MaxTokenFaults = 1
    \* RateLimits
    Window = 3
    Quota = 3
    Margin = 1
    Rate <- MCRate
    Second = 2
    MaxTicks = 6
    MaxCalls = 5
    \* ContainerCaches
    Containers = {c1}
    Ttl = 2
    Delay = 1
    MaxTime = 5
    MaxVersions = 2
    MaxOutages = 1
CHECK_DEADLOCK FALSE
CONSTRAINTS
    RequestsInTime
    PairUndisturbed
INVARIANTS
    PartsTypeOK
    AlertsOnce
    OrphansAreForeign
    IndexFollowsRow
    DealFollowsAws
    ListReachesAws
    BodiesAreAccepted
    EditsAgree
    ServedApart
    ChangesAreQueued
    SubmitHasForm
    RefusedNotReused
    StaleForTtlAtMost
    QuotaKept
    DoneStaysAtAws
    MirroredAtRest
    MirrorAbsorbsContention
PROPERTIES
    FirstTriesEditOneField
