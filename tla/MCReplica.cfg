CONSTANTS
    MaxCompressed = 10
    MaxUncompressed = 20
    MaxRecords = 5
    MaxNodes = 40
    MaxDepth = 2
    MaxMaterialized = 4000
    MaxProjected = 4000
    MaxNormalized = 5
    Region = "eu"
    AllowedServices <- MCServices
    AllowedEnvironments = {"prod"}
    EnvelopeWeight = 64
    NearCapacityPercent = 50
    EligibleSources = {"otlp"}
    Services <- MCServices
    Declared <- MCDeclared
    MaxEntries = 1
    Concurrency = 1
    MaxCalls = 2
    Exports <- MCExports
    Sent <- MCSent
    Transport <- MCTransport
    Offered <- MCOffered
    Roles <- MCRoles
    MaxInFlight = 2
    Total = 2
    MaxFaults = 1
SPECIFICATION Spec
INVARIANTS
    TypeOK
    StillBeingAsked
    AnsweredAsKept
    DrainedHoldsNothing
PROPERTY ShutdownEnds
