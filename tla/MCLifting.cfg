CONSTANTS
    Limit <- MCLimit
    Programs <- MCPrograms
    KernelEntries <- MCKernelEntries
    CodeObjects <- CodeObjectNames
    Symbols <- Names
    Defines <- CodeObjectDefines
    Uses <- CodeObjectUses
    Listed = {"listing"}
    InPlace = {"rel"}
    Malformed = {"bad"}
    ExternalAddresses = {0, 1}
    MaxLoads = 3
SPECIFICATION PartsSpec
INVARIANTS
    BoundToDefinition
    FlowPreserved
    EverythingLifted
PROPERTIES
    DiscoveryEnds
\* Discovery ends: done, failed and aborted have no step.
CHECK_DEADLOCK FALSE
