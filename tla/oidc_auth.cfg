\* Two requests over a clock of seven instants; the cooldown is two of them.
SPECIFICATION AuthSpec
CONSTANTS
    Requests = {r1, r2}
    Inputs <- MCInputs
    Documents <- MCDocuments
    Metadata <- MCMetadata
    Issuer <- Https
    Audience = "agentic"
    Cooldown = 2
    Coalesce = 1
    Wait = 1
    DefaultTtl = 5
    MaxTtl = 3
    Skew = 1
    MaxKeys = 2
    MaxTime = 6
    None = None
SYMMETRY Symmetry
INVARIANTS
    BackoffMeansFailure
PROPERTIES
    StaleKeysOnlyCoalesced
    UnknownKeyIsFresh
