\* Two rounds of two requests that contend for a single process-wide permit.
SPECIFICATION FairSpec
CONSTANTS
    r1 = r1 r2 = r2 s1 = s1 s2 = s2
    exclusive = exclusive search = search missing = missing
    Tools = {exclusive, search, missing}
    Exclusive = {exclusive}
    Handlerless = {missing}
    Searches = {search}
    MaxOutput = 2
    Sizes = {1, 3}
    Requests = {r1, r2}
    Servers = {s1, s2}
    Configured = {s1}
    Declared <- DeclareTwo
    Batches <- PairBatches
    MaxConcurrentCalls = 1
    MaxMaterializations = 1
    Queries = 1
    MaxQueries = 1
    MaxRounds = 2
    Budget = 5
INVARIANTS
    PermitsReturned
    ChargedIsRetained
PROPERTIES
    RequestProceeds
