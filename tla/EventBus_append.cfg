SPECIFICATION Spec
CONSTANTS
    Payloads = {v1, v2}
    NoTenant = NoTenant
    s1 = s1
    s2 = s2
    w1 = w1
    w2 = w2
    c1 = c1
    v1 = v1
    v2 = v2
    Reloaded <- AllReloadAsV1
    Storages = {s1, s2}
    Partitions <- JoinedPartitions
    Tenants <- JoinedTenants
    EpochNumbers = {1}
    Consumers = {}
    Workers = {}
    ConsumerOf <- NoFunction
    StorageOf <- NoFunction
    TenantFilter <- NoFunction
    BatchSize = 1
    MaxEvents = 3
INVARIANTS
    ChainIntact
    HeadMatchesEvents
    GlobalOrderAgrees
    OnlyStaleAppendsRefused
PROPERTIES
    ImplementsLog
