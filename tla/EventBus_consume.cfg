SPECIFICATION FairSpec
CONSTANTS
    Payloads = {v1}
    NoTenant = NoTenant
    s1 = s1
    s2 = s2
    w1 = w1
    w2 = w2
    c1 = c1
    v1 = v1
    v2 = v2
    Reloaded <- AllReloadAsV1
    Storages = {s1}
    Partitions <- OnePartition
    Tenants <- OneWordTenants
    EpochNumbers = {}
    Consumers = {c1}
    Workers = {w1, w2}
    ConsumerOf <- WorkersShareConsumer
    StorageOf <- OneStorage
    TenantFilter <- FilterA
    BatchSize = 2
    MaxEvents = 3
INVARIANTS
    NothingSkipped
    DeliveredInOrder
PROPERTIES
    EveryEventConsumed
