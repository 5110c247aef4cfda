\* One worker; every failure but an answer that skips or reorders deals.
SPECIFICATION Spec
CONSTANTS
    o1 = o1  o2 = o2  c1 = c1  p1 = p1
    msg1 = msg1  msg2 = msg2
    Opps = {o1, o2}
    Objects = {c1, p1}
    Related <- MCRelated
    Messages = {msg1, msg2}
    BatchSize = 2
    MaxReceive = 2
    MaxConcurrent = 1
    MaxVersion = 2
    Faults = {"crash", "fetch", "upsert", "no_reply", "link", "no_rows", "send", "duplicate"}
    MaxFaults = 2
INVARIANTS
    TypeOK
    WatermarkMeansSynced
    LinkedToItsOwn
    SyncInv
PROPERTIES
    DealNeverGoesBack
    AckMeansSynced
    ImplementsReplica
