\* Two workers and no failure.
SPECIFICATION Spec
CONSTANTS
    o1 = o1  o2 = o2  c1 = c1  p1 = p1
    msg1 = msg1  msg2 = msg2
    Opps = {o1, o2}
    Objects = {c1, p1}
    Related <- MCRelated
    Messages = {msg1, msg2}
    BatchSize = 2
    MaxReceive = 2
    MaxConcurrent = 2
    MaxVersion = 2
    Faults = {}
    MaxFaults = 0
INVARIANT WatermarkMeansSynced
