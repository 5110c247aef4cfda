\* One opportunity, one worker, more failures than deliveries of a message.
SPECIFICATION FairSpec
CONSTANTS
    o1 = o1  o2 = o2  c1 = c1  p1 = p1
    msg1 = msg1  msg2 = msg2
    Opps = {o1}
    Objects = {c1, p1}
    Related <- MCRelated
    Messages = {msg1, msg2}
    BatchSize = 2
    MaxReceive = 2
    MaxConcurrent = 1
    MaxVersion = 2
    Faults = {"crash", "fetch", "upsert", "no_reply", "unmapped", "link", "no_rows", "send",
              "duplicate"}
    MaxFaults = 3
PROPERTY EventuallySynced
