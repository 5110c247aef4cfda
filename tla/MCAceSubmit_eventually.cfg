\* One message, three deliveries, three failures, reads of the row among them.
SPECIFICATION FairSpec
CONSTANTS
    d1 = d1  d2 = d2  g1 = g1
    m1 = m1  m2 = m2  p1 = p1  solution = solution
    None = None
    GovWinIds = {g1}
    Deals = {d1}
    Msgs = {m1}
    DealOf <- MCOneDeal
    GovWinOf <- MCSameId
    HasSolution = {}
    Products = {p1}
    Solution = solution
    MaxReceive = 3
    MaxConcurrent = 1
    MaxFaults = 3
    Faults = {"abort", "stale_read", "read_error"}
PROPERTIES
    EventuallySubmitted
