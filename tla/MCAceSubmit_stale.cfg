\* Two deliveries and one stale read.
SPECIFICATION Spec
CONSTANTS
    d1 = d1  d2 = d2  g1 = g1
    m1 = m1  m2 = m2  p1 = p1  solution = solution
    None = None
    GovWinIds = {g1}
    Deals = {d1}
    Msgs = {m1, m2}
    DealOf <- MCOneDeal
    GovWinOf <- MCSameId
    HasSolution = {d1}
    Products = {}
    Solution = solution
    MaxReceive = 1
    MaxConcurrent = 2
    MaxFaults = 1
    Faults = {"stale_read"}
INVARIANTS
    AtMostOneOpportunity
