\* Two deals with the same GovWin id, every failure but a read that is stale.
SPECIFICATION Spec
CONSTANTS
    d1 = d1  d2 = d2  g1 = g1
    m1 = m1  m2 = m2  p1 = p1  solution = solution
    None = None
    GovWinIds = {g1}
    Deals = {d1, d2}
    Msgs = {m1, m2}
    DealOf <- MCTwoDeals
    GovWinOf <- MCSameId
    HasSolution = {d1, d2}
    Products = {}
    Solution = solution
    MaxReceive = 2
    MaxConcurrent = 2
    MaxFaults = 1
    Faults = {"abort", "permanent", "mapping", "aws_lag"}
INVARIANTS
    TypeOK
    AtMostOneOpportunity
    AtMostOneEngagement
    RowAgreesWithAws
    SubmittedMeansEngaged
    SolutionBeforeReview
    CosellIdIsMapped
    ReservationInv
PROPERTIES
    RowOnlyGrows
    ImplementsPromise
