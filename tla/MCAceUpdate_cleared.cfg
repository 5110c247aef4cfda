\* An edit is parked while the one before it is replayed.
SPECIFICATION Spec
CONSTANTS
    amount = amount  description = description
    nextSteps = nextSteps  stage = stage
    h1 = h1  s1 = s1  Empty = Empty  Note = Note
    NextSteps = nextSteps  Stage = stage
    Props = {amount}
    Refetched = {}
    Handlers = {h1}
    Sweeps = {}
    Cards = FALSE
    Reviews <- MCAccepted
    FirstReview = "In review"
    Created = TRUE
    MaxEdits = 2
    MaxEvents = 1
    MaxReceive = 2
    MaxConcurrent = 1
    Faults = {}
    MaxFaults = 0
INVARIANTS
    ParkedEditLands
