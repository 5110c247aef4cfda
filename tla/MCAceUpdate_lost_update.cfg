\* Two edits of different properties at the same time.
SPECIFICATION Spec
CONSTANTS
    amount = amount  description = description
    nextSteps = nextSteps  stage = stage
    h1 = h1  s1 = s1  Empty = Empty  Note = Note
    NextSteps = nextSteps  Stage = stage
    Props = {amount, description}
    Refetched = {}
    Handlers = {}
    Sweeps = {}
    Cards = FALSE
    Reviews <- MCNone
    FirstReview = "Approved"
    Created = TRUE
    MaxEdits = 2
    MaxEvents = 0
    MaxReceive = 2
    MaxConcurrent = 2
    Faults = {}
    MaxFaults = 0
PROPERTIES
    OnlyTheEditedField
