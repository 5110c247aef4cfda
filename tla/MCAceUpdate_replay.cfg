\* One edit, from the deal or from the card, before or after the submission is
\* recorded, through a review that may be reopened; the event handler and the
\* sweep race to replay it; events get lost.
SPECIFICATION FairSpec
CONSTANTS
    amount = amount  description = description
    nextSteps = nextSteps  stage = stage
    h1 = h1  s1 = s1  Empty = Empty  Note = Note
    NextSteps = nextSteps  Stage = stage
    Props = {amount}
    Refetched = {}
    Handlers = {h1}
    Sweeps = {s1}
    Cards = TRUE
    Reviews <- MCAccepted
    FirstReview = "Pending Submission"
    Created = FALSE
    MaxEdits = 1
    MaxEvents = 1
    MaxReceive = 2
    MaxConcurrent = 1
    Faults = {"crash", "no_read", "no_event", "duplicate"}
    MaxFaults = 1
INVARIANTS
    EditsLand
PROPERTIES
    ParkedIsReplayed
