\* The list of products edited once the deal is submitted, from the deal and
\* from the Update card.
SPECIFICATION AssociationSpec
CONSTANTS
    Items = {i1, i2}
    Workers = {w1}
    OwnWrites = TRUE
    MaxChanges = 2
    MaxRefusals = 0
    MaxCrashes = 0
CHECK_DEADLOCK FALSE
INVARIANT CardListReachesAws
