\* A GovWin deal of the sync, submitted: the industry of its agency.
SPECIFICATION FormSpec
CONSTANTS
    Unset = Unset  Stub = Stub
    Deals <- MCDeals
    Customers <- MCCustomers
    Forms <- MCForms
    InCentral <- MCInCentral
    MaxFormEdits = 1
    MaxInCentral = 0
CHECK_DEADLOCK FALSE
INVARIANT AgenciesAreGovernment
