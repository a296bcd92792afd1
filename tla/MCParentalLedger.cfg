CONSTANTS
    Leases = {l1, l2, l3}
    Sessions = {s1}
    Policies <- MCPolicies
    Rules <- MCRules
    MaxGrant = 2
    Requests = {2}
    MaxLeases = 2
    MaxSettled = 2
    Retain = 4
    Last = 6
    NoLease = NoLease
SPECIFICATION Spec
SYMMETRY LeaseSymmetry
INVARIANTS TypeOK HeardIsCharged StreamIsBacked ClosingFits
PROPERTY WithinLimits
