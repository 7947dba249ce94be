SPECIFICATION Spec
CONSTANTS
    n1 = n1
    n2 = n2
    Nbr = {n1, n2}
    NoNbr = none
    MaxMetric = 31
    Heard <- EdgeHeard
    StackBw = {0, 1}
    LinkBw <- MCLinkBw
    LinkDelay <- EqualDelay
    FilteredIn = {}
    Variance = 2
    MaxPaths = 2
    WorkBound = 1
    ChangesBound = 1
INVARIANT
    SuccessorAsserted
CHECK_DEADLOCK FALSE
