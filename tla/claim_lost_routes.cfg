SPECIFICATION Spec
CONSTANTS
    n1 = n1
    n2 = n2
    Nbr = {n1, n2}
    NoNbr = none
    MaxMetric = 31
    Heard <- MCHeard
    StackBw = {1}
    LinkBw <- MCLinkBw
    LinkDelay <- MCLinkDelay
    FilteredIn = {}
    Variance = 2
    MaxPaths = 1
    WorkBound = 1
    ChangesBound = 1
INVARIANT
    LostRoutesInfinite
CHECK_DEADLOCK FALSE
