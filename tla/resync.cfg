\* Two interfaces with a neighbour each, two destinations that do not fit in one packet
SPECIFICATION FairSpec
CONSTANTS
    i1 = i1  i2 = i2
    Ifp = {i1, i2}
    Prefix = {1, 2}
    MaxIPv4 = 1
    List <- Lists
    MaxChanges = 2
INVARIANTS TypeOK ChangeAnnounced ResyncGoesOn FilterEnforced
PROPERTY EventuallyTold
