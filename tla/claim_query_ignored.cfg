CONSTANTS
    Peer = {r1, r2}
    Dest = {d1}
    PrefixLen <- Lengths
    AnyNet = AnyNet
    Misread = Misread
    Delay <- Delays
    Heard = {20}
    Reliability <- Reliabilities
    Nexthop = {8}
    ExtData <- Exts
    Coeff = {1}
    Weight = {0, 1}
    Default <- Defaults
    Scaler = 4
    Word = 64
    WideWord = 256
    MaxTlvs = 2
    MaxCount = 3
SYMMETRY Alike
SPECIFICATION Spec
INVARIANT QueryProcessed
