SPECIFICATION Spec
CONSTANTS
    CtxMax = 1
    MaxTid = 255
    Gids = {0, 1}
    Tids = {1, 2}
    Nsids <- MCNsids
INVARIANT TypeOK NsidFromLiveContext
