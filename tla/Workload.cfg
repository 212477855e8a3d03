CONSTANTS
    r1 = r1  r2 = r2  a = a  d = d  x = x  y = y
    h1 = h1  h2 = h2  b1 = b1
    NoCall = NoCall
    NoCore = NoCore
    Calls = {r1, a, d, r2, x, y}
    Cores = {h1, h2, b1}
    HwCores = {h1, h2}
    Parent <- TwoParent
    Req <- TwoReq
    Home <- TwoHomes
    FusedReqs = {r2}
    Detached = {a}
    Failing = {d}
SPECIFICATION FairSpec
INVARIANTS IInv ReplyHasState QueueAgreement FusedHoldsCore QuiescentClean
PROPERTIES FusedRunsAlone ImplementsInvocation EveryRequestAnswered
CHECK_DEADLOCK FALSE
