\* One call whose input file exists but cannot be read.
SPECIFICATION FairSpec
CONSTANTS
    Calls = {c1}
    c1 = c1
    c2 = c2
    photo = photo
    f1 = f1
    f2 = f2
    Files = {photo, f1}
    Arguments <- MCSingleArguments
    Images = {plain}
    plain = plain
    tailed = tailed
    flawed = flawed
    broken = broken
    NoImage = NoImage
    Flawed = {}
    Hopeless = {}
    Trailing = {}
    Blocks = 2
    Capacity = 1
    Faults = {"unreadable"}
PROPERTY CallReturns
CHECK_DEADLOCK FALSE
