\* One call, nothing wrong around it, an input file that does not decode.
SPECIFICATION FairSpec
CONSTANTS
    Calls = {c1}
    c1 = c1
    c2 = c2
    photo = photo
    f1 = f1
    f2 = f2
    Files = {photo, f1}
    Arguments <- MCSingleArguments
    Images = {broken}
    plain = plain
    tailed = tailed
    flawed = flawed
    broken = broken
    NoImage = NoImage
    Flawed = {}
    Hopeless = {broken}
    Trailing = {}
    Blocks = 2
    Capacity = 1
    Faults = {}
INVARIANT InputFileSurvives
CHECK_DEADLOCK FALSE
