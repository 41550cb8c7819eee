\* One call with every option, every kind of input file, and every fault but
\* the three the code does not notice (unreadable, rename, shortWrite).
SPECIFICATION FairSpec
CONSTANTS
    Calls = {c1}
    c1 = c1
    c2 = c2
    photo = photo
    f1 = f1
    f2 = f2
    Files = {photo, f1}
    Arguments <- MCSingleArguments
    Images = {tailed, flawed, broken}
    plain = plain
    tailed = tailed
    flawed = flawed
    broken = broken
    NoImage = NoImage
    Flawed = {flawed}
    Hopeless = {broken}
    Trailing = {tailed}
    Blocks = 2
    Capacity = 1
    Faults = {"mkfifo", "thread", "memory", "errorFile", "openPipe", "codec", "openMid", "diskFull", "openExif", "openImage", "mergeMemory", "openOutput", "readError"}
INVARIANTS
    NothingLeftBehind
    SilentSuccessIsComplete
    InPlaceKeepsPicture
PROPERTIES
    ServiceSpec
    CallReturns
    WriterEnds
\* The writer thread of a call that never opens its pipe may stay behind.
CHECK_DEADLOCK FALSE
