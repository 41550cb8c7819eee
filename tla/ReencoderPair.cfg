\* Two concurrent calls over the same files, nothing wrong around them.
SPECIFICATION PairSpec
CONSTANTS
    Calls = {c1, c2}
    c1 = c1
    c2 = c2
    f1 = f1
    f2 = f2
    photo = photo
    broken = broken
    flawed = flawed
    Files = {photo, f1, f2}
    Arguments <- MCArguments
    Images = {plain, tailed}
    plain = plain
    tailed = tailed
    NoImage = NoImage
    Flawed = {}
    Hopeless = {}
    Trailing = {tailed}
    Blocks = 2
    Capacity = 1
    Faults = {}
INVARIANTS
    TypeOK
    ExifSurvives
    WriterFailsForAReason
    SoundInputSucceeds
PROPERTIES
    ServiceSpec
\* A call whose input file another one deletes or empties before it is read
\* may wait for its pipe for ever.
CHECK_DEADLOCK FALSE
