\* Every call fails or not, under every choice of options.
SPECIFICATION Spec
INVARIANTS
    TypeOK
    CallsInOrder
    ErrorsAreCaught
    DataIsThere
    AllReleased
    ResultIsTrue
    ProgressiveHonoured
