\* The optimize option without the progressive one.
SPECIFICATION Spec
INVARIANT OptimizeHonoured
