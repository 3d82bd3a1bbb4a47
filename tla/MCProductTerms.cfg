CONSTANTS
    Required = {"market"}
    Optional = {"contract"}
    Records = {"market"}
    Packages = {p1, p2}
    Labels = {a, b}
    PackageDeadline = 1
    MaxTime = 3
    MaxChanges = 1
    MaxObservations = 2
    MaxMishaps = 2
SPECIFICATION TermsSpec
SYMMETRY Interchangeable
INVARIANTS ObservedThroughout ResolutionIsSound
CHECK_DEADLOCK FALSE
