SPECIFICATION ResolutionSpec
CONSTANTS
    Names = {n1, n2}
    MaxVersions = 3
    MaxFailures = 2
    None = None
    Plain = Plain
    MaxArguments = 2
SYMMETRY NameSymmetry
INVARIANTS
    LiveIsAsDefined
    
    ResolvedAsRegistered
PROPERTY ProfileNeverTouched
