SPECIFICATION Spec
CONSTANTS
    Browser = {b1, b2}
    Address = {a1}
    Credential = {c1, c2}
    NoOne = NoOne
    MaxFailures = 2
    Window = 1
    Methods = {"sso", "none"}
    EnvSecret = FALSE
    MaxTime = 2
    MaxVersion = 3
    MaxDraws = 1
INVARIANTS EndedStaysEnded SessionsAreOfTheAccount LockoutIsExact
SYMMETRY Symmetry
CHECK_DEADLOCK FALSE
