SPECIFICATION Spec
CONSTANTS
    Role <- MCRole
    InteractiveRole <- MCInteractive
    Name <- MCName
    Frame = {"main", "sub"}
    MainFrame = "main"
    MaxTargets = 2
    None = None
    Kind <- MCKind
    Pages <- MCPages
    PartOf <- MCPartOf
    MaxEpoch = 2
    MaxSteps = 2
INVARIANTS
    TypeOK
    OnlyGotoIsUncounted
    HitsWhatWasMeant
    NothingSilentlyMissing
PROPERTIES
    RefusedIsFree
