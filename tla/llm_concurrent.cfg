SPECIFICATION Spec
CONSTANTS
    MaxProviders = 2
    Requests = {r1, r2}
SYMMETRY Symmetry
PROPERTIES DeletedForGood OnlyAskedChanges AskedIsDefault ImplementsRegister
