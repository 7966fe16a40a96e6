SPECIFICATION Spec
CONSTANTS
    MaxProviders = 2
    Requests = {r1, r2}
INVARIANTS AtMostOneDefault
