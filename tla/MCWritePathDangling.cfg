SPECIFICATION Spec
CONSTANTS
    Workers = {w1}
    MaxRequests = 2
    MaxOps = 1
    Settings <- MCValidation
INVARIANT SuccessIsCommitted
