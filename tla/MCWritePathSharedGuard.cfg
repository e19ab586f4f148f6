SPECIFICATION Spec
CONSTANTS
    Workers = {w1, w2}
    MaxRequests = 1
    MaxOps = 1
    Settings <- MCCalm
INVARIANT AuditedOnce
