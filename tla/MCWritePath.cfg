SPECIFICATION Spec
CONSTANTS
    Workers = {w1}
    MaxRequests = 2
    MaxOps = 2
    Settings <- MCAll
INVARIANTS StandaloneHonest LeftoversAreAttempts AuditedOnce TxAllOrNothing GuardReleased
