SPECIFICATION Spec
CONSTANTS
    MaxRetries = 3
    Total = 1
    Workers = 2
INVARIANTS
    NetworkErrorsAreRetried
