SPECIFICATION Spec
CONSTANTS
    Plan <- MCPlan
    Stock <- MCStock
    How <- MCHow
    SafetyOk <- MCSafetyOk
    BatchSize = 2
    EditPrices = {10}
    None = None
    Torn = Torn
    Limits = {0, 1}
    MaxEdits = 1
    MaxInvocations = 2
INVARIANTS
    TypeOK
    EveryRowAccounted
    EveryFreshRowHandled
    StoreRecordsCompletedJobs
    NoResubmission
