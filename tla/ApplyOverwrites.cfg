SPECIFICATION Spec
CONSTANTS
    Plan <- MCPlan
    Stock <- MCStock
    How <- MCHow
    SafetyOk <- MCSafetyOk
    BatchSize = 2
    EditPrices = {10}
    None = None
    Torn = Torn
    Limits = {0}
    MaxEdits = 0
    MaxInvocations = 2
PROPERTIES
    ChangedRowsAreAborted
