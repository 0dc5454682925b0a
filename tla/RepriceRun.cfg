SPECIFICATION FairSpec
CONSTANTS
    Slots = {s1}
    Runs = {1, 2, 3}
    MaxChunks = 2
    Rows = {0, 1}
    Discounts = {0}
    SafePlan <- MCSafePlan
    SafetyCap = 1
    MaxAttempts = 2
    Zombies = FALSE
    None = None
INVARIANTS
    TypeOK
    AppliedOnlyIfGated
PROPERTIES
    CheckpointNeverRegresses
    RunTerminates
    SafePlanIsApplied
    ImplementsGatedRun
