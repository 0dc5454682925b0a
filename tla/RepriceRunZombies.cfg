SPECIFICATION Spec
CONSTANTS
    Slots = {s1, s2}
    Runs = {1, 2}
    MaxChunks = 2
    Rows = {0}
    Discounts = {0, 7}
    SafePlan <- MCSafePlan
    SafetyCap = 1
    MaxAttempts = 1
    Zombies = TRUE
    None = None
INVARIANTS
    CheckpointBehindArtifacts
    AppliedPlanIsWhole
    OneDiscountPerPlan
    LiveNeverFinalizes
SYMMETRY AnySlot
