SPECIFICATION Spec
CONSTANTS
    Slots = {s1, s2}
    Runs = {1, 2}
    MaxChunks = 2
    Rows = {0, 1}
    Discounts = {0}
    SafePlan <- MCSafePlan
    SafetyCap = 1
    MaxAttempts = 1
    Zombies = TRUE
    None = None
INVARIANTS
    AppliedOnlyIfGated
SYMMETRY AnySlot
