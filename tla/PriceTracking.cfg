SPECIFICATION FairSpec
CONSTANTS
    None = None
    BUYER_FEE_TIERS <- FeeTable
    Policy <- DefaultPolicy
    Owner <- MCOwner
    FloatShort <- MCFloatShort
    Listing <- MCListing
    Markets <- MCMarkets
    Discounts = {0, 7}
    EditPrices = {10, 150, 999999}
    Levels = {36, 520, 1100}
    Floor = 20
INVARIANTS
    GateNeverTrips
    UndercutsTheMarket
    StuckOnlyWhenCheap
PROPERTIES
    NeverOvershoots
    Settles
