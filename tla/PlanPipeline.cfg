SPECIFICATION Spec
CONSTANTS
    None = None
    BUYER_FEE_TIERS <- FeeTable
    Policy <- MCPolicy
    FloatShort <- MCFloatShort
    Exports <- MCExports
    Offers <- MCOffers
    Discounts = {0, 7}
    ChunkSizes = {0, 2, 2000}
    GameId = 1
    MinListings = 1
    MaxListings = 4
    MaxProposed = 2
    MaxProposedShare = 600
    MaxExport = 4
INVARIANTS
    PlanIsThePricedCatalogue
    OwnListingsNeverCompete
    GateSeesWholePlan
    ReportsDescribeWhatApplyLeaves
