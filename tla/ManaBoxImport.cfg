SPECIFICATION FairSpec
CONSTANTS
    None = None
    CsvFiles <- MCCsvFiles
    Stocks <- MCStocks
    Catalog <- MCCatalog
    Lookups <- MCLookups
    BatchSize = 2
    Limits = {0, 1}
    MaxRuns = 2
INVARIANTS
    NothingListedTwice
    DoneMeansListed
    ExportComparesEqual
PROPERTIES
    RunEnds
