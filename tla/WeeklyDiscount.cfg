SPECIFICATION Spec
CONSTANTS
    Amounts = {4000, 10000, 13000}
    PageSize = 2
    MaxOrders = 3
INVARIANTS
    NeverBelowDue
    ExactOnOnePage
PROPERTIES
    SalesNeverRaise
