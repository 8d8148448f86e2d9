SPECIFICATION ReportsSpec
CONSTANTS
    c1 = c1
    t1 = t1
    t2 = t2
    None = None
    Ids = {1, 2, 3}
    Clients = {c1}
    RequestedLimits <- Limits
    DEFAULT_PAGE_SIZE = 1
    MAX_PAGE_SIZE = 2
    Transactions = {t1, t2}
    Currency <- MCCurrency
    RiskLevel <- MCRiskLevel
    Merchant <- MCMerchant
    TOP_MERCHANTS_LIMIT = 1
CHECK_DEADLOCK FALSE
INVARIANT NoRowTwice
INVARIANT StartRowsSeen
INVARIANT SettledSummaryAgrees
INVARIANT SettledPagesAreAll
