\* Two ingesters, orders executed share by share, a rebuilt and crashing ledger,
\* and the readers of files and answers.
SPECIFICATION MCSpec
CONSTANTS
    Torn = Torn
    b1 = b1
    b2 = b2
    s1 = s1
    i1 = i1
    i2 = i2
    Orders = {b1, b2, s1}
    Info <- ThreeOrders
    Listed = {"A"}
    Ingesters = {i1, i2}
    PageSize = 3
    Sinces = {0, 2}
    None = None
SYMMETRY Symmetry
INVARIANT BooksFollowFills
INVARIANT ReportsExplainBooks
INVARIANT ReportsAgree
INVARIANT InputsAreUnderstood
