SPECIFICATION FairSpec
CONSTANTS
    a = a
    b = b
    r1 = r1
    r2 = r2
    p1 = p1
    Tokens <- MCTokens
    Requests <- TwoRequests
    IPs <- OneIP
    Protected <- MCProtected
    MaxDownloads <- MCMaxDownloads
    MaxShares = 1
    MaxTokenAttempts = 1
    MaxPasswordAttempts = 2
    MaxArrivals = 3
CHECK_DEADLOCK FALSE
INVARIANTS
    TypeOK
    EndedNotServed
    OverrunBounded
    BanHolds
PROPERTIES
    EndedLeaves
