SPECIFICATION FairSpec
CONSTANTS
    s1 = s1
    s2 = s2
    o1 = o1
    o2 = o2
    g1 = g1
    u1 = u1
    u2 = u2
    Sessions <- MCSessions
    Orders <- MCOrders
    Gifts <- MCGifts
    OrderOf <- MCOrderOf
    GiftOf <- MCGiftOf
    Uploads <- MCUploads
    SessionOf <- MCSessionOf
    MinTotal = 1
    MaxTotal = 2
INVARIANTS
    TypeOK
    RateWithinScale
    CountNotInflated
    SerialMeanExact
    ReviewedImpliesPublished
PROPERTY
    EverySubmissionSettles
