SPECIFICATION Spec
CONSTANTS
    Gifts <- MCGifts
    Shared = {"g1", "g3"}
    Viewed <- MCViewed
    Fickle = {"g1", "g2"}
    Step = 1
    MaxSelected = 2
    MaxMessages = 2
    MaxLimit = 2
    MaxCalls = 2
INVARIANTS
    TypeOK
    PhoneForgets
PROPERTY
    SentAgainIfTapped
