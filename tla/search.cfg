SPECIFICATION Spec
CONSTANTS
    Gifts <- MCGifts
    Texts <- MCTexts
    Menus <- MCMenus
    Terms <- MCTerms
    Trim <- MCTrim
    Matches <- MCMatches
    Viewed <- MCViewed
    Fickle = {"g1"}
    Step = 1
    MaxLimit = 2
    MaxResults = 1
    MaxRequests = 2
INVARIANTS
    TypeOK
    RecentsKept
    ResultsMatch
