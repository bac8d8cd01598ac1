SPECIFICATION HomeSpec
CONSTANTS
    Gifts <- MCGifts
    Categories <- MCCategories
    CategoryOf <- MCCategoryOf
    FirstDefault = 1
    PageSize = 2
    Fickle = {2, 3}
    MaxRequests = 2
    MaxFeed = 4
INVARIANT
    NoMoreIsTrue
