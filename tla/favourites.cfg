SPECIFICATION Spec
CONSTANTS
    Users = {"ann", "ben", "cleo", "dan", "eve"}
    KindOf <- MCKindOf
    Gifts = {"g1", "g2"}
    Fickle = {"g2"}
    Documents = {"ann", "ben"}
    Marked <- MCMarked
    SignedIn = {"ben"}
    WhereInLimit = 2
    MaxStack = 3
    MaxSignIns = 2
    MaxTaps = 3
INVARIANTS
    TypeOK
    FavouritesAgree
    SessionAgrees
    FavPageComplete
