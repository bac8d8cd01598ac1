SPECIFICATION FairSpec
CONSTANTS
    p1 = p1
    p2 = p2
    u0 = u0
    u1 = u1
    u2 = u2
    Phones <- MCPhones
    Uploads <- MCUploads
    PhoneOf <- MCPhoneOf
    Earlier <- MCEarlier
    WhereInLimit = 2
INVARIANTS
    TypeOK
    ProfileComplete
    OrphanHasReason
PROPERTIES
    PromiseKept
    EveryOrderSettles
