SPECIFICATION Spec
CONSTANTS
    p1 = p1
    p2 = p2
    a1 = a1
    a2 = a2
    NoAddress = NoAddress
    Phones <- MCPhones
    Addresses <- MCAddresses
    MaxPending = 2
    MaxConfirmations = 1
INVARIANTS
    TypeOK
    AddressesAgree
PROPERTY
    TimerSparesOrderPage
