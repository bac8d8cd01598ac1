SPECIFICATION Spec
CONSTANTS
    d1 = d1
    d2 = d2
    n1 = n1
    n2 = n2
    m1 = m1
    m2 = m2
    a1 = a1
    a2 = a2
    Devices <- MCDevices
    DeviceOf <- OneEach
    Names <- MCNames
    Numbers <- MCNumbers
    Attempts <- MCAttempts
    MaxEdits = 1
INVARIANTS
    TypeOK
    MobileIsVerified
    NamesUnique
PROPERTY
    AccountKept
SYMMETRY Symmetry
CHECK_DEADLOCK FALSE
