SPECIFICATION Spec
CONSTANTS
    d1 = d1
    d2 = d2
    n1 = n1
    n2 = n2
    m1 = m1
    m2 = m2
    a1 = a1
    a2 = a2
    Devices <- OneDevice
    DeviceOf <- TwoTaps
    Names <- MCNames
    Numbers <- MCNumbers
    Attempts <- MCAttempts
    MaxEdits = 1
INVARIANT
    OneAccountPerMobile
CHECK_DEADLOCK FALSE
