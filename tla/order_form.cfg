SPECIFICATION FormSpec
CONSTANTS
    a1 = a1
    c1 = c1
    NoAddress = NoAddress
    NoCode = NoCode
    Addresses <- MCAddresses
    Codes <- MCCodes
    Discounts = {2, 4}
    Wrappings <- MCWrappings
    WrappingPrice <- MCWrappingPrice
    DefaultWrapping = 2
    Price = 10
    Delivery = 1
    Lead = 1
    MaxDay = 1
    MaxFetches = 1
INVARIANTS
    FormTypeOK
    OrderAddsUp
    DiscountWasOffered
    LeadTimeKept
