--------------------------- MODULE MCAddressPage ---------------------------
\* Two phones, two addresses.
EXTENDS AddressPage

CONSTANTS p1, p2, a1, a2

MCPhones    == {p1, p2}
MCAddresses == {a1, a2}
=============================================================================
