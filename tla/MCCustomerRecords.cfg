\* Two back offices, two customers, four addresses, fair scheduling.
SPECIFICATION FairSpec
CONSTANTS
  k1 = k1  k2 = k2  a1 = a1  a2 = a2  a3 = a3  a4 = a4  b1 = b1  b2 = b2
  Customers = {k1, k2}
  Addresses = {a1, a2, a3, a4}
  Offices = {b1, b2}
  NoCustomer = NoCustomer
  NoAddress = NoAddress
  MaxCrashes = 1
INVARIANTS TypeOK ErasureComplete OnePrimaryAddress
PROPERTIES ImplementsPrivacy JobsEnd
