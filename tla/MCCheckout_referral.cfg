\* The same customer, with no error and no crash: two devices check out together.
SPECIFICATION Spec
CONSTANTS
  shirt = shirt
  shoes = shoes
  a1 = a1
  a2 = a2
  a3 = a3
  first = first
  retry = retry
  other = other
  key = key
  Checkouts = {first, retry, other}
  Adds = {a1, a2, a3}
  Items = {shirt, shoes}
  Price <- MCPrice
  ItemOf <- MCItemOf
  KeyOf <- MCKeyOf
  Coins = 3
  MaxQuantity = 2
  MaxCrashes = 0
  MaxFailures = 0
  None = none
\* Every request is over, the cart is as it is.
CHECK_DEADLOCK FALSE
INVARIANT
  FirstHaulRewarded
