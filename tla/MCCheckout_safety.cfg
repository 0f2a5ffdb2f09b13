\* A checkout, its retry with the same key and a keyless one, while the cart is edited.
SPECIFICATION Spec
CONSTANTS
  shirt = shirt
  shoes = shoes
  a1 = a1
  a2 = a2
  a3 = a3
  first = first
  retry = retry
  other = other
  key = key
  Checkouts = {first, retry, other}
  Adds = {a1, a2, a3}
  Items = {shirt, shoes}
  Price <- MCPrice
  ItemOf <- MCItemOf
  KeyOf <- MCKeyOf
  Coins = 3
  MaxQuantity = 2
  MaxCrashes = 1
  MaxFailures = 1
  None = none
\* Every request is over, the cart is as it is.
CHECK_DEADLOCK FALSE
INVARIANTS
  TypeOK
  OneOrderPerKey
  ChargedWhatWasOrdered
  RewardedOnce
