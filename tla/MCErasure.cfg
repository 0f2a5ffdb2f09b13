SPECIFICATION FairAccountSpec
CONSTANTS
  Users = {ann}
  Calls = {c1, c2}
  Handlers = {h1, h2}
  None = none
  MaxTokens = 3
  MaxFaults = 2
  MaxBoth = 4
  Subject = ann
  Items = {coat}
  Workers = {w1, w2}
  MaxTries = 2
  MaxClaims = 2
  MaxErasures = 2
  Bounds <- MCBounds
CHECK_DEADLOCK FALSE
INVARIANTS
  AccountTypeOK
  HeldPairIsGood
  OnlyHeldPairsLive
  OnboardingGrantedOnce
  StoreCatchesUp
  NoPreviewForgotten
  NothingForgotten
PROPERTY
  PictureStays
  CallsAnswered
  ErasureEnds
