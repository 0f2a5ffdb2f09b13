\* Two clients at a time, three requests, faults or edits of any kind, anywhere.
SPECIFICATION Spec
CONSTANTS
  Accounts = {1, 2, 3}
  Opening <- MCOpening
  k1 = k1
  k2 = k2
  r1 = r1
  r2 = r2
  Keys = {k1, k2, r1, r2}
  Clients = {p1, p2}
  Requests <- MCRequests
  Cap = 2
  None = none
  MaxEvents = 3
  ReturnIds = {r1}
  LineOf <- MCLineOf
\* The bound on requests ends every run.
SYMMETRY Twins
CHECK_DEADLOCK FALSE
INVARIANTS
  MoneyTypeOK
  LocksAscend
  CapCoversCharges
  MergesLeaveOneOpen
  AnswersHold
  RefundedMeansCredited
  CreditedNeverReopens
PROPERTY
  DriftOnlyHealed
  ImplementsBook
