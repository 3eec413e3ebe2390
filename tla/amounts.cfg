SPECIFICATION Spec
CONSTANTS
  MaxInt = 511
  Whole <- Wholes
  Fraction <- UpToFourDigits
INVARIANTS TypeOK RoundsHalfUp CreditedAmount ShownIsPayable
CHECK_DEADLOCK FALSE
