SPECIFICATION FairSpec
CONSTANTS
  WalletID <- Ids
  Wallet <- Rows
  Spelling <- Spellings
  Canonical = "lower"
  Owner <- Owners
  OwnerOf <- OwnerOfRow
  Currency <- Currencies
  CurrencyOf <- CurrencyOfRow
  Amount <- AmountNames
  Cents <- CentsOfAmount
  KeyBase <- Keys
  KeyRoom <- Room
  MaxInt = 3
  Call <- LimitCalls
  OpeningLedger <- AlmostFull
  Request = {r1, r2}
  Instance = {"i1", "i2"}
  MaxFaults = 2
INVARIANTS TypeOK IInv Reconciled AllOrNothing AtMostOnce AcknowledgedIsDurable NothingLeaks
PROPERTY EveryRequestReturns
