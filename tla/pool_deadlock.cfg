SPECIFICATION PoolSpec
CONSTANTS
  WalletID <- FourRows
  Wallet <- FourRows
  Spelling <- Spellings
  Canonical = "lower"
  Owner <- Owners
  OwnerOf <- OwnerOfFour
  Currency <- Currencies
  CurrencyOf <- CurrencyOfFour
  Amount <- AmountNames
  Cents <- CentsOfAmount
  KeyBase <- Keys
  KeyRoom <- Room
  MaxInt = 7
  Call <- DisjointTransfers
  OpeningLedger <- FundedFour
  Request = {r1, r2}
  Instance = {"i1"}
  MaxFaults = 0
  PoolSize = 2
INVARIANT NoPoolDeadlock
