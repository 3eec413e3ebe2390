SPECIFICATION FairPoolSpec
CONSTANTS
  WalletID <- TwoRows
  Wallet <- TwoRows
  Spelling <- Spellings
  Canonical = "lower"
  Owner <- Owners
  OwnerOf <- OwnerOfTwo
  Currency <- Currencies
  CurrencyOf <- CurrencyOfTwo
  Amount <- AmountNames
  Cents <- CentsOfAmount
  KeyBase <- Keys
  KeyRoom <- Room
  MaxInt = 7
  Call <- PooledCalls
  OpeningLedger <- OneEach
  Request = {r1, r2, r3}
  Instance = {"i1"}
  MaxFaults = 1
  PoolSize = 2
INVARIANTS NoPoolDeadlock NoLiveCycle
PROPERTY EveryRequestReturns
