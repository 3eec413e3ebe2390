SPECIFICATION Spec
CONSTANTS
  WalletID <- TwoRows
  Wallet <- TwoRows
  Spelling <- Spellings
  Canonical = "lower"
  Owner <- Owners
  OwnerOf <- OwnerOfTwo
  Currency <- Currencies
  CurrencyOf <- CurrencyOfTwo
  Amount <- AmountNames
  Cents <- CentsOfAmount
  KeyBase <- Keys
  KeyRoom <- Room
  MaxInt = 7
  Call <- SuspendAndPay
  OpeningLedger <- OneEach
  Request = {r1, r2}
  Instance = {"i1", "i2"}
  MaxFaults = 0
PROPERTY SuspendedIsFrozen
