SPECIFICATION Spec
CONSTANTS
  WalletID <- TwoRows
  Wallet <- TwoRows
  Spelling <- Spellings
  Canonical = "lower"
  Owner <- Owners
  OwnerOf <- OwnerOfTwo
  Currency <- Currencies
  CurrencyOf <- CurrencyOfTwo
  Amount <- AmountNames
  Cents <- CentsOfAmount
  KeyBase <- Keys
  KeyRoom <- Room
  MaxInt = 7
  Call <- ContendingCalls
  OpeningLedger <- OneEach
  Request = {r1, r2, r3}
  Instance = {"i1", "i2"}
  MaxFaults = 0
INVARIANTS Reconciled NoOverdraft AllOrNothing AtMostOnce ConflictHasAWinner AnswersAreBalances OnlyDeltasDeadlock
PROPERTIES TransfersRespectSuspension AtomicSpec
SYMMETRY Symmetry
