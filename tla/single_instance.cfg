SPECIFICATION HistorySpec
CONSTANTS
  WalletID <- ReadableIds
  Wallet <- TwoRows
  Spelling <- Spellings
  Canonical = "lower"
  Owner <- Owners
  OwnerOf <- OwnerOfTwo
  Currency <- Currencies
  CurrencyOf <- CurrencyOfTwo
  Amount <- AmountNames
  Cents <- CentsOfAmount
  KeyBase <- Keys
  KeyRoom <- Room
  MaxInt = 7
  Call <- ContendingCalls
  OpeningLedger <- OneEach
  Request = {r1, r2, r3}
  Instance = {"i1"}
  MaxFaults = 0
INVARIANTS AnswerInv NoSpuriousConflict NoWaitCycle HistoryInOrder HistoryExplainsBalance ReadAfterWrite
PROPERTIES SuspendedIsFrozen AtomicSpec
SYMMETRY Symmetry
