SPECIFICATION FairSpec
CONSTANTS
  Request = {r1, r2}
  Instance = {i1, i2}
  NoInstance = NoInstance
  OwnerID <- OwnerIDs
  OpeningOwner <- FirstOwner
  Call <- AllCalls
  ValidCall <- DocumentedCalls
  NoCall = NoCall
  Malformed <- RejectedFields
  MaxFaults = 1
  MaxStarts = 2
INVARIANTS TypeOK DeployInv ServerErrorsAreFaults ServesOnSchema StartsFailOnlyDirty OnlyCutInstancesDropRequests
PROPERTIES DirectorySpec NothingHangs
