---------------------------- MODULE MCDeployment ----------------------------
(***************************************************************************)
(* Two instances and two requests.  A database in use has the owner o1;    *)
(* ids o2 and o3 are still to be generated, "stranger" never is.           *)
(***************************************************************************)
EXTENDS DeploymentInvariant

CreateOwnerCall(n) == [op |-> "createOwner", name |-> n, owner |-> "none", currency |-> "none"]
CreateWalletCall(o, c) == [op |-> "createWallet", name |-> "none", owner |-> o, currency |-> c]
ListOwnersCall == [op |-> "listOwners", name |-> "none", owner |-> "none", currency |-> "none"]
ListWalletsCall(o) == [op |-> "listWallets", name |-> "none", owner |-> o, currency |-> "none"]

OwnerIDs == {"o1", "o2", "o3"}
FirstOwner == {"o1"}
RejectedFields == {"not-a-uuid"}

\* What the API documents as accepted: of known owners, of strangers.
DocumentedCalls ==
  {CreateOwnerCall("Ann"), ListOwnersCall, CreateWalletCall("o1", "usd"),
   CreateWalletCall("o1", "idr"), CreateWalletCall("o2", "usd"),
   CreateWalletCall("stranger", "usd"), ListWalletsCall("o1")}

\* And what it does not accept: a currency it does not support, a malformed field.
UndocumentedCalls ==
  {CreateWalletCall("o1", "gbp"), ListWalletsCall("not-a-uuid")}

AllCalls == DocumentedCalls \cup UndocumentedCalls
=============================================================================
