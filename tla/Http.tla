-------------------------------- MODULE Http --------------------------------
(***************************************************************************)
(* Package response: the HTTP status with which an outcome of the service  *)
(* reaches the client.                                                     *)
(***************************************************************************)
EXTENDS Integers

NotFound == {"ErrWalletNotFound", "ErrOwnerNotFound"}
Conflict == {"ErrWalletAlreadyExists", "ErrOwnerAlreadyExists", "ErrIdempotencyConflict",
             "ErrOptimisticLock"}
BadRequest == {"ErrInvalidAmount", "ErrCurrencyMismatch", "ErrSameWallet",
               "ErrUnsupportedCurrency"}
Unprocessable == {"ErrInsufficientBalance", "ErrWalletSuspended"}

\* bindAndValidate answers by itself; every other error goes through Error.
BindingError == "ErrValidation"

\* Mutant: the conflicts of the storage layer are not mapped.
ErrorStatusNoConflict(e) ==
  IF e \in NotFound THEN 404 ELSE IF e \in BadRequest THEN 400 ELSE 500

ErrorStatus(e) ==
  IF e \in NotFound THEN 404
  ELSE IF e \in Conflict THEN 409
  ELSE IF e \in BadRequest \cup {BindingError} THEN 400
  ELSE IF e \in Unprocessable THEN 422
  ELSE 500

\* Success writes the status its handler names.
Status(outcome) == CASE outcome = "ok" -> 200
                     [] outcome = "created" -> 201
                     [] OTHER -> ErrorStatus(outcome)
=============================================================================
