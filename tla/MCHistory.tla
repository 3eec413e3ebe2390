----------------------------- MODULE MCHistory ------------------------------
(***************************************************************************)
(* One instance with the calls of MCWalletService, and a client that reads *)
(* a wallet and its history.  Id 9 has no row.                             *)
(***************************************************************************)
EXTENDS History, MCWalletService

ReadableIds == {1, 2, 9}
=============================================================================
