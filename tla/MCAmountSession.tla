-------------------------- MODULE MCAmountSession ---------------------------
(***************************************************************************)
(* 10-bit integers stand for 64-bit ones: 5.11 is the largest USD amount,  *)
(* 5.115 is rounded beyond it, 10 wraps to a negative number, 11 to a      *)
(* positive one, 512 does not parse.                                       *)
(***************************************************************************)
EXTENDS AmountSession, SequencesExt

Wholes == {0, 1, 4, 5, 6, 10, 11, 511, 512}
UpToFourDigits == BoundedSeq({0, 1, 4, 5, 9}, 4)
=============================================================================
