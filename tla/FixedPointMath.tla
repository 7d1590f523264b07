--------------------------- MODULE FixedPointMath ---------------------------
(***************************************************************************)
(* The rounding arithmetic of the vaults and the controllers.  Amounts are *)
(* natural numbers: the 256-bit products of the code overflow only beyond  *)
(* token supplies of 2^128 base units, where mulDivDown reverts.           *)
(***************************************************************************)
EXTENDS Integers

\* Basis points: the denominator of every percentage in the code.
BPS == 10000

\* solmate's mulDivDown: multiply, then divide rounding down.  It reverts
\* when the denominator is 0; callers carry that as a guard.
MulDivDown(x, y, denominator) == (x * y) \div denominator

\* The protocol fee on a vault's TVL when an epoch is settled.
CalculateWithdrawalFeeValue(amount, fee) == MulDivDown(amount, fee, BPS)
=============================================================================
