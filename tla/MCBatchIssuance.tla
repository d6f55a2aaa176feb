--------------------------- MODULE MCBatchIssuance ---------------------------
(***************************************************************************)
(* Three depositors of one CKToken whose manager moves between two pooled   *)
(* tokens, and two CKTokens that pool the same one.                         *)
(***************************************************************************)
EXTENDS BatchIssuance, TLC

CONSTANTS k1, k2, weth, dai

EitherToken == k1 :> {weth, dai}
SameToken == k1 :> {weth, dai} @@ k2 :> {weth}
Depositors == Permutations(Account)
=============================================================================
