-------------------------- MODULE MCLeveragedToken --------------------------
(***************************************************************************)
(* Instances of LeveragedToken: eth as collateral, dai borrowed.            *)
(***************************************************************************)
EXTENDS LeveragedToken

CONSTANTS eth, dai, cEth, cDai, aEth, aDai, comp, aave

Receipts == [x \in Lender \X Asset |->
               IF x[1] = comp THEN IF x[2] = eth THEN cEth ELSE cDai
               ELSE IF x[2] = eth THEN aEth ELSE aDai]

\* One receipt token per CKToken.
CollateralUnits ==
    {[c \in Component |-> IF \E l \in Lender : c = receipt[<<l, eth>>] THEN PreciseUnit ELSE 0]}

JustEth  == {<<eth>>}
JustDai  == {<<dai>>}
BothLists == {<<dai, eth>>}
=============================================================================
