------------------------------ MODULE Portfolio ------------------------------
(***************************************************************************)
(* One CKToken with its issuance, trade, wrap, airdrop and streaming fee    *)
(* modules: their transactions in any order.  The modules share nothing but *)
(* the token's supply, balances, units and multiplier.                      *)
(***************************************************************************)
EXTENDS BasicIssuance, Trade, AirdropModule, StreamingFee

CONSTANTS
    RealUnits,     \* units a token may be created with, one for each component
    Quantities,    \* CKTokens to issue or redeem
    TradeUnits,    \* units to sell, and to receive at least
    MaxGiven,      \* what an exchange or a stranger gives at most
    Fees,
    MaxSupply, MaxBalance, MaxTime   \* bounds of the instance

ASSUME PortfolioAssumption ==
    /\ RealUnits \subseteq [Component -> Nat]
    /\ Quantities \subseteq Nat /\ TradeUnits \subseteq Nat /\ Fees \subseteq Nat
    /\ MaxGiven \in Nat /\ MaxSupply \in Nat /\ MaxBalance \in Nat /\ MaxTime \in Nat

portfolioVars == <<fundVars, airdropVars, feeVars>>

Init ==
    /\ \E units \in RealUnits : FundInit(units)
    /\ AirdropInit
    /\ StreamingFeeInit

\* BasicIssuanceModule
IssuanceNext ==
    /\ \E quantity \in Quantities : Issue(quantity) \/ Redeem(quantity)
    /\ UNCHANGED <<airdropVars, feeVars>>

\* TradeModule and WrapModule
TradeNext ==
    /\ \E from, to \in Component, units \in TradeUnits, taken \in 0 .. MaxBalance,
          given \in 0 .. MaxGiven :
         \/ \E minUnits \in TradeUnits : Trade(from, units, to, minUnits, taken, given)
         \/ from # to /\ Wrap(from, units, to, taken, given)
         \/ from # to /\ Unwrap(to, units, from, taken, given)
    /\ UNCHANGED <<airdropVars, feeVars>>

ReceiveNext ==
    /\ \E c \in Component, quantity \in 1 .. MaxGiven : Receive(c, quantity)
    /\ UNCHANGED <<airdropVars, feeVars>>

\* AirdropModule
AirdropNext ==
    /\ \/ \E tokens \in SUBSET Component : BatchAbsorb(tokens)
       \/ \E c \in Component : AddAirdrop(c) \/ RemoveAirdrop(c)
       \/ \E fee \in Fees : UpdateAirdropFee(fee)
       \/ \E fee \in Fees, list \in {<<>>} \union {<<c>> : c \in Component} :
            InitializeAirdrop(list, fee)
       \/ RemoveAirdropModule
    /\ UNCHANGED feeVars

\* StreamingFeeModule
StreamingFeeNext ==
    /\ \/ AccrueFee
       \/ \E maxFee \in Fees, fee \in Fees : InitializeStreamingFee(maxFee, fee)
       \/ \E fee \in Fees : UpdateStreamingFee(fee)
       \/ RemoveStreamingFee
    /\ UNCHANGED airdropVars

TickNext == Tick /\ UNCHANGED airdropVars

Bounded ==
    /\ totalSupply' <= MaxSupply
    /\ \A c \in Component : balance'[c] <= MaxBalance
    /\ now' <= MaxTime

\* Without a streaming fee.
PlainNext == IssuanceNext \/ TradeNext \/ ReceiveNext \/ AirdropNext

PlainSpec == Init /\ [][PlainNext /\ Bounded]_portfolioVars

\* With one.
FeeNext == IssuanceNext \/ ReceiveNext \/ StreamingFeeNext \/ TickNext

FeeSpec == Init /\ [][FeeNext /\ Bounded]_portfolioVars

-----------------------------------------------------------------------------
\* Setting the units from the balances before and after a trade does not count
\* tokens sent to the CKToken earlier as part of what the trade brought
\* (Position.calculateDefaultEditPositionUnit): they stay for the airdrop module,
\* and its fee.
AirdropsStayAirdropped ==
    [][ virtualUnit' # virtualUnit /\ (\E c \in Component : balance'[c] > balance[c])
        => \A c \in Component : amountAirdropped(c)' >= amountAirdropped(c)
      ]_portfolioVars

\* Only an issue makes the CKToken fall short of what it owes in a component, by
\* at most the smallest unit of it for each whole CKToken: the unit that the
\* deposit is computed from is rounded down before the deposit is rounded up
\* (BasicIssuanceModule.getRequiredComponentUnitsForIssue).  Redemptions, trades,
\* wraps, airdrops, accruals and what happens at net asset value add nothing,
\* whatever they are preceded by.
ShortOnlyByIssues ==
    [][ \A c \in Component :
          shortfall(c)' <= shortfall(c)
            + IF totalSupply' > totalSupply /\ positionMultiplier' = positionMultiplier
              THEN (totalSupply' - totalSupply) * PreciseUnit ELSE 0
      ]_portfolioVars

Expected == INSTANCE TestFormulas

distance(a, b) == IF a < b THEN b - a ELSE a - b

\* Selling what calculateRebalanceQuantity says at the price it was told leaves
\* two components of equal value, but for one unit of the second component, in
\* the first, for every conversion the quantity went through, and is never more
\* than the CKToken holds (utils/common/uniswapUtils.ts).
RebalanceEvensOut ==
    \A one, two \in Component, price \in 1 .. MaxGiven + 1 :
        one # two =>
            LET sale     == Expected!calculateRebalanceQuantity(0, balance[one], balance[two], price)
                q        == sale.quantity
                left     == IF sale.sellsOne
                            THEN <<balance[one] - q, balance[two] + preciseMul(q, price)>>
                            ELSE <<balance[one] + preciseDiv(q, price), balance[two] - q>>
                unit     == preciseDiv(1, price) + 1
                rounding == IF sale.sellsOne THEN unit ELSE 2 * unit
            IN  /\ q \in Nat /\ left[1] >= 0 /\ left[2] >= 0
                /\ distance(left[1], preciseDiv(left[2], price)) <= rounding + 1

\* Putting what calculateEngageQuantities says into the pool, or taking it out,
\* leaves the percentage of what the CKToken has of an asset, in the pool and
\* by itself, to the unit (utils/common/uniswapUtils.ts).
EngageEvensOut ==
    \A c \in Component, pool \in 0 .. MaxBalance, lpSupply \in 1 .. MaxGiven,
       p \in 1 .. PreciseUnit - 1 :
        \A staked \in 0 .. lpSupply :
            LET reserve == Expected!calculateTokensInReserve(pool, lpSupply, staked)
            IN  distance(balance[c] + Expected!calculateEngageQuantity(reserve, balance[c], p),
                         preciseMul(reserve + balance[c], p)) <= 1

\* The quantities the tests trade with do what they are meant for, from every
\* balance a CKToken comes to.
EvensOut == RebalanceEvensOut /\ EngageEvensOut
=============================================================================
