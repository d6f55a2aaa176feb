---------------------------- MODULE BatchIssuance ----------------------------
(***************************************************************************)
(* protocol/modules/BatchIssuanceModuleV2.sol: depositors pool one token in *)
(* rounds, anyone turns the current round into CKTokens and keeps what is   *)
(* left of the pooled token, and every depositor takes a rounded share of   *)
(* what is left of the rounds before the current one.  The issuance module  *)
(* and the tokens are external: issuing spends part of what it is given and *)
(* mints some number of CKTokens, possibly none.                            *)
(***************************************************************************)
EXTENDS PreciseUnitMath, FiniteSets, Functions

CONSTANTS
    CKToken, Account,
    WETH, Null,     \* the wrapped ether, address(0)
    PooledTokens,   \* for each CKToken, what its manager pools
    Incentives,
    Amounts,        \* deposited in one call
    Minted,         \* by one issuance
    MaxRounds,      \* bound on the rounds of a CKToken
    MaxDeposited    \* bound on a round

ASSUME BatchAssumption ==
    /\ IsFiniteSet(Account) /\ WETH # Null
    /\ PooledTokens \in [CKToken -> SUBSET (UNION {PooledTokens[k] : k \in CKToken})]
    /\ Null \notin UNION {PooledTokens[k] : k \in CKToken}
    /\ Incentives \subseteq Nat /\ Amounts \subseteq Nat /\ Minted \subseteq Nat
    /\ MaxRounds \in Nat /\ MaxDeposited \in Nat

VARIABLES
    moduleState,    \* of this module, in each CKToken
    roundNumbers,
    roundInfos,     \* [totalEthDeposited, totalCkTokenIssued] of each round
    userDeposits,   \* by round and account
    pooledToken, incentive,     \* batchIssuanceSettings
    held,           \* the module's balance of each pooled token
    ckHeld,         \* and of each CKToken
    received,       \* CKTokens an account was sent by the module
    deposited,      \* history: what an account put into a round,
    issued          \* and what issuing the round brought

settings == <<pooledToken, incentive>>
history == <<deposited, issued>>
vars == <<moduleState, roundNumbers, roundInfos, userDeposits, settings, held, ckHeld,
          received, history>>

Round == 0 .. MaxRounds
Pooled == UNION {PooledTokens[k] : k \in CKToken}

Init ==
    /\ moduleState = [k \in CKToken |-> "PENDING"]
    /\ roundNumbers = [k \in CKToken |-> 0]
    /\ roundInfos = [k \in CKToken |->
                       [i \in Round |-> [totalEthDeposited |-> 0, totalCkTokenIssued |-> 0]]]
    /\ userDeposits = [k \in CKToken |-> [i \in Round |-> [a \in Account |-> 0]]]
    /\ pooledToken = [k \in CKToken |-> Null]
    /\ incentive = [k \in CKToken |-> 0]
    /\ held = [t \in Pooled |-> 0]
    /\ ckHeld = [k \in CKToken |-> 0]
    /\ received = [k \in CKToken |-> [a \in Account |-> 0]]
    /\ deposited = userDeposits
    /\ issued = [k \in CKToken |-> [i \in Round |-> 0]]

Initialized(k) == moduleState[k] = "INITIALIZED"
current(k) == roundInfos[k][roundNumbers[k]]

-----------------------------------------------------------------------------
Initialize(k, t, rate) ==
    /\ moduleState[k] = "PENDING"
    /\ moduleState' = [moduleState EXCEPT ![k] = "INITIALIZED"]
    /\ roundNumbers' = [roundNumbers EXCEPT ![k] = 0]
    /\ pooledToken' = [pooledToken EXCEPT ![k] = t]
    /\ incentive' = [incentive EXCEPT ![k] = rate]
    /\ UNCHANGED <<roundInfos, userDeposits, held, ckHeld, received, history>>

\* What a deposit is counted as; MaxDeposited bounds the model.
CountDeposit(k, amount, a) ==
    LET r == roundNumbers[k] IN
    /\ current(k).totalEthDeposited + amount <= MaxDeposited
    /\ roundInfos' = [roundInfos EXCEPT ![k][r].totalEthDeposited = @ + amount]
    /\ userDeposits' = [userDeposits EXCEPT ![k][r][a] = @ + amount]
    /\ deposited' = [deposited EXCEPT ![k][r][a] = @ + amount]

DepositTo(k, amount, a) ==
    /\ held' = [held EXCEPT ![pooledToken[k]] = @ + amount]
    /\ CountDeposit(k, amount, a)
    /\ UNCHANGED <<moduleState, roundNumbers, settings, ckHeld, received, issued>>

DepositEth(k, amount, a) ==
    Initialized(k) /\ pooledToken[k] = WETH /\ DepositTo(k, amount, a)

Deposit(k, amount, a) ==
    Initialized(k) /\ pooledToken[k] # Null /\ DepositTo(k, amount, a)

\* The issuance module is given part of the round and returns `left` of that;
\* the caller is sent everything the module then has of the pooled token.
toMint(k) == preciseMul(current(k).totalEthDeposited, PreciseUnit - incentive[k])
BatchIssue(k, minted, left) ==
    /\ Initialized(k)
    /\ current(k).totalEthDeposited > 0 /\ pooledToken[k] # Null
    /\ incentive[k] <= PreciseUnit
    /\ toMint(k) \in 1 .. held[pooledToken[k]]
    /\ left <= toMint(k)
    /\ roundNumbers[k] < MaxRounds
    /\ ckHeld' = [ckHeld EXCEPT ![k] = @ + minted]
    /\ roundInfos' = [roundInfos EXCEPT ![k][roundNumbers[k]].totalCkTokenIssued = minted]
    /\ held' = [held EXCEPT ![pooledToken[k]] = 0]
    /\ roundNumbers' = [roundNumbers EXCEPT ![k] = @ + 1]
    /\ issued' = [issued EXCEPT ![k][roundNumbers[k]] = minted]
    /\ UNCHANGED <<moduleState, userDeposits, settings, received, deposited>>

\* An account's part of a round; nothing when the round is skipped.
Skips(k, a, i) ==
    \/ userDeposits[k][i][a] = 0
    \/ roundInfos[k][i].totalEthDeposited = 0
    \/ roundInfos[k][i].totalCkTokenIssued = 0

withdrawable(k, a, i) ==
    IF Skips(k, a, i) THEN 0
    ELSE (roundInfos[k][i].totalCkTokenIssued * userDeposits[k][i][a])
            \div roundInfos[k][i].totalEthDeposited

outputBalanceOf(k, a) ==
    SumFunction([i \in 0 .. roundNumbers[k] - 1 |-> withdrawable(k, a, i)])

\* Mutant form: the deposits that were served stay in the round's total.
remaining_AllDeposits(k, a, i) ==
    [roundInfos[k][i] EXCEPT !.totalCkTokenIssued = @ - withdrawable(k, a, i)]

\* Mutant form: the CKTokens that were taken stay in the round's total.
remaining_AllIssued(k, a, i) ==
    [roundInfos[k][i] EXCEPT !.totalEthDeposited = @ - userDeposits[k][i][a]]

\* What a withdrawal leaves of a round.
remaining(k, a, i) ==
    [totalEthDeposited |-> roundInfos[k][i].totalEthDeposited - userDeposits[k][i][a],
     totalCkTokenIssued |-> roundInfos[k][i].totalCkTokenIssued - withdrawable(k, a, i)]

\* Anyone may have an account's CKTokens sent to it.
WithdrawCKTokenTo(k, to) ==
    LET served == {i \in 0 .. roundNumbers[k] - 1 : ~Skips(k, to, i)} IN
    /\ Initialized(k)
    /\ outputBalanceOf(k, to) \in 1 .. ckHeld[k]
    /\ roundInfos' = [roundInfos EXCEPT ![k] = [i \in Round |->
                        IF i \in served THEN remaining(k, to, i) ELSE @[i]]]
    /\ userDeposits' = [userDeposits EXCEPT ![k] = [i \in Round |->
                          IF i \in served THEN [@[i] EXCEPT ![to] = 0] ELSE @[i]]]
    /\ ckHeld' = [ckHeld EXCEPT ![k] = @ - outputBalanceOf(k, to)]
    /\ received' = [received EXCEPT ![k][to] = @ + outputBalanceOf(k, to)]
    /\ UNCHANGED <<moduleState, roundNumbers, settings, held, history>>

-----------------------------------------------------------------------------
\* updateSlippage stores a number nothing reads and has no action.

\* Mutant form: the pooled token changes at any time.
IsDrained_Unchecked(k) == TRUE

\* The pooled token changes only while no deposit waits for it.
IsDrained(k) == current(k).totalEthDeposited > 0 => current(k).totalCkTokenIssued > 0

UpdatePooledToken(k, t) ==
    /\ Initialized(k)
    /\ IsDrained(k)
    /\ pooledToken' = [pooledToken EXCEPT ![k] = t]
    /\ UNCHANGED <<moduleState, roundNumbers, roundInfos, userDeposits, incentive, held,
                   ckHeld, received, history>>

UpdateIncentiveRate(k, rate) ==
    /\ Initialized(k)
    /\ incentive' = [incentive EXCEPT ![k] = rate]
    /\ UNCHANGED <<moduleState, roundNumbers, roundInfos, userDeposits, pooledToken, held,
                   ckHeld, received, history>>

\* The CKToken's manager removes the module; no round is looked at.
RemoveModule(k) ==
    /\ Initialized(k)
    /\ moduleState' = [moduleState EXCEPT ![k] = "NONE"]
    /\ pooledToken' = [pooledToken EXCEPT ![k] = Null]
    /\ incentive' = [incentive EXCEPT ![k] = 0]
    /\ UNCHANGED <<roundNumbers, roundInfos, userDeposits, held, ckHeld, received, history>>

\* A removed module is not added again: that is a bound of the model.
Next ==
    \E k \in CKToken :
        \/ \E t \in PooledTokens[k] \union {Null}, rate \in Incentives : Initialize(k, t, rate)
        \/ \E amount \in Amounts, a \in Account : DepositEth(k, amount, a)
        \/ \E amount \in Amounts, a \in Account : Deposit(k, amount, a)
        \/ \E minted \in Minted, left \in 0 .. MaxDeposited : BatchIssue(k, minted, left)
        \/ \E to \in Account : WithdrawCKTokenTo(k, to)
        \/ \E t \in PooledTokens[k] \union {Null} : UpdatePooledToken(k, t)
        \/ \E rate \in Incentives : UpdateIncentiveRate(k, rate)
        \/ RemoveModule(k)

Spec == Init /\ [][Next]_vars

-----------------------------------------------------------------------------
\* The module always has the CKTokens that every withdrawal still to come will
\* take, in whichever order they come (withdrawCKTokenTo, batchIssue).
WithdrawalsCovered ==
    \A k \in CKToken :
        /\ SumFunction([i \in Round |-> roundInfos[k][i].totalCkTokenIssued]) = ckHeld[k]
        /\ SumFunction([a \in Account |-> outputBalanceOf(k, a)]) <= ckHeld[k]

\* What waits in the current round is in the module, in the token that issuing the
\* round will spend.
WaitCovered(k) ==
    Initialized(k) =>
        LET total == current(k).totalEthDeposited IN
        /\ total = SumFunction(userDeposits[k][roundNumbers[k]])
        /\ total > 0 => pooledToken[k] # Null /\ held[pooledToken[k]] >= total

\* Deposits that wait are never lost by what happens to their own CKToken, be it
\* a change of the pooled token or a removal, but only by the issue of another
\* CKToken that pools the same token (updatePooledToken's check, batchIssue's
\* transfer of the whole balance).
WaitsUntilSwept ==
    [][\A k \in CKToken :
         WaitCovered(k) /\ ~WaitCovered(k)' =>
             \E l \in CKToken \ {k} :
                 roundNumbers'[l] # roundNumbers[l] /\ pooledToken[l] = pooledToken[k]]_vars

\* Whoever has a round issued is left with no more of the pooled token than the
\* round brought: its incentive and what the issuance module returned of it (the
\* comment in batchIssue).
PaidFromOwnRound ==
    [][\A k \in CKToken :
         roundNumbers'[k] # roundNumbers[k] =>
             held[pooledToken[k]] - held'[pooledToken[k]] <= current(k).totalEthDeposited]_vars

\* What an account was sent is its share of the rounds it was served from,
\* rounded down, and more by at most one unit for each of the other depositors
\* of a round: nobody gains or loses by when they withdraw (the division by what
\* is left of the round in withdrawCKTokenTo).
FairShare ==
    \A k \in CKToken, a \in Account :
        LET total(i) == SumFunction(deposited[k][i])
            served == {i \in 0 .. roundNumbers[k] - 1 :
                         deposited[k][i][a] > 0 /\ userDeposits[k][i][a] = 0}
            share(i) == (issued[k][i] * deposited[k][i][a]) \div total(i)
            others(i) == Cardinality({b \in Account \ {a} : deposited[k][i][b] > 0})
            least == SumFunction([i \in served |-> share(i)])
        IN received[k][a] \in least .. least + SumFunction([i \in served |-> others(i)])

\* What an account may withdraw only becomes less by being sent to it: another's
\* deposit, withdrawal or issuance does not touch it (withdrawCKTokenTo, batchIssue).
ClaimsStand ==
    [][\A k \in CKToken, a \in Account :
         outputBalanceOf(k, a)' < outputBalanceOf(k, a) =>
             received'[k][a] = received[k][a] + outputBalanceOf(k, a)]_vars
=============================================================================
