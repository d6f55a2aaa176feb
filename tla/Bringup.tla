------------------------------- MODULE Bringup -------------------------------
(***************************************************************************)
(* How a spec brings up its chain: the programs of Fixtures run against a  *)
(* development chain, through the helpers of DeployHelpers.                *)
(*                                                                         *)
(* A program is one async function: it awaits every statement, so one      *)
(* statement runs at a time, but a call that is not awaited stays in       *)
(* flight while later statements run and is mined whenever the node gets   *)
(* to it.  Each transaction is a block of its own.  The node stamps it     *)
(* with its clock, one second after the last block at the earliest.  A     *)
(* statement that throws ends the function.  MaxGap bounds the seconds     *)
(* from one block to the next; MaxDeploys bounds what the tests deploy     *)
(* after the hook.                                                         *)
(***************************************************************************)
EXTENDS DeployHelpers, Fixtures

CONSTANTS Delay,      \* the timelock's delay
          MaxGap,
          MaxDeploys

ASSUME BringupAssumption == Delay \in Nat /\ MaxGap \in Nat \ {0} /\ MaxDeploys \in Nat

VARIABLES program, pc,
          contracts,   \* what is deployed, in order: kind and constructor arguments
          handles,     \* the address each fixture field or local variable holds
          inFlight,    \* how many calls not awaited are still to be mined
          stale,       \* one was, since the last statement that was awaited
          outcome,     \* of the function: nothing thrown, "late" or "broken"
          now,         \* timestamp of the latest block
          created,     \* CKTokenCreated logs of the latest block
          pairs,       \* the Uniswap factory's allPairs
          modules, registered, listed,   \* Controller and Comptroller entries
          lastRead, queued,              \* timestamp read, eta queued
          made,        \* what the last creating call made
          deploys

vars == <<program, pc, contracts, handles, inFlight, stale, outcome, now, created, pairs, modules,
          registered, listed, lastRead, queued, made, deploys>>

None == 0

-----------------------------------------------------------------------------
(* Kinds *)

\* Addresses that exist before any fixture runs: accounts, and one per mock
\* or outside contract the specs pass for a role no fixture fills.
Outside ==
    <<"owner", "feeRecipient", "minter", "zero", "sushiswapRouter", "exchange",
      "kyberNetworkProxy", "oneInchApproval", "oneInchExchange", "zeroEx", "synthetixExchanger",
      "delegateRegistry", "gaugeController", "stableSwap", "poolToken", "crvToken",
      "votingEscrow", "crvMinter", "rewardContract", "rewardToken", "balancerFactory",
      "sendToken", "receiveToken", "debtIssuanceModule", "asset", "stakingAsset",
      "aaveLendingPoolCore", "sUsd", "sEth", "sBtc", "yearnVault", "underlyingOracle",
      "underlying", "stakingPool">>

KindOfOutside(role) == IF role \in {"owner", "feeRecipient", "minter"} THEN "account" ELSE role

Tokens == {"WETH9", "StandardTokenMock", "Comp", "Uni", "AaveTokenV2Mintable", "underlying"}

\* The kinds a parameter of a constructor stands for; otherwise its own.  The
\* mock of 1inch is the exchange and what its traders approve.
Stands(parameter) ==
    CASE parameter = "token"       -> Tokens
      [] parameter \in {"sendToken", "receiveToken"} -> Tokens \cup {parameter}
      [] parameter \in {"oneInchApproval", "oneInchExchange"} -> {parameter, "OneInchExchangeMock"}
      [] parameter = "comptroller" -> {"Comptroller", "Unitroller"}
      [] parameter = "pool"        -> {"UniswapV2Pair", "stakingPool"}
      [] parameter = "any"         -> {"zero", "account", "CEther", "CERc20"}
      [] OTHER                     -> {parameter}

\* The address parameters of the constructors of the protocol, in order.
ProtocolParameters ==
       [c \in {"CKTokenCreator", "IntegrationRegistry", "CKValuer"} |-> <<"Controller">>]
    @@ ("Controller"  :> <<"account">>)
    @@ ("PriceOracle" :> <<"Controller", "token">>)
    @@ ("CKToken"     :> <<"Controller", "account">>)

ModuleParameters ==
       [c \in {"BasicIssuanceModule", "DebtIssuanceModule", "AmmModule", "StreamingFeeModule",
               "AirdropModule", "TradeModule", "ClaimModule", "StakingModule",
               "GovernanceModule"} |-> <<"Controller">>]
    @@ [c \in {"IssuanceModule", "NavIssuanceModule", "WrapModule",
               "CustomOracleNavIssuanceModule", "GeneralIndexModule"} |-> <<"Controller", "WETH9">>]
    @@ ("BatchIssuanceModule" :> <<"Controller", "WETH9", "BasicIssuanceModule">>)
    @@ ("SingleIndexModule" :>
          <<"Controller", "WETH9", "UniswapV2Router02", "sushiswapRouter", "exchange">>)
    @@ ("CompoundLeverageModule" :> <<"Controller", "Comp", "comptroller", "CEther", "WETH9">>)

AdapterParameters ==
       [c \in {"UniswapV2ExchangeAdapter", "UniswapV2TransferFeeExchangeAdapter",
               "UniswapV2ExchangeAdapterV2", "UniswapV2IndexExchangeAdapter"} |->
            <<"UniswapV2Router02">>]
    @@ ("KyberExchangeAdapter" :> <<"kyberNetworkProxy">>)
    @@ ("OneInchExchangeAdapter" :> <<"oneInchApproval", "oneInchExchange">>)
    @@ ("ZeroExApiAdapter" :> <<"zeroEx", "WETH9">>)
    @@ ("SynthetixExchangeAdapter" :> <<"synthetixExchanger">>)
    @@ ("BalancerV1IndexExchangeAdapter" :> <<"exchange">>)
    @@ ("UniswapPairPriceAdapter" :> <<"Controller", "UniswapV2Factory">>)
    @@ ("CTokenOracle" :> <<"CERc20", "underlyingOracle">>)
    @@ ("YearnVaultOracle" :> <<"yearnVault", "underlyingOracle">>)
    @@ ("AaveWrapAdapter" :> <<"LendingPoolProxy">>)
    @@ ("AaveMigrationWrapAdapter" :> <<"LendToAaveMigrator", "token", "AaveTokenV2Mintable">>)
    @@ ("AaveGovernanceAdapter" :> <<"AaveProtoGovernance", "AaveTokenV2Mintable">>)
    @@ ("AaveGovernanceV2Adapter" :> <<"AaveGovernanceV2", "AaveTokenV2Mintable">>)
    @@ ("CompoundLikeGovernanceAdapter" :> <<"CompoundGovernorAlpha", "Comp">>)
    @@ ("CompoundBravoGovernanceAdapter" :> <<"CompoundGovernorBravoDelegator", "Comp">>)
    @@ ("SnapshotGovernanceAdapter" :> <<"delegateRegistry">>)
    @@ ("CurveStakingAdapter" :> <<"gaugeController">>)

MockParameters ==
       [c \in {"ModuleBaseMock", "GodModeMock"} |-> <<"Controller">>]
    @@ [c \in {"StandardTokenMock", "StandardTokenWithFeeMock", "SynthMock"} |-> <<"account">>]
    @@ [c \in {"OneInchExchangeMock", "ZeroExMock"} |-> <<"sendToken", "receiveToken">>]
    @@ ("KyberNetworkProxyMock" :> <<"WETH9">>)
    @@ ("NAVIssuanceCaller" :> <<"NavIssuanceModule">>)
    @@ ("DebtModuleMock" :> <<"Controller", "debtIssuanceModule">>)
    @@ ("OracleAdapterMock" :> <<"asset">>)
    @@ ("StakingAdapterMock" :> <<"stakingAsset">>)
    @@ ("AaveLendingPoolMock" :> <<"aaveLendingPoolCore">>)
    @@ ("ComptrollerMock" :> <<"Comp", "CERc20">>)
    @@ ("SynthetixExchangerMock" :> <<"sUsd", "sEth", "sBtc">>)
    @@ ("YearnStrategyMock" :> <<"yearnVault">>)

CompoundParameters ==
       [c \in {"Comp", "CompoundTimelock"} |-> <<"account">>]
    @@ ("CompoundGovernorAlpha" :> <<"CompoundTimelock", "Comp", "account">>)
    @@ ("CompoundGovernorBravoDelegator" :>
          <<"CompoundTimelock", "Comp", "account", "CompoundGovernorBravoDelegate">>)
    @@ ("CERc20" :> <<"token", "comptroller", "WhitePaperInterestRateModel">>)
    @@ ("CEther" :> <<"comptroller", "WhitePaperInterestRateModel">>)
    @@ ("PriceOracleProxy" :> <<"any", "CompoundPriceOracleMock", "any", "any", "any", "any", "any">>)

AaveParameters ==
       ("AaveProtoGovernance" :> <<"GovernanceParamsProvider">>)
    @@ ("GovernanceParamsProvider" :> <<"AavePropositionPower", "AssetVotingWeightProvider">>)
    @@ ("DefaultReserveInterestRateStrategy" :>
          <<"LendingPoolCoreProxy", "LendingPoolAddressesProvider">>)
    @@ ("LendToAaveMigrator" :> <<"AaveTokenV2Mintable", "token">>)
    @@ ("AaveGovernanceV2" :> <<"GovernanceStrategy", "account">>)
    @@ ("GovernanceStrategy" :> <<"AaveTokenV2Mintable", "AaveTokenV2Mintable">>)
    @@ ("Executor" :> <<"account">>)

UniswapParameters ==
       [c \in {"UniswapTimelock", "UniswapV2Factory"} |-> <<"account">>]
    @@ ("Uni" :> <<"account", "account">>)
    @@ ("UniswapGovernorAlpha" :> <<"UniswapTimelock", "Uni">>)
    @@ ("UniswapV2Router02" :> <<"UniswapV2Factory", "WETH9">>)
    @@ ("StakingRewards" :> <<"account", "Uni", "pool">>)

CurveParameters ==
       ("CurveDeposit" :> <<"stableSwap", "poolToken">>)
    @@ ("Stableswap" :> <<"poolToken">>)
    @@ ("GaugeController" :> <<"crvToken", "votingEscrow">>)
    @@ ("LiquidityGaugeReward" :> <<"poolToken", "crvMinter", "rewardContract", "rewardToken">>)
    @@ ("LiquidityGauge" :> <<"poolToken", "crvMinter">>)
    @@ ("Minter" :> <<"crvToken", "gaugeController">>)

BalancerParameters ==
    ("ExchangeProxy" :> <<"WETH9">>) @@ ("BRegistry" :> <<"balancerFactory">>)

\* Whatever else is deployed takes no address.
Parameters ==
    ProtocolParameters @@ ModuleParameters @@ AdapterParameters @@ MockParameters
    @@ CompoundParameters @@ AaveParameters @@ UniswapParameters @@ CurveParameters
    @@ BalancerParameters @@ [c \in DOMAIN DeployHelper |-> <<>>]

-----------------------------------------------------------------------------
(* One statement *)

Running == outcome = "fine" /\ pc <= Len(program)
Done    == outcome = "fine" /\ pc > Len(program)
step    == program[pc]

\* Reading the address of a field that was never assigned is a TypeError.
Defined == step.uses \cup {step.args[i] : i \in DOMAIN step.args} \subseteq DOMAIN handles

\* A factory throws when it gets too few arguments for its constructor, or too many.
TakesAll(contract) == Len(DeployHelper[contract].passes) = Len(Parameters[contract])

At(op) == Running /\ step.op = op /\ Defined

Continue ==
    /\ pc' = pc + 1
    /\ stale' = FALSE
    /\ UNCHANGED <<program, inFlight, outcome, deploys>>

\* The node's clock may run on between two blocks.
NextBlock == now + 1 .. now + MaxGap

Mine == now' \in NextBlock /\ created' = <<>>

Addresses(names) == [i \in DOMAIN names |-> handles[names[i]]]

\* The helper binds its parameters by position and passes them by position.
PassedOn(helper, addresses) ==
    [i \in DOMAIN helper.passes |->
        addresses[CHOOSE j \in DOMAIN helper.takes : helper.takes[j] = helper.passes[i]]]

Made(kind, args) ==
    /\ contracts' = Append(contracts, [kind |-> kind, args |-> args])
    /\ made' = Len(contracts) + 1

Assign(handle, address) ==
    handles' = [h \in DOMAIN handles \cup {handle} |-> IF h = handle THEN address ELSE handles[h]]

Deployed ==
    /\ Made(step.contract, PassedOn(DeployHelper[step.contract], Addresses(step.args)))
    /\ Assign(step.handle, made')
    /\ UNCHANGED <<pairs, modules, registered, listed, lastRead, queued>>

DeployContract == At("deploy") /\ TakesAll(step.contract) /\ Deployed /\ Mine /\ Continue

SendTransaction ==
    /\ At("send") /\ Mine /\ Continue
    /\ UNCHANGED <<contracts, handles, pairs, modules, registered, listed, lastRead, queued, made>>

\* The promise is dropped: the function goes on with its next statement.
SendWithoutAwait ==
    /\ At("unawaited")
    /\ inFlight' = inFlight + 1
    /\ pc' = pc + 1
    /\ stale' = FALSE
    /\ UNCHANGED <<program, outcome, contracts, handles, now, created, pairs, modules, registered,
                   listed, lastRead, queued, made, deploys>>

Land ==
    /\ inFlight > 0
    /\ inFlight' = inFlight - 1
    /\ stale' = TRUE
    /\ Mine
    /\ UNCHANGED <<program, pc, outcome, contracts, handles, pairs, modules, registered, listed,
                   lastRead, queued, made, deploys>>

AttachToProxy ==
    /\ At("proxy") /\ Mine /\ Continue
    /\ Made(step.contract, <<>>)
    /\ Assign(step.handle, made')
    /\ UNCHANGED <<pairs, modules, registered, listed, lastRead, queued>>

-----------------------------------------------------------------------------
(* The controller and its tokens *)

\* Mutant: the ids run the other way.
resourcesOf_Reversed(args) == [id \in 0 .. 2 |-> handles[args[7 - id]]]

\* One factory, three modules, then the resources in the order of their ids.
resourcesOf(args) == [id \in 0 .. 2 |-> handles[args[id + 5]]]

InitializeController ==
    /\ At("initialize") /\ Mine /\ Continue
    /\ modules' = {handles[step.args[i]] : i \in 2 .. 4}
    /\ registered' = resourcesOf(step.args)
    /\ UNCHANGED <<contracts, handles, pairs, listed, lastRead, queued, made>>

AddModule ==
    /\ At("addModule") /\ Mine /\ Continue
    /\ modules' = modules \cup {handles[step.args[1]]}
    /\ UNCHANGED <<contracts, handles, pairs, registered, listed, lastRead, queued, made>>

ModulesEnabled == \A i \in DOMAIN step.args : handles[step.args[i]] \in modules

CreateCKToken ==
    /\ At("create") /\ ModulesEnabled /\ Continue
    /\ Made("CKToken", Addresses(<<"controller", "owner">>))
    /\ now' \in NextBlock
    /\ created' = <<made'>>
    /\ UNCHANGED <<handles, pairs, modules, registered, listed, lastRead, queued>>

\* Mutant: the last log is taken whether or not there is one.
HasLog_Unasked == TRUE

\* Parsing the last of no logs throws.
HasLog == created # <<>>

newestLog(logs) == IF logs = <<>> THEN None ELSE logs[Len(logs)]

\* The transaction's hash is not looked at: the address is the last
\* CKTokenCreated log of whatever block is the latest.
getCreatedCKTokenAddress ==
    /\ At("readCreated") /\ HasLog /\ Continue
    /\ Assign(step.handle, newestLog(created))
    /\ UNCHANGED <<contracts, now, created, pairs, modules, registered, listed, lastRead, queued, made>>

-----------------------------------------------------------------------------
(* Compound and Uniswap *)

\* Mutant: listed where the market is deployed to ask by default.
listing_Unitroller(market) == <<handles["unitroller"], handles[market]>>

listing(market) == <<handles["comptroller"], handles[market]>>

SupportMarket ==
    /\ At("support") /\ Mine /\ Continue
    /\ listed' = listed \cup {listing(step.args[1])}
    /\ UNCHANGED <<contracts, handles, pairs, modules, registered, lastRead, queued, made>>

getLastBlockTimestamp ==
    /\ At("readTime") /\ Continue
    /\ lastRead' = now
    /\ UNCHANGED <<contracts, handles, now, created, pairs, modules, registered, listed, queued, made>>

\* Mutant: the block that queues is not counted.
eta_Early == lastRead + Delay

eta == lastRead + Delay + 1

\* The timelock wants an eta at least its delay after the queueing block.
QueueTransaction ==
    /\ At("queue") /\ Mine /\ eta >= now' + Delay /\ Continue
    /\ queued' = eta
    /\ UNCHANGED <<contracts, handles, pairs, modules, registered, listed, lastRead, made>>

increaseTimeAsync ==
    /\ At("increaseTime") /\ Continue
    /\ now' \in now + Delay + 2 .. now + Delay + 2 + MaxGap
    /\ created' = <<>>
    /\ UNCHANGED <<contracts, handles, pairs, modules, registered, listed, lastRead, queued, made>>

ExecuteTransaction ==
    /\ At("execute") /\ Mine /\ now' >= queued /\ Continue
    /\ UNCHANGED <<contracts, handles, pairs, modules, registered, listed, lastRead, queued, made>>

mintingAllowedAfter == lastRead + 2

DeployUni ==
    /\ At("deployUni") /\ TakesAll(step.contract) /\ Deployed
    /\ Mine /\ mintingAllowedAfter >= now' /\ Continue

CreatePair ==
    /\ At("createPair") /\ Mine /\ Continue
    /\ Made("UniswapV2Pair", <<>>)
    /\ pairs' = Append(pairs, made')
    /\ UNCHANGED <<handles, modules, registered, listed, lastRead, queued>>

\* allPairs(allPairsLength - 1)
newestPair(allPairs) == allPairs[Len(allPairs)]

AttachToPair ==
    /\ At("readPair") /\ pairs # <<>> /\ Continue
    /\ Assign(step.handle, newestPair(pairs))
    /\ UNCHANGED <<contracts, now, created, pairs, modules, registered, listed, lastRead, queued, made>>

-----------------------------------------------------------------------------
(* Statements that throw *)

\* What the chain reverts in a block stamped t: the timelock wants an eta at
\* least its delay after the queueing block and executes from the eta on, and
\* minting may not be allowed from before the token's own block.
Reverts(t) ==
    \/ step.op = "create" /\ ~ModulesEnabled
    \/ step.op = "queue" /\ eta < t + Delay
    \/ step.op = "execute" /\ t < queued
    \/ step.op = "deployUni" /\ mintingAllowedAfter < t

Missing ==
    \/ step.op = "readCreated" /\ ~HasLog
    \/ step.op = "readPair" /\ pairs = <<>>
    \/ step.op \in {"deploy", "deployUni"} /\ ~TakesAll(step.contract)

\* These rely on what the statement before them did or read of the latest
\* block: they come late when another block, or the clock, got in between.
Late(t) ==
    /\ Defined /\ step.op \in {"readCreated", "queue", "deployUni"}
    /\ stale \/ t > now + 1

\* The await rejects, and the function ends.
Throw ==
    /\ Running
    /\ \E t \in NextBlock :
         /\ Defined => Reverts(t) \/ Missing
         /\ outcome' = IF Late(t) THEN "late" ELSE "broken"
    /\ UNCHANGED <<program, pc, contracts, handles, inFlight, stale, now, created, pairs, modules,
                   registered, listed, lastRead, queued, made, deploys>>

-----------------------------------------------------------------------------
(* What the tests deploy after the hook *)

DeployInTest(contract) ==
    LET helper == DeployHelper[contract] IN
    /\ Done /\ deploys < MaxDeploys
    /\ \A i \in DOMAIN helper.takes : helper.takes[i] \in DOMAIN handles
    /\ TakesAll(contract)
    /\ Made(contract, PassedOn(helper, Addresses(helper.takes)))
    /\ Mine
    /\ deploys' = deploys + 1
    /\ UNCHANGED <<program, pc, handles, inFlight, stale, outcome, pairs, modules, registered, listed,
                   lastRead, queued>>

-----------------------------------------------------------------------------

Init ==
    /\ program \in Programs
    /\ pc = 1
    /\ contracts = [i \in DOMAIN Outside |-> [kind |-> KindOfOutside(Outside[i]), args |-> <<>>]]
    /\ handles = [role \in {Outside[i] : i \in DOMAIN Outside} |->
                    CHOOSE i \in DOMAIN Outside : Outside[i] = role]
    /\ inFlight = 0 /\ stale = FALSE /\ outcome = "fine"
    /\ now = 0 /\ created = <<>> /\ pairs = <<>>
    /\ modules = {} /\ registered = <<>> /\ listed = {}
    /\ lastRead = 0 /\ queued = 0 /\ made = None /\ deploys = 0

Advance ==
    \/ DeployContract \/ SendTransaction \/ SendWithoutAwait \/ AttachToProxy
    \/ InitializeController \/ AddModule \/ CreateCKToken \/ getCreatedCKTokenAddress
    \/ SupportMarket \/ getLastBlockTimestamp \/ QueueTransaction \/ increaseTimeAsync
    \/ ExecuteTransaction \/ DeployUni \/ CreatePair \/ AttachToPair

Next == Advance \/ Throw \/ Land \/ \E contract \in DOMAIN DeployHelper : DeployInTest(contract)

\* The event loop goes on with a function whose awaited promise is settled
\* (with the error a statement throws, if that is how it settles),
\* and the node serves every request it received.
Spec == Init /\ [][Next]_vars /\ WF_vars(Advance \/ Throw) /\ WF_vars(Land)

-----------------------------------------------------------------------------
(* Properties *)

\* Whatever is deployed, through whichever chain of positional parameters,
\* every constructor parameter holds a contract of the kind it stands for:
\* no two addresses are swapped between a fixture and a constructor, and the
\* interest rate strategy gets the core's proxy, not its implementation.
Wired ==
    \A a \in DOMAIN contracts :
        contracts[a].kind \in DOMAIN Parameters =>
            LET parameters == Parameters[contracts[a].kind]
                args       == contracts[a].args
            IN  /\ Len(args) = Len(parameters)
                /\ \A i \in DOMAIN args : contracts[args[i]].kind \in Stands(parameters[i])

\* A market that has been enabled is listed by the comptroller it asks: the
\* fixture lists it on one comptroller and passes another one by default.
ListedWhereItAsks ==
    \A a \in {entry[2] : entry \in listed} :
        LET asks == IF contracts[a].kind = "CEther" THEN 1 ELSE 2
        IN  <<contracts[a].args[asks], a>> \in listed

\* Every address ends up where it belongs, in constructors and in listings.
WiredAndListed == Wired /\ ListedWhereItAsks

\* Once the controller is initialized, the ids of ResourceIdentifier lead to
\* the very contracts the fixture's fields hold, although the registry was
\* deployed twice.
ResourcesAreTheHandles ==
    registered # <<>> =>
        /\ registered[0] = handles["integrationRegistry"]
        /\ registered[1] = handles["priceOracle"]
        /\ registered[2] = handles["ckValuer"]

\* A handle read back from the chain, from the last log of the latest block
\* or the last pair of the factory, is what this caller's own call created,
\* whatever was mined between the call and the read; where that leaves nothing
\* to read, the read throws and assigns nothing.
CreatedIsReturned ==
    [][Running /\ step.op \in {"readCreated", "readPair"} /\ pc' = pc + 1
         => handles'[step.handle] = made]_vars

\* Every call in flight is mined, and every hook reaches its end, unless it is
\* late: no field is read before it is assigned, no module is missing, and no
\* log, eta or minting time is missed when the next block comes a second later
\* and is the hook's own.
HookCompletes == <>(inFlight = 0 /\ (Done \/ outcome = "late"))
=============================================================================
