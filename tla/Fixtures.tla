------------------------------- MODULE Fixtures -------------------------------
(***************************************************************************)
(* The fixtures of utils/fixtures and the hooks of four specs, as programs *)
(* of steps.  A step is one statement of the TypeScript: what it does to   *)
(* the chain ("op"), the handle it assigns, the handles it passes by       *)
(* position and the other handles whose address it reads.  Statements that *)
(* only send a transaction no property looks at are "send"; a call that is *)
(* not awaited is "unawaited".  A program is a spec's outermost set-up     *)
(* hook, followed where an inner suite creates a CKToken by the set-up of  *)
(* the first one that does.                                                *)
(***************************************************************************)
EXTENDS Naturals, Sequences

Step(op, handle, args, uses) ==
    [op |-> op, handle |-> handle, contract |-> "", args |-> args, uses |-> uses]

Deploy(handle, contract, args) ==
    [op |-> "deploy", handle |-> handle, contract |-> contract, args |-> args, uses |-> {}]

DeployEach(handles, contract, args) == [i \in DOMAIN handles |-> Deploy(handles[i], contract, args)]

Send(uses)      == Step("send", "", <<>>, uses)
SendUnawaited(uses) == Step("unawaited", "", <<>>, uses)
Sends(n, uses)  == [i \in 1 .. n |-> Send(uses)]

\* set...Impl on the addresses provider, the proxy's address, attach
UseProxy(handle, contract) ==
    [Step("proxy", handle, <<>>, {"lendingPoolAddressesProvider", handle})
        EXCEPT !.contract = contract]

-----------------------------------------------------------------------------
(* The system fixture *)

initializeStandardComponents ==
    <<Deploy("weth", "WETH9", <<>>)>>
    \o DeployEach(<<"usdc", "wbtc", "dai">>, "StandardTokenMock", <<"owner">>)
    \o DeployEach(<<"ETH_USD_Oracle", "USD_USD_Oracle", "BTC_USD_Oracle", "DAI_USD_Oracle">>,
                  "OracleMock", <<>>)
    \o <<Send({"weth"})>>
    \o [i \in 1 .. 4 |-> Send({<<"weth", "usdc", "wbtc", "dai">>[i], "issuanceModule"})]

\* What the controller registers under the resource ids 0, 1 and 2.
resources == <<"integrationRegistry", "priceOracle", "ckValuer">>

initializeResources ==
    << Deploy("integrationRegistry", "IntegrationRegistry", <<"controller">>),
       Deploy("factory", "CKTokenCreator", <<"controller">>),
       [Deploy("priceOracle", "PriceOracle", <<"controller", "usdc">>)
            EXCEPT !.uses = {"weth", "usdc", "wbtc", "dai", "ETH_USD_Oracle", "USD_USD_Oracle",
                             "BTC_USD_Oracle", "DAI_USD_Oracle"}],
       Deploy("integrationRegistry", "IntegrationRegistry", <<"controller">>),
       Deploy("ckValuer", "CKValuer", <<"controller">>),
       Deploy("streamingFeeModule", "StreamingFeeModule", <<"controller">>),
       Deploy("navIssuanceModule", "NavIssuanceModule", <<"controller", "weth">>),
       Step("initialize", "",
            <<"factory", "issuanceModule", "streamingFeeModule", "navIssuanceModule">> \o resources,
            {"controller"}) >>

systemInitialize ==
    << Deploy("controller", "Controller", <<"feeRecipient">>),
       Deploy("issuanceModule", "BasicIssuanceModule", <<"controller">>) >>
    \o initializeStandardComponents
    \o initializeResources

\* factory.create, then the address from the logs of the latest block
createCKToken(handle, components, modules) ==
    << Step("create", "", modules, {"factory"} \cup components),
       Step("readCreated", handle, <<>>, {}) >>

-----------------------------------------------------------------------------
(* The Compound fixture *)

compoundInitialize ==
    << Deploy("compoundPriceOracle", "CompoundPriceOracleMock", <<>>),
       Deploy("priceOracleProxy", "PriceOracleProxy",
              <<"zero", "compoundPriceOracle", "zero", "zero", "zero", "zero", "zero">>),
       Deploy("unitroller", "Unitroller", <<>>),
       Deploy("comptroller", "Comptroller", <<>>),
       Send({"unitroller", "comptroller"}), Send({"comptroller", "unitroller"}),
       Send({"comptroller", "compoundPriceOracle"}) >>
    \o Sends(3, {"comptroller"})
    \o << Deploy("interestRateModel", "WhitePaperInterestRateModel", <<>>),
          Deploy("comp", "Comp", <<"owner">>),
          Send({"comp", "comptroller"}),
          Deploy("compoundTimelock", "CompoundTimelock", <<"owner">>),
          Deploy("compoundGovernorAlpha", "CompoundGovernorAlpha",
                 <<"compoundTimelock", "comp", "owner">>) >>

initializeGovernorBravo ==
    << Deploy("compoundGovernorBravoDelegate", "CompoundGovernorBravoDelegate", <<>>),
       Deploy("compoundGovernorBravoDelegator", "CompoundGovernorBravoDelegator",
              <<"compoundTimelock", "comp", "owner", "compoundGovernorBravoDelegate">>),
       Step("readTime", "", <<>>, {}),
       Step("queue", "", <<>>, {"compoundTimelock", "compoundGovernorBravoDelegator"}),
       Step("increaseTime", "", <<>>, {}),
       Step("execute", "", <<>>, {"compoundTimelock"}),
       Send({"comp"}), Send({"compoundGovernorAlpha"}),
       Send({"compoundGovernorBravoDelegator", "compoundGovernorAlpha"}) >>

enable(handle) ==
    << Step("support", "", <<handle>>, {"comptroller"}),
       Send({"compoundPriceOracle", handle}), Send({"comptroller", handle}) >>

createAndEnableCToken(handle, underlying, comptroller) ==
    << Deploy(handle, "CERc20", <<underlying, comptroller, "interestRateModel">>) >>
    \o enable(handle)

createAndEnableCEther(handle, comptroller) ==
    << Deploy(handle, "CEther", <<comptroller, "interestRateModel">>) >> \o enable(handle)

-----------------------------------------------------------------------------
(* The Aave fixture *)

initializeLendingPool ==
    << Deploy("lendingPoolAddressesProvider", "LendingPoolAddressesProvider", <<>>),
       Deploy("lendingPool", "LendingPool", <<>>),
       Deploy("coreLibrary", "CoreLibrary", <<>>),
       Deploy("lendingPoolCore", "LendingPoolCore", <<"coreLibrary">>),
       Deploy("lendingPoolConfigurator", "LendingPoolConfigurator", <<>>),
       Deploy("lendingRateOracle", "LendingRateOracle", <<>>),
       Deploy("lendingPoolDataProvider", "LendingPoolDataProvider", <<>>),
       Send({"lendingPoolAddressesProvider"}),
       Send({"lendingPoolAddressesProvider", "lendingRateOracle"}),
       UseProxy("lendingPoolCore", "LendingPoolCoreProxy"),
       UseProxy("lendingPoolDataProvider", "LendingPoolDataProviderProxy"),
       UseProxy("lendingPool", "LendingPoolProxy"),
       UseProxy("lendingPoolConfigurator", "LendingPoolConfiguratorProxy"),
       Send({"lendingPoolConfigurator"}),
       Deploy("reserveInterestRateStrategy", "DefaultReserveInterestRateStrategy",
              <<"lendingPoolCore", "lendingPoolAddressesProvider">>) >>

initializeGovernance ==
    << Deploy("lendToken", "StandardTokenMock", <<"owner">>),
       Deploy("aaveToken", "AaveTokenV2Mintable", <<>>),
       Send({"aaveToken"}),
       Deploy("lendToAaveMigrator", "LendToAaveMigrator", <<"aaveToken", "lendToken">>),
       [Deploy("assetVotingWeightPower", "AssetVotingWeightProvider", <<>>)
            EXCEPT !.uses = {"aaveToken", "lendToken"}],
       Deploy("aavePropositionPower", "AavePropositionPower", <<>>),
       Deploy("governanceParamsProvider", "GovernanceParamsProvider",
              <<"aavePropositionPower", "assetVotingWeightPower">>),
       Deploy("aaveProtoGovernance", "AaveProtoGovernance", <<"governanceParamsProvider">>),
       Send({"lendToken", "lendToAaveMigrator"}), Send({"aaveToken", "lendToAaveMigrator"}),
       Send({"lendToAaveMigrator"}) >>

initializeGovernanceV2 ==
    << Deploy("executor", "Executor", <<"owner">>),
       Deploy("stkAaveToken", "AaveTokenV2Mintable", <<>>),
       SendUnawaited({"stkAaveToken"}),
       Deploy("governanceStrategy", "GovernanceStrategy", <<"aaveToken", "stkAaveToken">>),
       [Deploy("aaveGovernanceV2", "AaveGovernanceV2", <<"governanceStrategy", "owner">>)
            EXCEPT !.uses = {"executor"}],
       SendUnawaited({"aaveToken"}), SendUnawaited({"stkAaveToken"}) >>

aaveInitialize == initializeLendingPool \o initializeGovernance \o initializeGovernanceV2

-----------------------------------------------------------------------------
(* The Uniswap fixture *)

createNewPair(handle, tokenOne, tokenTwo) ==
    << Step("createPair", "", <<tokenOne, tokenTwo>>, {"uniswapFactory"}),
       Step("readPair", handle, <<>>, {"uniswapFactory"}) >>

createNewStakingPair(pool, rewards, tokenOne, tokenTwo) ==
    createNewPair(pool, tokenOne, tokenTwo)
    \o << Deploy(rewards, "StakingRewards", <<"owner", "uni", pool>>),
          Send({"uni", rewards}), Send({rewards}) >>

uniswapInitialize ==
    << Deploy("uniswapFactory", "UniswapV2Factory", <<"owner">>),
       Deploy("router", "UniswapV2Router02", <<"uniswapFactory", "weth">>),
       Step("readTime", "", <<>>, {}),
       [Deploy("uni", "Uni", <<"owner", "owner">>) EXCEPT !.op = "deployUni"],
       Deploy("uniswapTimelock", "UniswapTimelock", <<"owner">>),
       Deploy("uniswapGovernorAlpha", "UniswapGovernorAlpha", <<"uniswapTimelock", "uni">>) >>
    \o createNewStakingPair("wethDaiPool", "wethDaiStakingRewards", "weth", "dai")
    \o createNewStakingPair("wethWbtcPool", "wethWbtcStakingRewards", "weth", "wbtc")
    \o createNewPair("uniWethPool", "weth", "uni")

-----------------------------------------------------------------------------
(* The hooks of four specs *)

addModule(handle) == Step("addModule", "", <<handle>>, {"controller"})

addIntegration(module, adapter) == Send({"integrationRegistry", module, adapter})

\* An exchange that trades at one rate, and the adapter that finds both the
\* exchange and what must be approved at its address.
oneInch(exchange, adapter, sold, bought) ==
    << Deploy(exchange, "OneInchExchangeMock", <<sold, bought>>),
       Deploy(adapter, "OneInchExchangeAdapter", <<exchange, exchange>>),
       addIntegration("compoundLeverageModule", adapter) >>

compoundLeverageModuleSpec ==
    systemInitialize \o compoundInitialize
    \o createAndEnableCEther("cEther", "comptroller")
    \o createAndEnableCToken("cDai", "dai", "comptroller")
    \o createAndEnableCToken("cComp", "comp", "comptroller")
    \o << Send({"comptroller"}), Send({"comptroller", "cEther", "cDai", "cComp"}),
          Deploy("debtIssuanceMock", "DebtIssuanceMock", <<>>), addModule("debtIssuanceMock"),
          Deploy("compoundLibrary", "Compound", <<>>),
          Deploy("compoundLeverageModule", "CompoundLeverageModule",
                 <<"controller", "comp", "comptroller", "cEther", "weth", "compoundLibrary">>),
          addModule("compoundLeverageModule") >>
    \o oneInch("oneInchExchangeMockToWeth", "oneInchExchangeAdapterToWeth", "dai", "weth")
    \o oneInch("oneInchExchangeMockFromWeth", "oneInchExchangeAdapterFromWeth", "weth", "dai")
    \o oneInch("oneInchExchangeMockWithSlippage", "oneInchExchangeAdapterWithSlippage",
               "dai", "weth")
    \o oneInch("oneInchExchangeMockOneWei", "oneInchExchangeAdapterOneWei", "dai", "weth")
    \o << addIntegration("compoundLeverageModule", "debtIssuanceMock") >>

\* The set-up of the first suite of #initialize, a CKToken that is on the list.
initializeContracts ==
    createCKToken("ckToken", {"weth", "dai"}, <<"compoundLeverageModule", "debtIssuanceMock">>)
    \o << Send({"debtIssuanceMock", "ckToken"}), Send({"compoundLeverageModule", "ckToken"}) >>

aaveGovernanceModuleSpec ==
    systemInitialize \o aaveInitialize
    \o << Deploy("governanceModule", "GovernanceModule", <<"controller">>),
          addModule("governanceModule"),
          Deploy("aaveGovernanceAdapter", "AaveGovernanceAdapter",
                 <<"aaveProtoGovernance", "aaveToken">>),
          addIntegration("governanceModule", "aaveGovernanceAdapter") >>

deployAndIssue ==
    createCKToken("ckToken", {"aaveToken", "lendToken"}, <<"issuanceModule", "governanceModule">>)
    \o << Send({"issuanceModule", "ckToken"}), Send({"governanceModule", "ckToken"}),
          Send({"aaveToken", "issuanceModule"}), Send({"lendToken", "issuanceModule"}),
          Send({"issuanceModule", "ckToken", "owner"}) >>

compoundBravoGovernanceAdapterSpec ==
    compoundInitialize \o initializeGovernorBravo
    \o << Deploy("compoundBravoGovernanceAdapter", "CompoundBravoGovernanceAdapter",
                 <<"compoundGovernorBravoDelegator", "comp">>) >>

\* The adapter becomes resource 3, which none of the contracts here asks for.
uniswapPairPriceAdapterSpec ==
    systemInitialize \o uniswapInitialize
    \o << addModule("owner"),
          [Deploy("uniswapPriceAdapter", "UniswapPairPriceAdapter",
                  <<"controller", "uniswapFactory">>) EXCEPT !.uses = {"wethDaiPool", "wethWbtcPool"}],
          Send({"controller", "uniswapPriceAdapter"}), Send({"priceOracle", "uniswapPriceAdapter"}),
          Send({"weth", "router"}), Send({"wbtc", "router"}), Send({"dai", "router"}),
          Send({"router", "weth", "wbtc", "owner"}), Send({"router", "weth", "dai", "owner"}) >>

Programs ==
    {compoundLeverageModuleSpec \o initializeContracts, aaveGovernanceModuleSpec \o deployAndIssue,
     compoundBravoGovernanceAdapterSpec, uniswapPairPriceAdapterSpec}
=============================================================================
