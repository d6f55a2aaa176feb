---------------------------- MODULE DeployHelpers ----------------------------
(***************************************************************************)
(* What the deploy helpers of utils/deploys hand to the constructors.      *)
(*                                                                         *)
(* A helper takes addresses by position and passes addresses by position;  *)
(* both are TypeScript strings, so a swapped pair compiles.  A table gives *)
(* for every contract the roles its helper takes and the roles it passes   *)
(* on, in order.  A role is named by what the specs hand over for it (a    *)
(* field of a fixture, an account or a mock); amounts, names, list-valued  *)
(* arguments and library names are left out.                               *)
(***************************************************************************)
EXTENDS Naturals, Sequences, FiniteSets, TLC

Same(roles) == [takes |-> roles, passes |-> roles]

\* The helper needs the library's address to link the bytecode: it takes it
\* last and does not pass it to the constructor.
Linked(roles, library) == [takes |-> Append(roles, library), passes |-> roles]

\* What deployCompoundLeverageModule passes on.
leverageArguments == <<"controller", "comp", "comptroller", "cEther", "weth">>

DeployCoreContracts ==
       [c \in {"CKTokenCreator", "IntegrationRegistry", "CKValuer"} |-> Same(<<"controller">>)]
    @@ ("Controller"  :> Same(<<"feeRecipient">>))
    @@ ("PriceOracle" :> Same(<<"controller", "usdc">>))
    @@ ("CKToken"     :> Same(<<"controller", "owner">>))

DeployModules ==
       [c \in {"BasicIssuanceModule", "IssuanceModule", "DebtIssuanceModule", "AmmModule",
               "StreamingFeeModule", "AirdropModule", "TradeModule", "ClaimModule",
               "StakingModule", "GovernanceModule"} |-> Same(<<"controller">>)]
    @@ [c \in {"NavIssuanceModule", "WrapModule", "CustomOracleNavIssuanceModule",
               "GeneralIndexModule"} |-> Same(<<"controller", "weth">>)]
    @@ ("BatchIssuanceModule" :> Same(<<"controller", "weth", "issuanceModule">>))
    @@ ("SingleIndexModule" :>
          Same(<<"controller", "weth", "router", "sushiswapRouter", "exchange">>))
    @@ ("CompoundLeverageModule" :>
          [takes  |-> <<"controller", "comp", "comptroller", "cEther", "weth", "compoundLibrary">>,
           passes |-> leverageArguments])

DeployAdapters ==
       [c \in {"UniswapV2ExchangeAdapter", "UniswapV2TransferFeeExchangeAdapter",
               "UniswapV2ExchangeAdapterV2", "UniswapV2IndexExchangeAdapter"} |-> Same(<<"router">>)]
    @@ ("KyberExchangeAdapter"          :> Same(<<"kyberNetworkProxy">>))
    @@ ("OneInchExchangeAdapter"        :> Same(<<"oneInchApproval", "oneInchExchange">>))
    @@ ("ZeroExApiAdapter"              :> Same(<<"zeroEx">>))
    @@ ("SynthetixExchangeAdapter"      :> Same(<<"synthetixExchanger">>))
    @@ ("BalancerV1IndexExchangeAdapter" :> Same(<<"exchange">>))
    @@ ("UniswapPairPriceAdapter"       :> Same(<<"controller", "uniswapFactory">>))
    @@ ("AaveWrapAdapter"               :> Same(<<"lendingPool">>))
    @@ ("AaveMigrationWrapAdapter" :> Same(<<"lendToAaveMigrator", "lendToken", "aaveToken">>))
    @@ ("CompoundWrapAdapter"           :> Linked(<<>>, "compoundLibrary"))
    @@ ("YearnWrapAdapter"              :> Same(<<>>))
    @@ ("AaveGovernanceAdapter"         :> Same(<<"aaveProtoGovernance", "aaveToken">>))
    @@ ("AaveGovernanceV2Adapter"       :> Same(<<"aaveGovernanceV2", "aaveToken">>))
    @@ ("CompoundLikeGovernanceAdapter" :> Same(<<"compoundGovernorAlpha", "comp">>))
    @@ ("CompoundBravoGovernanceAdapter" :> Same(<<"compoundGovernorBravoDelegator", "comp">>))
    @@ ("SnapshotGovernanceAdapter"     :> Same(<<"delegateRegistry">>))
    @@ ("CurveStakingAdapter"           :> Same(<<"gaugeController">>))

DeployCompound ==
       [c \in {"CompoundGovernorBravoDelegate", "CompoundPriceOracleMock", "Comptroller",
               "Unitroller", "WhitePaperInterestRateModel"} |-> Same(<<>>)]
    @@ [c \in {"Comp", "CompoundTimelock"} |-> Same(<<"owner">>)]
    @@ ("CompoundGovernorAlpha" :> Same(<<"compoundTimelock", "comp", "owner">>))
    @@ ("CompoundGovernorBravoDelegator" :>
          Same(<<"compoundTimelock", "comp", "owner", "compoundGovernorBravoDelegate">>))
    @@ ("CERc20" :> Same(<<"underlying", "comptroller", "interestRateModel">>))
    @@ ("CEther" :> Same(<<"comptroller", "interestRateModel">>))
    @@ ("PriceOracleProxy" :>
          Same(<<"guardian", "compoundPriceOracle", "cEther", "cUsdc", "cSai", "cDai", "cUsdt">>))

DeployAave ==
       [c \in {"LendingPoolAddressesProvider", "CoreLibrary", "LendingPool", "AaveTokenV2Mintable",
               "LendingPoolConfigurator", "LendingRateOracle", "LendingPoolDataProvider",
               "AavePropositionPower", "AssetVotingWeightProvider"} |-> Same(<<>>)]
    @@ ("AaveProtoGovernance" :> Same(<<"governanceParamsProvider">>))
    @@ ("GovernanceParamsProvider" :> Same(<<"aavePropositionPower", "assetVotingWeightPower">>))
    @@ ("LendingPoolCore" :> Linked(<<>>, "coreLibrary"))
    @@ ("DefaultReserveInterestRateStrategy" :>
          Same(<<"lendingPoolCore", "lendingPoolAddressesProvider">>))
    @@ ("LendToAaveMigrator" :> Same(<<"aaveToken", "lendToken">>))
    @@ ("AaveGovernanceV2" :> Same(<<"governanceStrategy", "owner">>))
    @@ ("Executor" :> Same(<<"owner">>))
    @@ ("GovernanceStrategy" :> Same(<<"aaveToken", "stkAaveToken">>))

\* deployUniswapV2Pair takes a factory and WETH and passes neither.
DeployUniswap ==
       ("Uni" :> Same(<<"owner", "minter">>))
    @@ ("UniswapTimelock" :> Same(<<"owner">>))
    @@ ("UniswapGovernorAlpha" :> Same(<<"uniswapTimelock", "uni">>))
    @@ ("UniswapV2Factory" :> Same(<<"owner">>))
    @@ ("UniswapV2Router02" :> Same(<<"uniswapFactory", "weth">>))
    @@ ("UniswapV2Pair" :> [takes |-> <<"uniswapFactory", "weth">>, passes |-> <<>>])
    @@ ("StakingRewards" :> Same(<<"owner", "uni", "stakingPool">>))

DeployCurve ==
       [c \in {"CurvePoolERC20", "CRVToken"} |-> Same(<<>>)]
    @@ ("CurveDeposit"         :> Same(<<"stableSwap", "poolToken">>))
    @@ ("Stableswap"           :> Same(<<"poolToken">>))
    @@ ("GaugeController"      :> Same(<<"crvToken", "votingEscrow">>))
    @@ ("LiquidityGaugeReward" :> Same(<<"poolToken", "crvMinter", "rewardContract", "rewardToken">>))
    @@ ("LiquidityGauge"       :> Same(<<"poolToken", "crvMinter">>))
    @@ ("Minter"               :> Same(<<"crvToken", "gaugeController">>))

DeployBalancerYearn ==
       [c \in {"BFactory", "DelegateRegistry", "Vault", "Registry"} |-> Same(<<>>)]
    @@ ("ExchangeProxy" :> Same(<<"weth">>))
    @@ ("BRegistry"     :> Same(<<"balancerFactory">>))

DeployWETH == "WETH9" :> Same(<<>>)

DeployMocks ==
       [c \in {"ExplicitERC20Mock", "InvokeMock", "ManagerIssuanceHookMock",
               "ModuleIssuanceHookMock", "NAVIssuanceHookMock", "AddressArrayUtilsMock",
               "Uint256ArrayUtilsMock", "GovernanceAdapterMock", "OracleMock", "YearnVaultMock",
               "PositionMock", "PreciseUnitMathMock", "ResourceIdentifierMock", "TradeAdapterMock",
               "AmmAdapterMock", "WrapAdapterMock", "AaveLendingPoolCoreMock", "ClaimAdapterMock",
               "GaugeControllerMock", "ContractCallerMock", "DebtIssuanceMock",
               "CustomCKValuerMock"} |-> Same(<<>>)]
    @@ [c \in {"ModuleBaseMock", "GodModeMock"} |-> Same(<<"controller">>)]
    @@ [c \in {"StandardTokenMock", "StandardTokenWithFeeMock", "SynthMock"} |-> Same(<<"owner">>)]
    @@ [c \in {"OneInchExchangeMock", "ZeroExMock"} |-> Same(<<"sendToken", "receiveToken">>)]
    @@ ("NAVIssuanceCaller"     :> Same(<<"navIssuanceModule">>))
    @@ ("KyberNetworkProxyMock" :> Same(<<"weth">>))
    @@ ("DebtModuleMock"        :> Same(<<"controller", "debtIssuanceModule">>))
    @@ ("OracleAdapterMock"     :> Same(<<"asset">>))
    @@ ("StakingAdapterMock"    :> Same(<<"stakingAsset">>))
    @@ ("AaveLendingPoolMock"   :> Same(<<"aaveLendingPoolCore">>))
    @@ ("ComptrollerMock"       :> Same(<<"comp", "cDai">>))
    @@ ("CompoundMock"          :> Linked(<<>>, "compoundLibrary"))
    @@ ("SynthetixExchangerMock" :> Same(<<"sUsd", "sEth", "sBtc">>))
    @@ ("YearnStrategyMock"     :> Same(<<"yearnVault">>))

DeployLibraries == "Compound" :> Same(<<>>)

DeployOracles ==
       ("CTokenOracle"     :> Same(<<"cDai", "underlyingOracle">>))
    @@ ("YearnVaultOracle" :> Same(<<"yearnVault", "underlyingOracle">>))

DeployProduct == [c \in {"UniswapYieldHook", "AssetLimitHook"} |-> Same(<<>>)]

DeployViewers == "ProtocolViewer" :> Same(<<>>)

\* The DeployHelper a fixture or a spec holds.
DeployHelper ==
    DeployCoreContracts @@ DeployModules @@ DeployAdapters @@ DeployCompound @@ DeployAave
    @@ DeployUniswap @@ DeployCurve @@ DeployBalancerYearn @@ DeployWETH @@ DeployMocks
    @@ DeployLibraries @@ DeployOracles @@ DeployProduct @@ DeployViewers
=============================================================================
