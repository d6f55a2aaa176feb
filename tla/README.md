# Cook protocol: TLA+ specifications

Specifications, model-checking configurations and machine-checked proofs for
`src/cook-protocol-contracts`: the Solidity contracts (0.6.10, an index-token protocol), and the
TypeScript under `utils/` that deploys them, brings up the chains they are tested on, sandboxes
their tests and computes what the tests expect. Paths below are relative to
`src/cook-protocol-contracts/contracts`, those of TypeScript (`utils/`, `test/`,
`hardhat.config.ts`) to `src/cook-protocol-contracts`.

A CKToken is an ERC20 that owns other ERC20s and promises each whole token a *unit* of
every component. It does nothing by itself: *modules*, enabled by the `Controller` and
added by the token's manager, mint, burn, trade, charge fees and edit units. Every
transaction is atomic and transactions come in any order from anyone, so an action of the
specifications is one external call with everything it calls, and behaviours are all
orders of such calls. A call that reverts changes nothing and is no step. One call is cut in two:
`CKToken.removeModule`, which calls the module back before it changes anything.

## 1. Inventory

| part | state | operations | what makes it correct |
|---|---|---|---|
| `protocol/CKToken.sol` with `protocol/lib/Position.sol` | manager, locker, module states and array, component array, per component a default virtual unit, external units by module and their array, position multiplier | module life cycle, lock, `setManager`, unit edits by modules through `Position`, `editPositionMultiplier` | arrays hold exactly what the mappings say; no position rounds to nothing; a lock is held by a module that can release it, unless that module was removed while it took it |
| `lib/PreciseUnitMath.sol`, `lib/AddressArrayUtils.sol` | none | fixed-point operations in four roundings; array edits | rounding direction; removal keeps the rest |
| `protocol/modules/BasicIssuanceModule.sol` | none of its own that matters | `issue`, `redeem` | the token can always pay out its supply |
| `protocol/modules/StreamingFeeModule.sol` | fee, maximum, last accrual | `accrueFee` (anyone), `updateStreamingFee`, `initialize`, `removeModule` | exact fee share; holders pay it once; old time at the old rate |
| `protocol/modules/TradeModule.sol`, `WrapModule.sol`, `WrapModuleV2.sol` | none | `trade`, `wrap`, `unwrap` (manager) | units follow the balances; nothing airdropped is taken in |
| `protocol/modules/AirdropModule.sol` | list and mapping of tokens, fee | `absorb`, `batchAbsorb`, list and fee edits | list and mapping agree; fee changes do not reach back |
| `protocol/Controller.sol`, `CKTokenCreator.sol`, `IntegrationRegistry.sol` | arrays and mappings of tokens, factories, modules, resources, adapters; fees | governance edits; creation | arrays and mappings agree |
| `protocol/modules/DebtIssuanceModule.sol`, `V2` | hooks, fees per token | `issue`, `redeem` with debt, hook registration | collateral and debt stay covered; hooks can be called |
| `protocol/modules/CompoundLeverageModule.sol`, `AaveLeverageModule.sol` | enabled assets | `lever`, `delever`, `sync`, hooks | units follow interest and liquidation; debt is borrowed and repaid once |
| `protocol/modules/BatchIssuanceModule.sol`, `V2` | rounds, deposits | `deposit`, `batchIssue` (anyone), `withdrawCKToken` | a depositor gets a share of the round; deposits are not mixed |
| `protocol/modules/IssuanceModule.sol`, `V2` | exchanges, wrap adapters | issue and redeem against one token | units fit what was bought; change is returned |
| `protocol/modules/NAVIssuanceModule.sol`, `CustomOracle...` | reserve assets, fees, premium | issue and redeem at net asset value | multiplier, unit and supply move together |
| `protocol/modules/GeneralIndexModule.sol`, `SingleIndexModule.sol` | targets, trade limits, traders | rebalance trades by allowed traders | targets are reached and not passed |
| `protocol/modules/StakingModule.sol` | staked units | `stake`, `unstake`, hooks | staked units equal external units |
| `protocol/modules/ClaimModule.sol` | pools, adapters, flags | claims and list edits | the three structures agree |
| `protocol/modules/AmmModule.sol`, `GovernanceModule.sol` | none | liquidity, votes | units follow balances |
| `protocol/PriceOracle.sol`, `CKValuer.sol`, oracle adapters | pairs, adapters | prices | a price is found when a route exists |
| `protocol/integration/**`, `product/**`, `protocol-viewers/**` | almost none | call data for external protocols, trade splitting, getters | |
| `utils/test/testingUtils.ts`, `utils/common/blockchainUtils.ts` | one stack `SNAPSHOTS` for all suites, a flag per cached set-up, a snapshot id per restoring suite; the node's snapshots | `cacheBeforeEach`, `addSnapshotBeforeRestoreAfterEach`, save, revert, time travel | every test starts on the chain its suites describe; variables name what is on it; a failed or late hook spoils no other suite |
| `utils/common/*Utils.ts` (fees, net asset value, Uniswap, units) | none | expected values, over signed numbers | they agree with the contracts up to a stated rounding |
| `utils/deploys/*.ts` | signer | one helper per contract, addresses by position | each constructor parameter gets the contract it stands for |
| `utils/fixtures/*.ts`, the specs' outer hooks | fields with the deployed contracts | `initialize`, creation of tokens, markets and pairs | nothing is read before it is there; what is read back is one's own |
| other utilities (`constants.ts`, `types`, `contracts/index.ts`, `dependencies.ts`) | none | | |

Interaction. A module calls the CKToken (guarded by `onlyModule`: initialized on the token
*and* enabled in the Controller), the CKToken calls a module back only in `removeModule`,
before it changes its own state and after it has looked at the lock. Issuance modules call hooks of modules with external
positions. All else is shared through the token's units, balances, supply and multiplier:
a fee module changes the multiplier under an airdrop module that computes what is owed from
it. Nothing runs concurrently inside a transaction and nothing is retried or timed out there; the
hard parts are orders of calls, rounding, and values that go stale between calls (time, the
balances anyone can raise by sending tokens, prices and debts outside).

The TypeScript is concurrent in the way of its event loop: hooks and tests are asynchronous, mocha
runs them one at a time and fails those that throw or exceed its timeout, a call that nobody
awaits is mined after statements that follow it, and addresses are read back from "the latest
block" or "the last pair" in requests of their own. The sandbox is shared mutable state (one stack of
snapshot ids, a node that forgets snapshots taken after the one it reverts to) under nested hooks.

`PROJECT.json` lists the hazards, each at its line, with the properties that cover it.

## 2. Modules

| module | models | state, by its name in the code |
|---|---|---|
| `PreciseUnitMath` | `lib/PreciseUnitMath.sol` | none; `PreciseUnit` is 10^18 there |
| `AddressArrayUtils` | `lib/AddressArrayUtils.sol` | none |
| `CKToken` | `protocol/CKToken.sol`, `protocol/lib/Position.sol`, enabling of modules | `manager`, `locker`, `modules`, `moduleStates`, `components`, units, external modules, `positionMultiplier`, `isModule` |
| `PositionLedger` | what a CKToken promises readers of `getPositions` | one set of positions |
| `CKTokenLedger` | the refinement mapping from `CKToken` | |
| `Fund` | a CKToken for the modules that move value: supply, balances, default units, multiplier | |
| `BasicIssuance`, `Trade`, `AirdropModule`, `StreamingFee` | the modules of those names; `Trade` also `WrapModule` | the modules' settings and `now` |
| `Portfolio` | their composition on one token | |
| `Controller` | `protocol/Controller.sol` | `cks`, `factories`, `modules`, `resources` as `list`; `isCK`, ... as `enabled`; `resourceId`, `fees` of one type |
| `Leverage` | `CompoundLeverageModule`, `AaveLeverageModule`, and the debt they keep at the lender | `enabledAssets`, the two mappings, external units, `debt` and `stored` (`borrowBalanceCurrent`, `borrowBalanceStored`) |
| `DebtIssuance` | `DebtIssuanceModule`, `DebtIssuanceModuleV2`, `IssuanceValidationUtils` | `issuanceSettings`: fees, `moduleIssuanceHooks`, `isModuleHook` |
| `LeveragedToken` | their composition on one token, with the life of the modules on it, the Controller that disables them, interest and liquidation | |
| `NAVIssuance` | `NAVIssuanceModule`, the valuation of `CKValuer` over fixed prices | `navIssuanceSettings`: reserve assets, fees, premium, minimal supply |
| `NAVPortfolio` | `Portfolio` with `NAVIssuance`, next to what `TestFormulas` expects | |
| `BatchIssuance` | `BatchIssuanceModuleV2` | `roundNumbers`, rounds, `userDeposits`, the balances; what was deposited and received, as history |
| `TestFormulas` | `utils/common`: `feeModuleUtils`, `navIssuanceModuleUtils`, `uniswapUtils`, `unitsUtils`, `mathUtils` | none |
| `Blockchain` | `utils/common/blockchainUtils.ts`: the development chain | the chain, the node's snapshots |
| `TestSandbox` | `utils/test/testingUtils.ts` under mocha | `SNAPSHOTS`, each cached set-up's flag, each guard's snapshot id, where mocha is |
| `FreshTests` | what the sandbox promises: a fresh chain for each test | the chain before, the set-up around, the chain a test sees |
| `DeployHelpers` | `utils/deploys`: what every helper takes and passes on, by position | none |
| `Fixtures` | `utils/fixtures`: system, Compound, Aave, Uniswap; the outermost set-up hooks of four specs | none: they are programs |
| `Bringup` | the chain these programs run against, calls that are not awaited included | deployed contracts, handles, calls in flight, logs, pairs, the node's clock, how the hook ended |
| `ProgramText` | what the text of a program promises before it runs: assigned before read, of the right kind, read back at once | none |
| `MCCKToken`, `MCPortfolio`, `MCNAVPortfolio`, `MCController`, `MCLeveragedToken`, `MCBatchIssuance`, `MCTestSandbox`, `MCBringup` | instances | |
| `LibraryProofs`, `CKTokenProofs`, `PortfolioProofs`, `ControllerProofs`, `LeveragedTokenProofs`, `BatchIssuanceProofs`, `TestSandboxProofs`, `BringupProofs` | theorems | |

`CKToken` keeps every guard and every array; `Fund` drops the arrays, because a component
with unit zero is exactly one that is not listed (`ComponentListExact`, proved), and keeps the
money. `Fund` has default positions only: `BasicIssuanceModule` refuses a token with external
positions. `Leverage` adds the external ones, negative units of a leverage module in the asset it
borrowed; `DebtIssuance` calls the leverage modules three times in one `issue` or `redeem`: the
registered ones to sync all units, then, per component, each with a position for the equity, and
again for the debt. That is one action, with the sync in its primed units.

What each action stands for is in `PROJECT.json` under `map`. Points that are easy to miss:

* `conservativePreciseDiv` on storing a unit and `conservativePreciseMul` on reading it are both
  floors, also of negative numbers; `_convertRealToVirtualUnit` refuses a positive unit that
  would read back as zero (`IsConvertible`, `IsStorable`).
* `CKToken.removeModule` looks at the lock, calls the module, then changes states and array:
  `RemoveModule` goes as far as the call, `removing` names the module that is running, and `RemoveModuleReturns`
  does the rest. In between everything else may happen, the module acting with its old rights included. `LocksOnRemoval` are the
  modules whose own code locks the token in that callback; a callback that reverts undoes the whole call.
* `Position.editExternalPosition` and `editDefaultPosition` list and unlist the component
  themselves; the models do this inside the action.
* What an exchange or a wrapping protocol takes and gives is nondeterministic, up to the
  approval it got; the module's checks after the call are guards.
* Lenders, exchanges and liquidators change debts and balances by any of the amounts given in the
  instance, and the lender's own refusals are guards: Compound takes no more than the debt and keeps a
  market with a debt from being left, Aave takes what is owed and refuses amounts of zero. The
  underlying of the collateral only passes through the token.
* In `LeveragedToken` the module states are a small copy of `CKToken`'s: what matters there is who is
  initialized and who may call. The issuance module is never disabled in the Controller.
* Holders are merged. A redemption needs a holder with the quantity, which exists for every
  quantity up to the supply for some distribution of it.
* `NAVIssuance`: hooks and the caller's minimal quantities may only refuse. `getExpectedIssuePositionUnit`
  and `getExpectedRedeemPositionUnit` "adjust for rounding" by multiplying before they divide; the
  contracts divide first, so no property compares the two.
* `BatchIssuance`: the issuance module it calls is external, it spends part of the pooled token and
  mints any of the given amounts. `updateSlippage` stores what nothing reads and has no action.
* `TestSandbox`: a contract's address follows from the deployer's nonce, so that a set-up's variables
  are modelled by the place on the chain they name. A failed or timed-out hook ends the tests of its suite and
  mocha goes on with the `after` hooks. It does not stop the asynchronous function of a hook that timed out: what is
  left of a set-up (`late`) deploys, saves a snapshot, pushes it and sets `initialized` at any later step, while other hooks, tests
  or suites run.
* `Fixtures`: a program is the whole of a spec's outermost set-up hook with every fixture it calls: `cacheBeforeEach` of
  `compoundLeverageModule.spec.ts:60-216`, `before` of `aaveGovernanceModule.spec.ts:39-68`, of
  `compoundBravoGovernanceAdapter.spec.ts:31-49` and of `uniswapPairPriceAdapter.spec.ts:35-90`. The first two are followed by the first set-up of an
  inner suite that creates a CKToken (`initializeContracts`, lines 271-283; `deployAndIssue`, lines 76-94), as mocha runs them.
  Statements that only send a transaction no property looks at are kept as `send`: approvals,
  liquidity, `addIntegration`, and `addResource` with the id 3, which no modelled contract asks for.
* `Bringup`: a program is one async function, one step per statement. A call that is not awaited is put in flight and lands at
  any later step, also between a creation and the read of its log. Every transaction is a block, at least a second after the last and
  at most `MaxGap`. A statement that cannot go through throws and ends the hook (`outcome`): "late" when a block or the clock got in
  between it and the statement before it, on which it relies, "broken" otherwise.
  `Parameters` are the address parameters of the constructors; `Stands` says which contracts a parameter may be given, where more than
  the one it is named for: the mock of 1inch is both the exchange and what its traders approve. `getTransactionTimestamp`
  asks for a block by a field that is undefined before the transaction is mined, which is the latest block. `CEther` takes an administrator
  in its source and none in the compiled form that is deployed (`external/abi/compound/CEther.json`), which is followed.
* Definitions whose name ends in a mistake (`..._RoundedDown`, `..._KeepingUnit`) are wrong
  variants of the definition after them; no specification uses them. They show that a property
  can fail.

## 3. Runs

| run | question | instance | result |
|---|---|---|---|
| `cktoken` | Do module array, states, Controller and lock stay consistent, also while a module that is being removed is called back; what becomes of a lock taken there; do unit edits keep lists exact, does no position vanish, is every change one that a reader of `getPositions` expects? (`TypeOK`, `AccessExact`, `LostLockFreezes`, `NoVanishedPosition`, `PositionListsExact`, `ImplementsLedger`) | 2 modules, of which one locks the token in its removal callback, 1 component, 2 accounts, `PreciseUnit` = 2 | holds |
| `plain` | Can a token without streaming fee always pay out, do airdrops stay apart, do lists agree? (`Collateralized`, `AirdropListExact`, `FeeChangeAbsorbsFirst`, `AirdropsStayAirdropped`) | 2 components, one with no unit at first | holds |
| `fee` | Is the streaming fee exact, paid by the multiplier, never charged back and no dearer when accrued often? Does issuance at net asset value raise the unit only by what came in, does the token fall short of what it owes only by the rounding of issues, does nobody gain by issuing and redeeming at once, do both agree with the tests' formulas? (`AccrualExact`, `ShortOnlyByIssues`, `RateChangeAccrues`, `AccruingOftenCostsNoMore`, `UnitRisesWithBalance`, `RoundTripGainsNothing`, `QuotesAsTested`, `ScalingAsTested`) | 2 components, one a reserve asset, base units 5 and 10, `PreciseUnit` = 10, 2 time steps, supply up to 20 | holds |
| `rounding` | Does `Collateralized` hold with a streaming fee? | 1 component, `PreciseUnit` = 8 | violated |
| `registry` | Do arrays, mappings and resource ids of the Controller agree, from arrays without duplicates? (`LookupsExact`) | 2 addresses, 2 ids | holds |
| `aave` | Over Aave, while the manager adds and removes modules and assets, with interest, liquidations and aToken growth at any time: do units cover debt and balances cover units after every issue and redemption, is the loan taken out once, do the lists of assets agree? (`EnabledAssetsExact`, `DebtCovered`, `CollateralCovered`, `LoanTakenOutOnce`) | 2 assets and their aTokens, `PreciseUnit` = 2, supply up to 3, debt up to 2, issuance V2, a surplus of the borrowed asset possible | holds |
| `compound` | Over Compound, whose stored debt lags behind, with manager and protocol fees and with governance disabling the leverage module at any time: the same, does the issuer get exactly the loan, does a disabled module stay out, does every debt stand in a debt unit whatever is removed, do hooks and modules part only while the module is disabled? (`DebtCovered`, `CollateralCovered`, `LoanPassedOn`, `DisabledTakesNoPart`, `DebtOnBooks`, `HooksPartWhileDisabled`) | 2 assets and their cTokens, one of them collateral and borrowed at once, supply up to 3, issuance V1, no surplus of the borrowed asset | holds |
| `batch` | Are claims covered through every order of deposits, issues by anyone, withdrawals for anyone and changes of settings; do deposits wait safely; is a share independent of when it is taken, does no claim shrink? (`WithdrawalsCovered`, `WaitsUntilSwept`, `FairShare`, `ClaimsStand`) | 1 CKToken, 3 depositors, 2 pooled tokens, 2 rounds of up to 3, `PreciseUnit` = 2 | holds |
| `pooling` | Is whoever issues a round left with no more than the round brought? (`PaidFromOwnRound`) | 2 CKTokens that pool the same token | violated |
| `sandbox` | Does every test run on the chain its suites describe, however suites nest and hooks fail; what does a set-up that timed out and goes on spoil? (`HandlesFresh`, `StackExact`, `TestsAreFresh`) | suites of up to 2 set-ups with a guard anywhere, nested 2 deep, 3 hooks, 3 tests, 1 set-up that times out; cached set-ups before plain ones | holds |
| `nesting` | Is it so too when a cached set-up follows a plain one? (`HandlesFresh`) | the nesting of `test/protocol/modules/generalIndexModule.spec.ts` | violated |
| `bringup` | Do constructors get the contracts their parameters stand for, is what is read back from the chain one's own, does every hook come to its end? (`WiredAndListed`, `ResourcesAreTheHandles`, `CreatedIsReturned`, `HookCompletes`) | the outermost hooks of four specs, calls that are not awaited landing at any step, up to 3 seconds from block to block; then one contract deployed through any helper | holds |

Bounds. `PreciseUnit` is 2, 8 or 10 instead of 10^18: rounding then happens in almost every
operation, and the cases that need a remainder of one part in 10^18 are reached in a few steps.
The proofs hold for every `PreciseUnit`. Two modules and two components are what a property that
relates two positions, or a position and a list, needs; a third shows nothing the second does not, and
the array lemmas are proved for any length. `MaxSupply`, `MaxBalance`, `MaxTime` bound `Portfolio`'s
counters in `Bounded`; `Quantities`, `TradeUnits`, `Fees`, `MaxGiven` are the inputs. Quantities are
chosen that `PreciseUnit` does not divide. `LeveragedToken` has one lender, one collateral and one borrow asset
at a time, which is what every call works on; its bounds leave room for an issue, a lever, interest, a
liquidation and a second issue or the redemption of everything.

`NAVPortfolio` lets time pass only for the streaming fee and has one of the two modules on the token at
a time (`OneModule`): the properties relate an action of one of them to the units and the supply the other left.
The reserve's base unit is half a `PreciseUnit`, as that of a token with fewer than 18 decimals is a part of 10^18:
contracts and tests then round in different places. `RoundTripGainsNothing` asks for base units that divide
`PreciseUnit` (`DivideThePreciseUnit`), which powers of ten up to 10^18 do.
Symmetry is used where accounts are interchangeable (`batch`).

`BatchIssuance` leaves one thing out by its guards, because the code does not provide for it: a
module that was removed is not added again (`initialize` sets the round number back while rounds and
deposits keep their entries, so that a new deposit joins an old round). `batch` has one CKToken, so that TLC can take three
depositors through two rounds; nothing in its properties assumes that, and they are proved for any number of CKTokens that may pool the same
tokens.

`TestSandbox` bounds nesting, hooks, tests and set-ups that time out: a second level of suites, a second set-up on a
level and a test after a failure in between are what the shared stack can be confused by; one late set-up acts three
times, each at any step of the suites that follow. In `Bringup`, `MaxGap` = 3 lets the clock be on time, one second and two seconds late, which
is what the timelock's eta (which allows no delay) and the token's minting time (which allows one second) tell apart; when a call in flight lands is not bounded at all. `MaxDeploys` = 1:
deployments after the hook do not depend on one another.

Deadlock is checked but where the system stops: a program of `bringup` ends, a removed module in `batch` and `pooling` stays
removed, and `sandbox` and `nesting` stop at their bounds. No definition is replaced in a `.cfg`.

Fairness. No contract call is ever forced, so none is assumed of the contracts. What matters
instead, that a call is not blocked, is stated as safety: `Collateralized` is what `redeem`
and the position updates need in order not to revert, `AccessExact` what `unlock` needs.
`TestSandbox` states safety only: that mocha goes on to other suites is mocha's doing. `Bringup` is fair to the running
function and to the calls in flight: the event loop goes on with a function whose awaited promise is settled, or throws its error into it, and the node
serves every request it has received. Both are weak fairness; nothing competes for these steps.

### The findings

`rounding` violates `Collateralized`. `accrueFee`'s comment
(`protocol/modules/StreamingFeeModule.sol:81-82`) says that units are "adjusted down (in magnitude)
in order to ensure full collateralization". Each step rounds for itself: an issue at a unit that was
rounded down deposits for that unit only, and a later accrual enlarges the supply while the rounded
unit stays where it was. The tracked balance (`Position.getDefaultTrackedBalance`) is then above the
balance held by a few wei of the component. The holder who redeems last, a trade, a wrap and
`AirdropModule.absorb` all subtract one from the other and revert until someone sends the
difference. What the code does ensure is proved, for all modules on one token in any order (`AllSpec`):
an accrual does not raise what the token owes all holders (`AccrualExact`), and only an issue adds to what it is
short of, by at most one smallest unit of each component for each whole CKToken issued (`ShortOnlyByIssues`). No accrual,
trade, airdrop or issuance at net asset value adds to it, whatever came before.

`nesting` violates `HandlesFresh`. `utils/test/testingUtils.ts:41` says that `cacheBeforeEach` is "test
sandboxing for nested snapshots. Can be used like a `beforeEach` statement". In a suite whose plain
`beforeEach` comes first, the plain set-up deploys again before each test, and the cached one then reverts to the
chain of the first test: the plain set-up's variables name a place on the chain where nothing, or
another contract, is. `generalIndexModule.spec.ts:713-722` and `compoundLeverageModule.spec.ts:2540-2545`
nest that way; they are right as long as the plain set-up leaves no handle that tests use. With cached
set-ups first the sandbox keeps its promise, which is proved (`SandboxImplementsFreshTests`).

`pooling` violates `PaidFromOwnRound`. `batchIssue`'s comment (`protocol/modules/BatchIssuanceModuleV2.sol:168`) says that what it sends its caller
"should be incentive plus what's returned from issuance module", and sends the module's whole balance of the pooled token. A deposit that waits for
the round of another CKToken pooling the same token is part of that balance: it goes to the caller, and the other round can no longer
be issued until someone sends as much. Within one CKToken the comment is right, and nothing but such an issue takes what waits
(`WaitsUntilSwept`, proved). What is claimed of rounds already issued is not touched (`WithdrawalsCovered`).

### Known limits

Where the code and its comments or tests part and no run shows it, or where a property is stated so as to leave a case out.

* `Controller.initialize` takes any arrays, and the `remove...` functions take one entry out: an address
  listed twice at first stays in the "List of enabled Modules" (`protocol/Controller.sol:70`).
  `RegistriesAgree` proves that this is the only way.
* A module that locks the token in its own removal callback freezes it for good: `removeModule` asks "must not be locked"
  only before the callback (`protocol/CKToken.sol:377-382`). None of the repository's modules does so;
  `LostLockFreezes` says what would happen, and `AccessExact` excepts only such a holder.
* `CompoundLeverageModule.componentIssueHook` ignores `_isEquity`, where `AaveLeverageModule.sol:683` warns
  that "the loan would be taken out twice potentially leading to liquidation". It takes a component
  with both debt and equity: `deleverToZeroBorrowBalance` with a surplus, then `lever` again. `compound` has
  `Surplus` = {0}; `aave` has one.
* `_getBorrowPosition` rounds the unit up and `componentRedeemHook` the product again, so that "the exact
  units of debt that needs to be repaid" (`CompoundLeverageModule.sol:968`) may be more than the debt,
  and Compound's `repayBorrow` refuses that. Aave takes what is owed.
* After the last redemption sync does nothing, the debt unit stays, the debt is zero and the borrow asset may be
  removed; the next `issue` borrows by the unit, in an asset that no sync reads, though "debt tokens
  corresponding to borrow assets are tracked" (`AaveLeverageModule.sol:609`).
* A Compound asset that is both collateral and borrowed, as `compoundLeverageModule.spec.ts:287-288` sets up.
  "If there is a borrow balance, borrow asset cannot be removed" (`CompoundLeverageModule.sol:602`) holds only by way of `exitMarket`, which is not
  called while the asset is also collateral, so that its debt drops out of sync while interest goes on. `compound` has
  such an asset: what remains true is that the debt stands in a debt unit (`DebtOnBooks`), so that a redeemer still repays a part of it. No debt is dropped
  from sync in any other way, which is proved (`DebtDroppedOnlyAsCollateral`).
* A leverage module that the Controller disables cannot register or unregister its hook, and `removeModule` swallows that
  (`CompoundLeverageModule.sol:504`): the issuance module may go on calling a module that is gone. `HooksPartWhileDisabled` says that there is
  no other way.
* Two leverage modules with debt in one asset: each borrows its own rounded-down share, the issuer is
  sent the rounded-down sum, and a wei comes out of the token's balance or the call reverts. This is why
  `CollateralIsCovered` and `LoanIsPassedOn` assume one leverage module (`OneLender`), and the only reason:
  `ReceiptsAreCovered` holds for any number of them.
* `CollateralCovered` leaves out receipts of assets that are not enabled: the Aave module removes a
  collateral asset without a sync, and a liquidation before it is then never read.
* `DebtCovered` leaves out the first issue after a redemption of everything that left a debt behind:
  that debt is whoever's issues next.
* A set-up that timed out spoils the tests of the outermost suite during which it acts: it deploys on their chain, and
  its snapshot, pushed after its suite's `after` hook, stays on the stack below theirs or between them
  (`testingUtils.ts:49-53`). `HandlesFresh` and `TestsAreFresh` except that suite (`disturbed`), `StackExact` counts such snapshots
  (`stray`); that the suites after it are unharmed is what they claim. A time-out of the restoring branch, which awaits two requests of the
  node and no transaction, is not modelled.
* `queueTransaction`, the minting time of the `Uni` token and the read of the `CKTokenCreated` log rely on the latest block being the caller's
  own, one second after the last (`compoundFixture.ts:114`, `uniswapFixture.ts:51-56`, `protocolUtils.ts:29`). A call that was not awaited
  (`aaveFixture.ts:150,158`) may land in between, or the clock run on, and the hook throws. `HookCompletes` excepts these hooks, and only these. Two transactions
  sent with the same nonce, which a call that is not awaited also risks, are not modelled.
* The helpers of `IssuanceModule` and `ZeroExApiAdapter` pass one address to constructors that take two (`deployModules.ts:58`,
  `deployAdapters.ts:151`), and ethers throws. No modelled hook calls them; `DeployInTest` leaves them out (`TakesAll`), while
  `issuanceModule.spec.ts:45`, `tradeModule.spec.ts:135` and `zeroExApiAdapter.spec.ts:38` do call them.

## 4. Proofs

All proofs are checked by TLAPS from the assumptions that the constants carry (`PreciseUnit` a
positive natural, `OneYear` likewise, `TradeProtocolFee` at most `PreciseUnit`, input sets of naturals, finite sets
of accounts, components and leverage modules where the code sums over them, `WETH` an address), for
`BringupProofs` from what TLC evaluates of the set-ups' text, and from the hypotheses a theorem states.

* `LibraryProofs`: `divDown`, which corrects Solidity's truncating division by hand, is the floor
  (`DivDownIsFloor`); storing and reading a unit never gains; array removal and append keep "no
  duplicates" and the content. Sums over finite sets: `SubsetInduction` is well-founded induction on the subsets of
  a finite set, stated for a set Q of them rather than for a predicate; from it follow the sum of sums,
  linear bounds, taking one summand out or adding to it, and `SumExchange`, that the sum over the rows of a
  table is that over its columns.
* `CKTokenProofs`: `IInv` is inductive: `TypeOK`, the access part, the lists exact, and each external
  unit nonzero only for a listed module. `NoVanishedPosition` needs all of it: the multiplier
  check looks only at the units of listed components, so it says something of all positions only if
  lists are exact. From `IInv`:
  `TypeCorrect`, `AccessCorrect`, for any set of modules that lock in their removal callback; `LostLockIsForGood`, since a module that is not
  initialized is refused by `unlock` and everything else asks who holds the lock; `PositionsNeverVanish`,
  `PositionListsCorrect`; and `LedgerImplemented`, each step of a CKToken maps to a step of
  `PositionLedger` or to none.
* `PortfolioProofs`: `PlainCollateralized`. `Collateralized` itself is inductive with the types, but
  only with a rounding argument for each action: a deposit rounded up covers the growth of a product
  rounded down, a payout rounded down frees more than it takes, a unit set from a remaining amount is at most
  that amount over the supply. `AirdropListsAgree` needs that a removed module leaves its list
  empty. With fees, `FeeInv` carries types and "last accrual is not in the future";
  `FeeShareIsExact` and `AccrualNeverOwesMore` (the parts of `AccrualExact`) follow from the bounds of the two formulas,
  `AccruingOftenIsNoDearer` from comparing the two accruals' formulas with one of both times, and `RateChangesAccrue`
  from which actions touch the rate. `AirdropsStay` and `FeeChangeAbsorbs` follow from what a new
  unit leaves of the balance it was computed from, `QuantitiesEvenOut` from the rounding of each conversion.
  The last section puts all modules next to each other: `FundInv` has no more than types and ranges, and
  `FundStep` shows for each transaction what it does to `shortfall`. That is unit times multiplier times supply less
  the balance, before any rounding, so that it can be followed through an accrual, where `Collateralized` cannot: an issue
  adds what its unit was rounded down by, everything else frees at least what it takes. `ShortIsMissing` says
  what a shortfall means in tokens.
* `PortfolioProofs`, second part: theorems about `AllSpec`, in which the five modules of `Portfolio` and the NAV module act in any
  order on one token; `NAVSpec`, which TLC explores, is a part of it (`NAVSpecIsOfAll`).
  `NAVInv` adds the module's settings to `FundInv` (fees and premium below their maxima).
  `OnlyIssuesFallShort` is the shortfall argument with issues and redemptions at net asset value, which set the
  reserve's unit from the balance and lower the others with the multiplier.
  `UnitsRiseWithBalances`: the reserve's unit is computed from the balance after the call, so that its tracked
  balance rises by at most what came in. `ScalingMatchesTests` and `QuotesMatchTests` compare two
  orders of rounding: each floor is replaced by its two bounds, and what remains is linear.
  `RoundTripsGainNothing`: the mint rounds down from the valuation before the issue, the redemption pays from the
  one after it, and a valuation is off by no more than the sum of the components' roundings (`valuationError`). `AccrualIsExact`,
  `RatesAndAccruals` and `AirdropsAmongAll` carry the fee's and the airdrops' properties over to the token with all modules.
  `UnitsRiseWithBalances` is about `NAVSpec`, and `PlainCollateralized`, `AirdropsStay` about `PlainSpec`: an
  absorption breaks the first, the rounding of a changed multiplier the others.
* `BatchIssuanceProofs`: `BatchInv` holds of each round of each CKToken (`GoodRound`) that its total is the
  sum of the deposits left in it, and that what is left of its CKTokens is at least the share of those
  deposits, and at most one unit more for each account that was served. A withdrawal divides by what is left of
  the round, rounds down, and keeps both bounds. `SharesAreFair` and
  `WithdrawalsAreCovered` are sums of that over rounds and accounts, in either order (`SumExchange`). `DepositsWait` follows what waits for the
  current round through each call, of its own CKToken and of others that may pool the same token. `ClaimsStandStill` needs the first bound too, so that another's
  withdrawal does not lower a claim. A call is proved about once, as an operator on the rows of one CKToken,
  and leaves the rows of the others as they are.
* `ControllerProofs`: `RegistriesAgree` (arrays, mappings, ids), under `NoInitialDuplicates`. `IInv` says of each array and
  its mapping that they hold the same addresses, once; `RemoveMemory` and `AppendNew` of
  `LibraryProofs` preserve that. Nothing else is assumed: the guards of `add...` look at the mapping,
  which is enough because the array agrees with it.
* `LeveragedTokenProofs`: `AssetsAgree` from an invariant of the same form as the
  Controller's. `HooksPartOnlyWhileDisabled` holds whatever the Controller does: list and mapping of the hooks agree always, and only a step
  of a disabled module makes list and module part; it needs that the issuance module stays while a hook is registered. `DebtStaysOnBooks` holds
  for both lenders, whatever is collateral and borrowed: a debt unit reaches zero only where the debt did, which is why rounding it up matters; removals
  drop assets and modules, never units. `DebtDroppedOnlyAsCollateral` says how a debt drops out of sync (see the known limits), and
  `DisabledModulesTakeNoPart` holds for both lenders. These
  rest on `Amounts`: debts and records are naturals, debt units are never positive, whatever lenders,
  exchanges and liquidators choose.
  The money rests on `HeldInv`, which adds balances and default units, that a lender's record is never ahead of
  the debt (`RecordsBehind`), and that no asset which Compound lends is held as equity (`EquityFree`), and on
  `Backed`: between issues too, a component that is not a receipt is held as its unit promises. Receipts are not,
  since a liquidation takes them; but every issue and redemption syncs them first. From there
  `CollateralIsCovered` and `ReceiptsAreCovered` add up, over the leverage modules, what an issue brings in rounded
  up and a redemption pays out rounded down; `DebtIsCovered` and `LoanIsTakenOutOnce` do it for one debt at a time,
  and `LoanIsPassedOn` compares what the modules borrow with what the issuer is sent. Their hypotheses: `LoansOnce` (over Aave always; over Compound when no asset that can be borrowed
  is also equity, else the loan is taken out twice), `OneLender` (see the known limits for both), and that the protocol does not take the whole
  fee, which then is not minted (`ProtocolFeeSplit` < `PreciseUnit`). `CollateralIsCovered` needs `LoansOnce` only
  in V1 of the issuance module; V2 validates the balances after each call. `aave` and `compound` meet these
  hypotheses.
* `TestSandboxProofs`: an invariant for any suites, nesting and numbers of hooks, tests and late set-ups, under
  `~AnyOrder` (cached set-ups come first). The parts: types, and which phase mocha is in (`TypeInv`);
  deeper suites' hooks come later, cached ones before all guards (`SuitesInv`); the stack holds one id for each
  set-up that is initialized, in the order they were taken, and the node still has each, with the chain
  after that set-up (`StackInv`: reverting to one forgets only later ones, which belong to hooks further in);
  a guard's snapshot is younger than the stack (`GuardsInv`); a guard around everything keeps what the outermost
  suite found (`AnchorInv`); what the chain holds in each phase of a round (`RoundInv`). The parts about the chain and the stack are claimed of suites that
  no late set-up disturbed, above the height `floor` at which the outermost suite found the stack; `LateInv` says which late set-ups still have
  their hook, and `CountInv` that pushes and pops balance even for disturbed ones, from which the next outermost suite starts clean.
  `SandboxTypes`, `HandlesStayFresh` and `StackStaysExact` read it off; `SandboxImplementsFreshTests` maps each step of
  the sandbox to a step of `FreshTests` or to none. That cached set-ups come first is needed: `nesting`.
* `BringupProofs`: from what `ProgramText` says of the text to what holds of the chain, for every delay of the timelock,
  every clock, every number of deployments after the hook, and whenever the calls that are not awaited land. The programs
  and tables are concrete, so that what is assumed of them (`ProgramsAssumption`, `TablesAssumption`, `AtOnceAssumption`)
  is evaluated by TLC, in full, in the run `bringup`; a swapped pair of roles, a field read too early or a resource out of
  order makes it false. The assumptions speak of single statements and of those before them; the proofs carry them
  over to addresses. `IInv`: a field has a value exactly when a statement before has assigned it, its contract is of the
  kind its latest assignment says, and what a constructor got is what its field holds as long as neither is assigned again
  (`TextHoldsOnChain`). From there `AddressesEndUpWhereTheyBelong` and `IdsLeadToTheFields`. `AtOnceAssumption` says only that a read of a log, a pair or a time stands
  right before or after the statement it belongs to, not that nothing is mined in between: `Answers` follows both cases, the answer that is still there
  and the one a block has overtaken (`AnswersAreFreshOrStale`). `OwnCreationIsReadBack` follows, because a block that lands takes the log away
  rather than putting another in its place; and `HooksThrowOnlyWhenLate`, the safety half of `HookCompletes`.

Statements that TLC accepted on small instances and that were put right when their proofs failed: the rounding
that `EvensOut` allows two conversions, the one that base units other than `PreciseUnit` cost in `QuotesAsTested`
and `RoundTripGainsNothing` (`fee` has such a base unit since).
Proved and not run, being about formulas and not about behaviour: `QuantitiesEvenOut`, what the quantities the tests trade and stake with leave of a difference.

Only model-checked, being liveness and so out of the prover's reach: `HookCompletes` (of
which `HooksThrowOnlyWhenLate` proves the safety half; that the calls in flight land and the function goes on is fairness).

## 5. Not modelled

* Overflow at 2^256: amounts in the instances and proofs are unbounded integers; SafeMath turns an
  overflow into a revert, which is no step.
* Reentrancy: `nonReentrant` guards the modules' entry points; tokens that call back are not
  modelled.
* ERC20s that take a fee on transfer: `ExplicitERC20` and strict transfers refuse them.
* Fee recipients, events, names, position data bytes, view functions for front ends.
* `GovernanceModule`, adapters, viewers: they keep no state of the system.
* `StakingModule`, `GeneralIndexModule`, `SingleIndexModule`, `IntegrationRegistry`, `ClaimModule`, `IssuanceModule`,
  `AmmModule`, oracles beyond a fixed price: see the plan.
* `BatchIssuanceModule` (version 1: Ether only, a cap on the round); the Ether variants of `NAVIssuanceModule`
  and `WrapModule`, which only convert to WETH; the custom valuer of `CustomOracleNAVIssuanceModule`.
* Of the TypeScript: `dependencies.ts` and other tables of addresses, constants, types, build tasks; the Balancer,
  Curve and Yearn fixtures, and the hooks of the other specs; amounts, names and list-valued arguments of the deploy
  helpers; `min`, `sqrt` and the pool token formulas of the expected values, of which `calculateLPTokensIssued`
  compares a number with zero by reference.
* Of the leverage modules, governance's list of tokens and of markets; of Aave, the switch that lets an
  asset count as collateral, which may refuse a removal; of the issuance module, the manager's hook,
  which may only refuse.
* The components marked `not_modelled` or `partly` in `PROJECT.json` that the plan below names.

## 6. Plan

Done: the token, its lists and its lock; issuance, trades, wraps, airdrops and streaming fees; the Controller;
leverage with debt issuance; net asset value and batch issuance; the test sandbox, the expected values,
deployment and bring-up. Next, each with its runs, mutants and, where it says so, theorems:

1. `Staking` with an accruing fee: staked units against external units scaled by the multiplier.
2. `GeneralIndex`: rebalance trades; targets, limits, cool-off, normalized targets, traders' history.
3. `IntegrationRegistry` next to the Controller; `Claim`, `IssuanceModule`, `Amm`, oracles.
4. The remaining fixtures.
