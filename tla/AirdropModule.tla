---------------------------- MODULE AirdropModule ----------------------------
(***************************************************************************)
(* protocol/modules/AirdropModule.sol: tokens sent to the CKToken beyond    *)
(* what its units account for are absorbed into the units, less a fee.      *)
(* The manager keeps an array of the tokens that may be absorbed next to a  *)
(* mapping.  The caller of absorb does not matter for what it does.         *)
(***************************************************************************)
EXTENDS Fund, AddressArrayUtils

VARIABLES
    airdropInitialized,  \* the module is initialized on the token
    airdrops,            \* airdropSettings.airdrops
    isAirdrop,
    airdropFee           \* of an airdrop; the protocol's share is taken out of it

airdropVars == <<airdropInitialized, airdrops, isAirdrop, airdropFee>>

AirdropInit ==
    /\ airdropInitialized = FALSE
    /\ airdrops = <<>>
    /\ isAirdrop = [c \in Component |-> FALSE]
    /\ airdropFee = 0

-----------------------------------------------------------------------------
(* _handleAirdropPosition *)

amountAirdropped(c) == balance[c] - getDefaultTrackedBalance(virtualUnit, c)

totalFees(c) == preciseMul(amountAirdropped(c), airdropFee)

getPostAirdropUnit(c) == getDefaultPositionUnit(totalSupply, balance[c] - totalFees(c))

IsAbsorbable(c) ==
    /\ isAirdrop[c]
    /\ amountAirdropped(c) >= 0
    /\ amountAirdropped(c) > 0 => totalSupply > 0 /\ IsStorable(getPostAirdropUnit(c))

\* Tokens are absorbed independently, so a batch is a set of them; one that is
\* listed twice is absorbed twice, as by two calls.
AbsorbAll(tokens) ==
    LET absorbed == {c \in tokens : amountAirdropped(c) > 0}
    IN  /\ \A c \in tokens : IsAbsorbable(c)
        /\ balance' = [c \in Component |->
                         IF c \in absorbed THEN balance[c] - totalFees(c) ELSE balance[c]]
        /\ virtualUnit' = [c \in Component |->
                             IF c \in absorbed
                             THEN editDefaultPosition(virtualUnit, c, getPostAirdropUnit(c))[c]
                             ELSE virtualUnit[c]]
        /\ UNCHANGED <<totalSupply, positionMultiplier>>

BatchAbsorb(tokens) ==
    /\ airdropInitialized
    /\ AbsorbAll(tokens)
    /\ UNCHANGED airdropVars

-----------------------------------------------------------------------------
(* The manager's calls *)

InitializeAirdrop(list, fee) ==
    /\ ~airdropInitialized
    /\ fee <= PreciseUnit
    /\ ~hasDuplicate(list)
    /\ airdrops' = list
    /\ airdropFee' = fee
    /\ isAirdrop' = [c \in Component |-> contains(list, c) \/ isAirdrop[c]]
    /\ airdropInitialized' = TRUE
    /\ UNCHANGED fundVars

AddAirdrop(c) ==
    /\ airdropInitialized
    /\ ~isAirdrop[c]
    /\ airdrops' = Append(airdrops, c)
    /\ isAirdrop' = [isAirdrop EXCEPT ![c] = TRUE]
    /\ UNCHANGED <<airdropInitialized, airdropFee, fundVars>>

RemoveAirdrop(c) ==
    /\ airdropInitialized
    /\ isAirdrop[c]
    /\ contains(airdrops, c)
    /\ airdrops' = removeStorage(airdrops, c)
    /\ isAirdrop' = [isAirdrop EXCEPT ![c] = FALSE]
    /\ UNCHANGED <<airdropInitialized, airdropFee, fundVars>>

\* Mutant: nothing is absorbed before the fee changes.
TokensToAbsorb_None == {}

TokensToAbsorb == {c \in Component : contains(airdrops, c)}

UpdateAirdropFee(newFee) ==
    /\ airdropInitialized
    /\ newFee <= PreciseUnit
    /\ AbsorbAll(TokensToAbsorb)
    /\ airdropFee' = newFee
    /\ UNCHANGED <<airdropInitialized, airdrops, isAirdrop>>

\* Mutant: the mapping keeps the tokens of the deleted settings.
ClearedAirdrops_None == isAirdrop

ClearedAirdrops == [c \in Component |-> isAirdrop[c] /\ ~contains(airdrops, c)]

RemoveAirdropModule ==
    /\ airdropInitialized
    /\ isAirdrop' = ClearedAirdrops
    /\ airdrops' = <<>>
    /\ airdropFee' = 0
    /\ airdropInitialized' = FALSE
    /\ UNCHANGED fundVars

-----------------------------------------------------------------------------
\* The array, which updateAirdropFee walks, and the mapping, which absorb asks,
\* hold the same tokens through adding, removing and re-initializing the module,
\* so that no removeAirdrop reverts and no token is left out when the fee changes.
AirdropListExact ==
    /\ ~hasDuplicate(airdrops)
    /\ \A c \in Component : contains(airdrops, c) <=> isAirdrop[c]

\* updateAirdropFee first absorbs at the old fee all that was sent: what is left
\* untracked is the rounding of the unit, less than one per CKToken plus one.
FeeChangeAbsorbsFirst ==
    [][ /\ airdropInitialized /\ airdropInitialized' /\ airdropFee' # airdropFee
        /\ positionMultiplier = PreciseUnit
        => \A c \in Component : contains(airdrops, c) =>
             (amountAirdropped(c)' - 1) * PreciseUnit <= totalSupply ]_<<airdropVars, fundVars>>

\* Absorbing never lowers a unit, however the tracked balance is rounded, as long
\* as the fee leaves something of the airdrop.
AbsorbNeverLowersUnit ==
    [][ (\E tokens \in SUBSET Component : BatchAbsorb(tokens)) /\ airdropFee < PreciseUnit
        /\ positionMultiplier = PreciseUnit
        => \A c \in Component : virtualUnit'[c] >= virtualUnit[c] ]_<<airdropVars, fundVars>>
=============================================================================
