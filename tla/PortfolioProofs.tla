--------------------------- MODULE PortfolioProofs ---------------------------
(***************************************************************************)
(* Portfolio proved for every set of components, units, fees and every      *)
(* precise unit.  Without a streaming fee the token stays collateralized:   *)
(* deposits round up, payouts and units down.  With all modules next to     *)
(* each other only issues leave it short; and of issuance at net asset      *)
(* value: what it does to units and multiplier, what a round trip can gain, *)
(* how far the contracts round from what the tests compute.                 *)
(***************************************************************************)
EXTENDS NAVPortfolio, LibraryProofs

\* The inductive invariant of PlainSpec.
PlainInv ==
    /\ FundTypeOK
    /\ airdropFee \in 0 .. PreciseUnit
    /\ Collateralized

-----------------------------------------------------------------------------
(* Rounding *)

LEMMA FloorMonotone ==
    ASSUME NEW a \in Int, NEW b \in Int, a <= b, NEW d \in Nat \ {0}
    PROVE  a \div d <= b \div d
BY FloorBounds, FloorIsGreatest

LEMMA FloorOfSum ==
    ASSUME NEW a \in Nat, NEW b \in Nat, b > 0, NEW d \in Nat \ {0}
    PROVE  (a + b) \div d <= a \div d + ((b - 1) \div d + 1)
<1> DEFINE x == a \div d
           y == (b - 1) \div d
           z == (a + b) \div d
<1>1. /\ x \in Int /\ a < d * x + d
      /\ y \in Int /\ b - 1 < d * y + d
      /\ z \in Int /\ d * z <= a + b
  BY FloorBounds
<1> HIDE DEF x, y, z
<1>2. a <= d * x + d - 1 /\ b <= d * y + d
  BY <1>1
<1>3. d * z <= d * x + d - 1 + d * y + d
  BY <1>1, <1>2
<1>4. d * z < d * (x + y + 2)
  BY <1>1, <1>3
<1>5. z < x + y + 2
  BY <1>1, <1>4
<1> QED  BY <1>1, <1>5 DEF x, y, z

LEMMA FloorOfDifference ==
    ASSUME NEW a \in Nat, NEW b \in Nat, NEW d \in Nat \ {0}
    PROVE  (a - b) \div d <= a \div d - b \div d
<1> DEFINE x == a \div d
           y == b \div d
           z == (a - b) \div d
<1>1. /\ x \in Int /\ a < d * x + d
      /\ y \in Int /\ d * y <= b
      /\ z \in Int /\ d * z <= a - b
  BY FloorBounds
<1> HIDE DEF x, y, z
<1>2. d * z < d * (x - y + 1)
  BY <1>1
<1>3. z < x - y + 1
  BY <1>1, <1>2
<1> QED  BY <1>1, <1>3 DEF x, y, z

LEMMA FloorNat ==
    ASSUME NEW a \in Nat, NEW b \in Nat \ {0}
    PROVE  a \div b \in Nat
BY FloorBounds, FloorSign

\* The ceiling as a pair of bounds.
LEMMA CeilBounds ==
    ASSUME NEW a \in Nat, NEW b \in Nat
    PROVE  /\ preciseMulCeil(a, b) \in Nat
           /\ a * b <= PreciseUnit * preciseMulCeil(a, b)
           /\ PreciseUnit * preciseMulCeil(a, b) < a * b + PreciseUnit
<1> DEFINE n == a * b
<1>1. n \in Nat /\ PreciseUnit \in Nat \ {0}
  BY PreciseUnitAssumption
<1>2. CASE a = 0 \/ b = 0
  BY <1>1, <1>2 DEF preciseMulCeil
<1>3. CASE a # 0 /\ b # 0
  <2>1. n > 0 /\ preciseMulCeil(a, b) = (n - 1) \div PreciseUnit + 1
    BY <1>3 DEF preciseMulCeil
  <2> HIDE DEF n
  <2> DEFINE x == (n - 1) \div PreciseUnit
  <2>2. n - 1 \in Nat
    BY <1>1, <2>1
  <2>3. x \in Nat /\ PreciseUnit * x <= n - 1 /\ n - 1 < PreciseUnit * x + PreciseUnit
    BY <1>1, <2>2, FloorNat, FloorBounds
  <2> HIDE DEF x
  <2>4. x + 1 \in Nat /\ n <= PreciseUnit * (x + 1) /\ PreciseUnit * (x + 1) < n + PreciseUnit
    BY <1>1, <2>1, <2>3
  <2> QED  BY <2>1, <2>4 DEF n, x
<1> QED  BY <1>2, <1>3

\* A unit of what the supply can be paid out of is no more than it.
LEMMA UnitOfNotional ==
    ASSUME NEW supply \in Nat \ {0}, NEW notional \in Nat, NEW unit \in Nat,
           unit <= (notional * PreciseUnit) \div supply
    PROVE  /\ (supply * unit) \div PreciseUnit \in Nat
           /\ (supply * unit) \div PreciseUnit <= notional
<1> DEFINE x == (notional * PreciseUnit) \div supply
           y == (supply * unit) \div PreciseUnit
<1>1. notional * PreciseUnit \in Nat
  BY PreciseUnitAssumption
<1>2. x \in Int /\ supply * x <= notional * PreciseUnit
  BY <1>1, FloorBounds
<1>3. supply * unit \in Nat /\ supply * unit <= notional * PreciseUnit
  BY <1>1, <1>2
<1>4. y \in Nat /\ PreciseUnit * y <= supply * unit
  BY <1>3, FloorBounds, FloorSign, PreciseUnitAssumption
<1> HIDE DEF x, y
<1>5. PreciseUnit * y <= PreciseUnit * notional
  BY <1>1, <1>3, <1>4, PreciseUnitAssumption
<1>6. y <= notional
  BY <1>4, <1>5, PreciseUnitAssumption
<1> QED  BY <1>4, <1>6 DEF y

\* A unit computed and stored from what the supply can be paid out of promises no
\* more than it, even before the promise is rounded.
LEMMA OwedOfNotional ==
    ASSUME NEW supply \in Nat \ {0}, NEW m \in Nat \ {0}, NEW notional \in Nat
    PROVE  LET v == conservativePreciseDiv((notional * PreciseUnit) \div supply, m)
           IN  v \in Nat /\ v * m * supply <= notional * PreciseUnit * PreciseUnit
<1> DEFINE n == notional * PreciseUnit
           real == n \div supply
           v == conservativePreciseDiv(real, m)
<1>1. n \in Nat /\ PreciseUnit \in Nat \ {0}
  BY PreciseUnitAssumption
<1> HIDE DEF n
<1>2. real \in Nat /\ supply * real <= n
  BY <1>1, FloorBounds, FloorSign
<1> HIDE DEF real
<1>3. real * PreciseUnit \in Nat /\ v = (real * PreciseUnit) \div m
  BY <1>1, <1>2, ConservativeDiv
<1>4. v \in Nat /\ m * v <= real * PreciseUnit
  BY <1>3, FloorBounds, FloorSign
<1> HIDE DEF v
<1>5. v * m * supply <= real * PreciseUnit * supply
  <2>1. v * m \in Nat /\ v * m <= real * PreciseUnit
    BY <1>3, <1>4
  <2> DEFINE a == v * m
             b == real * PreciseUnit
  <2>2. a \in Nat /\ b \in Nat /\ a <= b
    BY <1>3, <2>1
  <2> HIDE DEF a, b
  <2>3. a * supply <= b * supply
    BY <2>2
  <2> QED  BY <2>3 DEF a, b
<1>6. real * PreciseUnit * supply <= n * PreciseUnit
  <2> DEFINE a == supply * real
  <2>1. a \in Nat /\ a <= n /\ real * PreciseUnit * supply = a * PreciseUnit
    BY <1>1, <1>2
  <2> HIDE DEF a
  <2>2. a * PreciseUnit <= n * PreciseUnit
    BY <1>1, <2>1
  <2> QED  BY <2>1, <2>2
<1>7. v * m * supply \in Int /\ real * PreciseUnit * supply \in Int /\ n * PreciseUnit \in Int
  BY <1>1, <1>2, <1>4
<1>8. v * m * supply <= n * PreciseUnit
  BY <1>5, <1>6, <1>7
<1> QED  BY <1>4, <1>8 DEF v, real, n

-----------------------------------------------------------------------------
(* Units and balances *)

\* What is tracked of a component with any stored unit.
LEMMA Tracked ==
    ASSUME FundTypeOK, NEW units, NEW c \in Component, units[c] \in Nat
    PROVE  /\ getDefaultPositionRealUnit(units, c) \in Nat
           /\ getDefaultTrackedBalance(units, c) \in Nat
           /\ getDefaultTrackedBalance(units, c)
                = (totalSupply * getDefaultPositionRealUnit(units, c)) \div PreciseUnit
<1> DEFINE r == getDefaultPositionRealUnit(units, c)
<1>1. totalSupply \in Nat /\ positionMultiplier \in Nat \ {0}
      /\ units[c] \in Int /\ positionMultiplier \in Int
  BY DEF FundTypeOK
<1>2. units[c] * positionMultiplier \in Nat
  BY <1>1
<1>3. r = (units[c] * positionMultiplier) \div PreciseUnit
  BY <1>1, ConservativeMul DEF getDefaultPositionRealUnit
<1>4. r \in Nat
  BY <1>2, <1>3, FloorBounds, FloorSign, PreciseUnitAssumption
<1> HIDE DEF r
<1>5. totalSupply * r \in Nat
  BY <1>1, <1>4
<1>6. (totalSupply * r) \div PreciseUnit \in Nat
  BY <1>5, FloorBounds, FloorSign, PreciseUnitAssumption
<1> QED  BY <1>4, <1>6 DEF r, getDefaultTrackedBalance, preciseMul

\* A component whose unit is set from a part of its balance is collateralized.
LEMMA EditedFromNotional ==
    ASSUME FundTypeOK, totalSupply > 0, NEW c \in Component, NEW notional \in Nat,
           NEW units \in [Component -> Nat], NEW edited,
           edited = editDefaultPosition(units, c, getDefaultPositionUnit(totalSupply, notional))
    PROVE  /\ edited \in [Component -> Nat]
           /\ getDefaultTrackedBalance(edited, c) <= notional
           /\ edited[c] * positionMultiplier * totalSupply <= notional * PreciseUnit * PreciseUnit
           /\ \A d \in Component \ {c} : edited[d] = units[d]
<1> DEFINE real == (notional * PreciseUnit) \div totalSupply
           v == conservativePreciseDiv(real, positionMultiplier)
<1>1. totalSupply \in Nat \ {0} /\ positionMultiplier \in Nat \ {0}
  BY DEF FundTypeOK
<1>2. notional * PreciseUnit \in Nat
  BY PreciseUnitAssumption
<1>3. real \in Nat
  BY <1>1, <1>2, FloorBounds, FloorSign
<1>4. edited = [units EXCEPT ![c] = v]
  BY DEF editDefaultPosition, getDefaultPositionUnit, preciseDiv
<1>9. v * positionMultiplier * totalSupply <= notional * PreciseUnit * PreciseUnit
  BY <1>1, OwedOfNotional
<1> HIDE DEF real
<1>5. v \in Nat /\ conservativePreciseMul(v, positionMultiplier) \in Nat
      /\ conservativePreciseMul(v, positionMultiplier) <= real
  BY <1>1, <1>3, StoredAndReadBack
<1> HIDE DEF v
<1>6. edited \in [Component -> Nat] /\ edited[c] = v
      /\ \A d \in Component \ {c} : edited[d] = units[d]
  BY <1>4, <1>5
<1>7. getDefaultTrackedBalance(edited, c)
        = (totalSupply * conservativePreciseMul(v, positionMultiplier)) \div PreciseUnit
  BY <1>6, Tracked DEF getDefaultPositionRealUnit
<1>8. getDefaultTrackedBalance(edited, c) <= notional
  BY <1>1, <1>5, <1>7, UnitOfNotional DEF real
<1> QED  BY <1>6, <1>8, <1>9

\* Units with equal entries are tracked alike.
LEMMA SameUnitSameTracked ==
    ASSUME NEW units, NEW others, NEW c, units[c] = others[c]
    PROVE  getDefaultTrackedBalance(units, c) = getDefaultTrackedBalance(others, c)
BY DEF getDefaultTrackedBalance, getDefaultPositionRealUnit

-----------------------------------------------------------------------------
(* BasicIssuanceModule *)

LEMMA IssueStep ==
    ASSUME FundTypeOK, Collateralized, NEW quantity \in Nat, Issue(quantity)
    PROVE  FundTypeOK' /\ Collateralized'
<1> DEFINE r(c) == getDefaultPositionRealUnit(virtualUnit, c)
<1>1. /\ totalSupply \in Nat /\ balance \in [Component -> Nat]
      /\ virtualUnit \in [Component -> Nat] /\ positionMultiplier \in Nat \ {0}
      /\ quantity > 0
  BY DEF FundTypeOK, Issue
<1>2. /\ totalSupply' = totalSupply + quantity
      /\ balance' = [c \in Component |-> balance[c] + preciseMulCeil(r(c), quantity)]
      /\ UNCHANGED <<virtualUnit, positionMultiplier>>
  BY DEF Issue, getRequiredComponentUnitsForIssue
<1>3. ASSUME NEW c \in Component
      PROVE  /\ preciseMulCeil(r(c), quantity) \in Nat
             /\ getDefaultTrackedBalance(virtualUnit, c)' <= balance[c] + preciseMulCeil(r(c), quantity)
  <2>1. /\ r(c) \in Nat
        /\ getDefaultTrackedBalance(virtualUnit, c) = (totalSupply * r(c)) \div PreciseUnit
        /\ getDefaultTrackedBalance(virtualUnit, c) <= balance[c]
    BY <1>1, Tracked DEF Collateralized
  <2>2. getDefaultTrackedBalance(virtualUnit, c)' = ((totalSupply + quantity) * r(c)) \div PreciseUnit
    BY <1>2 DEF getDefaultTrackedBalance, getDefaultPositionRealUnit, preciseMul
  <2> HIDE DEF r
  <2>3. CASE r(c) = 0
    BY <1>1, <2>1, <2>2, <2>3 DEF preciseMulCeil
  <2>4. CASE r(c) # 0
    <3> DEFINE a == totalSupply * r(c)
               b == r(c) * quantity
    <3>1. a \in Nat /\ b \in Nat /\ b > 0 /\ (totalSupply + quantity) * r(c) = a + b
      BY <1>1, <2>1, <2>4
    <3>2. preciseMulCeil(r(c), quantity) = (b - 1) \div PreciseUnit + 1
      BY <1>1, <2>1, <2>4 DEF preciseMulCeil
    <3> HIDE DEF a, b
    <3>3. (a + b) \div PreciseUnit <= a \div PreciseUnit + ((b - 1) \div PreciseUnit + 1)
      BY <3>1, FloorOfSum, PreciseUnitAssumption
    <3>4. /\ b - 1 \in Int /\ b - 1 >= 0
          /\ (b - 1) \div PreciseUnit \in Int /\ (b - 1) \div PreciseUnit >= 0
      BY <3>1, FloorBounds, FloorSign, PreciseUnitAssumption
    <3>5. a \div PreciseUnit \in Int /\ (a + b) \div PreciseUnit \in Int
      BY <3>1, FloorBounds, PreciseUnitAssumption
    <3>6. /\ a \div PreciseUnit <= balance[c]
          /\ getDefaultTrackedBalance(virtualUnit, c)' = (a + b) \div PreciseUnit
      BY <2>1, <2>2, <3>1 DEF a
    <3> QED  BY <1>1, <3>2, <3>3, <3>4, <3>5, <3>6
  <2> QED  BY <2>3, <2>4
<1> HIDE DEF r
<1>4. FundTypeOK'
  BY <1>1, <1>2, <1>3 DEF FundTypeOK
<1>5. Collateralized'
  BY <1>2, <1>3 DEF Collateralized
<1> QED  BY <1>4, <1>5

LEMMA RedeemStep ==
    ASSUME FundTypeOK, Collateralized, NEW quantity \in Nat, Redeem(quantity)
    PROVE  FundTypeOK' /\ Collateralized'
<1> DEFINE r(c) == getDefaultPositionRealUnit(virtualUnit, c)
<1>1. /\ totalSupply \in Nat /\ balance \in [Component -> Nat]
      /\ virtualUnit \in [Component -> Nat] /\ positionMultiplier \in Nat \ {0}
      /\ quantity <= totalSupply
  BY DEF FundTypeOK, Redeem, IsBurnable
<1>2. /\ totalSupply' = totalSupply - quantity
      /\ balance' = [c \in Component |-> balance[c] - (quantity * r(c)) \div PreciseUnit]
      /\ \A c \in Component : (quantity * r(c)) \div PreciseUnit <= balance[c]
      /\ UNCHANGED <<virtualUnit, positionMultiplier>>
  BY DEF Redeem, RedeemedUnits, preciseMul
<1>3. ASSUME NEW c \in Component
      PROVE  /\ balance[c] - (quantity * r(c)) \div PreciseUnit \in Nat
             /\ getDefaultTrackedBalance(virtualUnit, c)'
                  <= balance[c] - (quantity * r(c)) \div PreciseUnit
  <2>1. /\ r(c) \in Nat
        /\ getDefaultTrackedBalance(virtualUnit, c) = (totalSupply * r(c)) \div PreciseUnit
        /\ getDefaultTrackedBalance(virtualUnit, c) <= balance[c]
    BY <1>1, Tracked DEF Collateralized
  <2>2. getDefaultTrackedBalance(virtualUnit, c)' = ((totalSupply - quantity) * r(c)) \div PreciseUnit
    BY <1>2 DEF getDefaultTrackedBalance, getDefaultPositionRealUnit, preciseMul
  <2> HIDE DEF r
  <2> DEFINE a == totalSupply * r(c)
             b == quantity * r(c)
  <2>3. a \in Nat /\ b \in Nat /\ (totalSupply - quantity) * r(c) = a - b
    BY <1>1, <2>1
  <2>4. /\ a \div PreciseUnit <= balance[c] /\ b \div PreciseUnit <= balance[c]
        /\ getDefaultTrackedBalance(virtualUnit, c)' = (a - b) \div PreciseUnit
    BY <1>2, <2>1, <2>2, <2>3
  <2> HIDE DEF a, b
  <2>5. (a - b) \div PreciseUnit <= a \div PreciseUnit - b \div PreciseUnit
    BY <2>3, FloorOfDifference, PreciseUnitAssumption
  <2>6. /\ a \div PreciseUnit \in Int /\ b \div PreciseUnit \in Int
        /\ (a - b) \div PreciseUnit \in Int
    BY <2>3, FloorBounds, PreciseUnitAssumption
  <2> QED  BY <1>1, <2>4, <2>5, <2>6 DEF b
<1> HIDE DEF r
<1>4. FundTypeOK'
  BY <1>1, <1>2, <1>3 DEF FundTypeOK
<1>5. Collateralized'
  BY <1>2, <1>3 DEF Collateralized
<1> QED  BY <1>4, <1>5

-----------------------------------------------------------------------------
(* TradeModule and WrapModule *)

\* One position set from balances: the component is covered, the others as before.
LEMMA UpdatedUnit ==
    ASSUME FundTypeOK, NEW units \in [Component -> Nat], NEW c \in Component,
           NEW post \in [Component -> Nat], IsUpdatable(units, c, post)
    PROVE  /\ Updated(units, c, post) \in [Component -> Nat]
           /\ getDefaultTrackedBalance(Updated(units, c, post), c) <= post[c]
           /\ Updated(units, c, post)[c] * positionMultiplier * totalSupply
                <= post[c] * PreciseUnit * PreciseUnit
           /\ \A d \in Component \ {c} : Updated(units, c, post)[d] = units[d]
<1> DEFINE edited == Updated(units, c, post)
           tracked == getDefaultTrackedBalance(units, c)
<1>1. totalSupply \in Nat /\ balance[c] \in Nat /\ post[c] \in Nat /\ units[c] \in Nat
  BY DEF FundTypeOK
<1>2. CASE post[c] = 0
  <2>1. edited = [units EXCEPT ![c] = conservativePreciseDiv(0, positionMultiplier)]
    BY <1>2 DEF Updated, NewUnit, editDefaultPosition
  <2>2. positionMultiplier \in Nat \ {0} /\ 0 \in Nat
    BY DEF FundTypeOK
  <2>3. /\ conservativePreciseDiv(0, positionMultiplier) \in Nat
        /\ conservativePreciseMul(conservativePreciseDiv(0, positionMultiplier),
                                  positionMultiplier) \in Nat
        /\ conservativePreciseMul(conservativePreciseDiv(0, positionMultiplier),
                                  positionMultiplier) <= 0
    BY <2>2, StoredAndReadBack
  <2>4. /\ edited \in [Component -> Nat]
        /\ \A d \in Component \ {c} : edited[d] = units[d]
        /\ edited[c] = conservativePreciseDiv(0, positionMultiplier)
    BY <2>1, <2>3
  <2>5. getDefaultPositionRealUnit(edited, c) = 0
    BY <2>3, <2>4 DEF getDefaultPositionRealUnit
  <2>6. getDefaultTrackedBalance(edited, c) = 0
    BY <1>1, <2>5, PreciseUnitAssumption DEF getDefaultTrackedBalance, preciseMul
  <2>7. conservativePreciseDiv(0, positionMultiplier) = 0
    <3>1. conservativePreciseDiv(0, positionMultiplier) = (0 * PreciseUnit) \div positionMultiplier
      BY <2>2, ConservativeDiv
    <3> QED  BY <2>2, <3>1, PreciseUnitAssumption
  <2>8. edited[c] * positionMultiplier * totalSupply <= post[c] * PreciseUnit * PreciseUnit
    <3>1. 0 * positionMultiplier * totalSupply = 0 /\ 0 * PreciseUnit * PreciseUnit = 0
      BY <1>1, <2>2, PreciseUnitAssumption
    <3> QED  BY <1>2, <2>4, <2>7, <3>1
  <2> QED  BY <1>1, <2>4, <2>6, <2>8
<1>3. CASE post[c] # 0
  <2>1. /\ totalSupply > 0 /\ tracked <= balance[c] /\ balance[c] - tracked <= post[c]
        /\ edited = editDefaultPosition(units, c,
                      getDefaultPositionUnit(totalSupply, post[c] - (balance[c] - tracked)))
    BY <1>3 DEF IsUpdatable, IsCalculable, Updated, NewUnit, calculateDefaultEditPositionUnit
  <2>2. tracked \in Nat
    BY <1>1, Tracked
  <2> HIDE DEF tracked, edited
  <2>3. post[c] - (balance[c] - tracked) \in Nat /\ post[c] - (balance[c] - tracked) <= post[c]
    BY <1>1, <2>1, <2>2
  <2> DEFINE notional == post[c] - (balance[c] - tracked)
  <2> HIDE DEF notional
  <2>4. notional \in Nat /\ notional <= post[c]
    BY <2>3 DEF notional
  <2>5. edited = editDefaultPosition(units, c, getDefaultPositionUnit(totalSupply, notional))
    BY <2>1 DEF notional
  <2>6. /\ edited \in [Component -> Nat]
        /\ getDefaultTrackedBalance(edited, c) <= notional
        /\ edited[c] * positionMultiplier * totalSupply <= notional * PreciseUnit * PreciseUnit
        /\ \A d \in Component \ {c} : edited[d] = units[d]
    BY <2>1, <2>4, <2>5, EditedFromNotional
  <2>7. getDefaultTrackedBalance(edited, c) \in Nat
    BY <2>6, Tracked
  <2>8. edited[c] * positionMultiplier * totalSupply <= post[c] * PreciseUnit * PreciseUnit
    <3>1. edited[c] \in Nat /\ positionMultiplier \in Nat /\ PreciseUnit \in Nat
      BY <2>6, PreciseUnitAssumption DEF FundTypeOK
    <3>2. notional * PreciseUnit * PreciseUnit <= post[c] * PreciseUnit * PreciseUnit
      <4> DEFINE p == PreciseUnit * PreciseUnit
      <4>1. p \in Nat
        BY <3>1
      <4> HIDE DEF p
      <4>2. notional * p <= post[c] * p
        BY <1>1, <2>4, <4>1
      <4> QED  BY <1>1, <2>4, <3>1, <4>2 DEF p
    <3>3. /\ edited[c] * positionMultiplier * totalSupply \in Int
          /\ notional * PreciseUnit * PreciseUnit \in Int /\ post[c] * PreciseUnit * PreciseUnit \in Int
      BY <1>1, <2>4, <3>1
    <3> QED  BY <2>6, <3>2, <3>3
  <2> QED  BY <1>1, <2>4, <2>6, <2>7, <2>8 DEF edited
<1> QED  BY <1>2, <1>3

LEMMA UpdatePositionsStep ==
    ASSUME FundTypeOK, Collateralized, NEW first \in Component, NEW second \in Component,
           NEW post \in [Component -> Nat], UpdatePositions(first, second, post),
           \A d \in Component \ {first, second} : post[d] >= balance[d]
    PROVE  FundTypeOK' /\ Collateralized'
<1> DEFINE once == Updated(virtualUnit, first, post)
           twice == Updated(once, second, post)
<1>1. /\ IsUpdatable(virtualUnit, first, post) /\ IsUpdatable(once, second, post)
      /\ virtualUnit' = twice /\ balance' = post
      /\ UNCHANGED <<totalSupply, positionMultiplier>>
  BY DEF UpdatePositions
<1>2. virtualUnit \in [Component -> Nat] /\ balance \in [Component -> Nat]
  BY DEF FundTypeOK
<1>3. /\ once \in [Component -> Nat]
      /\ getDefaultTrackedBalance(once, first) <= post[first]
      /\ \A d \in Component \ {first} : once[d] = virtualUnit[d]
  BY <1>1, <1>2, UpdatedUnit
<1> HIDE DEF once
<1>4. /\ twice \in [Component -> Nat]
      /\ getDefaultTrackedBalance(twice, second) <= post[second]
      /\ \A d \in Component \ {second} : twice[d] = once[d]
  BY <1>1, <1>3, UpdatedUnit
<1> HIDE DEF twice
<1>5. ASSUME NEW c \in Component
      PROVE  getDefaultTrackedBalance(twice, c) <= post[c]
  <2>1. CASE c = second
    BY <1>4, <2>1
  <2>2. CASE c # second /\ c = first
    <3>1. twice[c] = once[c]
      BY <1>4, <2>2
    <3>2. getDefaultTrackedBalance(twice, c) = getDefaultTrackedBalance(once, c)
      BY <3>1, SameUnitSameTracked
    <3> QED  BY <1>3, <2>2, <3>2
  <2>3. CASE c # second /\ c # first
    <3>1. twice[c] = virtualUnit[c]
      BY <1>3, <1>4, <2>3
    <3>2. getDefaultTrackedBalance(twice, c) = getDefaultTrackedBalance(virtualUnit, c)
      BY <3>1, SameUnitSameTracked
    <3>3. getDefaultTrackedBalance(virtualUnit, c) <= balance[c] /\ balance[c] <= post[c]
      BY <2>3 DEF Collateralized
    <3>4. /\ getDefaultTrackedBalance(virtualUnit, c) \in Nat
          /\ balance[c] \in Nat /\ post[c] \in Nat
      BY <1>2, Tracked
    <3> QED  BY <3>2, <3>3, <3>4
  <2> QED  BY <2>1, <2>2, <2>3
<1>6. FundTypeOK'
  BY <1>1, <1>4 DEF FundTypeOK
<1>7. \A c \in Component :
        getDefaultTrackedBalance(virtualUnit, c)' = getDefaultTrackedBalance(twice, c)
  BY <1>1 DEF getDefaultTrackedBalance, getDefaultPositionRealUnit
<1>8. Collateralized'
  BY <1>1, <1>5, <1>7 DEF Collateralized
<1> QED  BY <1>6, <1>8

\* What the other side takes and gives, and the protocol fee, leave balances.
LEMMA SwappedBalances ==
    ASSUME FundTypeOK, NEW send \in Component, NEW receive \in Component,
           NEW taken \in Nat, NEW given \in Nat, taken <= balance[send]
    PROVE  /\ Swapped(send, taken, receive, given) \in [Component -> Nat]
           /\ \A d \in Component \ {send, receive} :
                Swapped(send, taken, receive, given)[d] = balance[d]
BY DEF FundTypeOK, Swapped

\* Two positions are set from the balances left, and no other balance falls.
Moves(first, second) ==
    \E post \in [Component -> Nat] :
        /\ UpdatePositions(first, second, post)
        /\ \A d \in Component \ {first, second} : post[d] >= balance[d]

\* A trade sets two positions from the balances it leaves, and takes nothing of others.
LEMMA TradeMoves ==
    ASSUME FundTypeOK, NEW send \in Component, NEW receive \in Component,
           NEW sendUnits, NEW minUnits, NEW taken \in Nat, NEW given \in Nat,
           Trade(send, sendUnits, receive, minUnits, taken, given)
    PROVE  Moves(send, receive)
<1> DEFINE swapped   == Swapped(send, taken, receive, given)
           exchanged == swapped[receive] - balance[receive]
           fee       == preciseMul(exchanged, TradeProtocolFee)
           post      == [swapped EXCEPT ![receive] = @ - fee]
<1>1. /\ taken <= balance[send] /\ exchanged >= 0
      /\ post[receive] >= balance[receive]
      /\ UpdatePositions(send, receive, post)
  BY DEF Trade
<1>2. balance \in [Component -> Nat]
  BY DEF FundTypeOK
<1>3. /\ swapped \in [Component -> Nat]
      /\ \A d \in Component \ {send, receive} : swapped[d] = balance[d]
  BY <1>1, SwappedBalances
<1>4. fee \in Int
  <2>1. exchanged \in Int /\ TradeProtocolFee \in Int
    BY <1>2, <1>3, TradeProtocolFeeAssumption, PreciseUnitAssumption
  <2> HIDE DEF exchanged
  <2> QED  BY <2>1, FloorBounds, PreciseUnitAssumption DEF preciseMul
<1> HIDE DEF swapped, fee
<1>5. post[receive] = swapped[receive] - fee
  BY <1>3
<1>6. swapped[receive] - fee \in Nat
  BY <1>1, <1>2, <1>3, <1>4, <1>5
<1>7. /\ post \in [Component -> Nat]
      /\ \A d \in Component \ {send, receive} : post[d] >= balance[d]
  BY <1>2, <1>3, <1>6
<1> HIDE DEF post
<1> QED  BY <1>1, <1>7 DEF Moves

LEMMA ConvertMoves ==
    ASSUME FundTypeOK, NEW from \in Component, NEW to \in Component,
           NEW first \in Component, NEW second \in Component,
           (first = from /\ second = to) \/ (first = to /\ second = from), NEW units, NEW taken \in Nat, NEW given \in Nat,
           Converts(from, units, to, taken, given),
           WrapUpdates(first, second, Swapped(from, taken, to, given))
    PROVE  Moves(first, second)
<1> DEFINE post == Swapped(from, taken, to, given)
<1>1. taken <= balance[from] /\ balance \in [Component -> Nat]
  BY DEF Converts, FundTypeOK
<1>2. /\ post \in [Component -> Nat]
      /\ \A d \in Component \ {from, to} : post[d] = balance[d]
  BY <1>1 DEF Swapped
<1>3. UpdatePositions(first, second, post)
  BY DEF WrapUpdates
<1> HIDE DEF post
<1>4. \A d \in Component \ {first, second} : post[d] >= balance[d]
  BY <1>1, <1>2
<1> QED  BY <1>2, <1>3, <1>4 DEF Moves

LEMMA TradeNextMoves ==
    ASSUME FundTypeOK, TradeNext
    PROVE  \E first, second \in Component : Moves(first, second)
<1>1. 0 .. MaxBalance \subseteq Nat /\ 0 .. MaxGiven \subseteq Nat
  BY PortfolioAssumption
<1>2. PICK from \in Component, to \in Component, units \in TradeUnits,
           taken \in 0 .. MaxBalance, given \in 0 .. MaxGiven :
         \/ \E minUnits \in TradeUnits : Trade(from, units, to, minUnits, taken, given)
         \/ Wrap(from, units, to, taken, given)
         \/ Unwrap(to, units, from, taken, given)
  BY DEF TradeNext
<1>3. ASSUME NEW minUnits \in TradeUnits, Trade(from, units, to, minUnits, taken, given)
      PROVE  Moves(from, to)
  BY <1>1, <1>3, TradeMoves
<1>4. CASE Wrap(from, units, to, taken, given)
  BY <1>1, <1>4, ConvertMoves DEF Wrap
<1>5. CASE Unwrap(to, units, from, taken, given)
  <2>1. Converts(from, units, to, taken, given) /\ WrapUpdates(to, from, Swapped(from, taken, to, given))
    BY <1>5 DEF Unwrap
  <2> QED  BY <1>1, <2>1, ConvertMoves
<1> QED  BY <1>2, <1>3, <1>4, <1>5

LEMMA TradeStep ==
    ASSUME FundTypeOK, Collateralized, TradeNext
    PROVE  FundTypeOK' /\ Collateralized'
BY TradeNextMoves, UpdatePositionsStep DEF Moves

-----------------------------------------------------------------------------
(* Tokens sent to the CKToken, and AirdropModule *)

LEMMA ReceiveStep ==
    ASSUME FundTypeOK, Collateralized, NEW c \in Component, NEW quantity \in Nat,
           Receive(c, quantity)
    PROVE  FundTypeOK' /\ Collateralized'
<1>1. /\ balance \in [Component -> Nat]
      /\ balance' = [balance EXCEPT ![c] = @ + quantity]
      /\ UNCHANGED <<totalSupply, virtualUnit, positionMultiplier>>
  BY DEF FundTypeOK, Receive
<1>2. \A d \in Component : balance'[d] \in Nat /\ balance'[d] >= balance[d]
  BY <1>1
<1>3. ASSUME NEW d \in Component
      PROVE  getDefaultTrackedBalance(virtualUnit, d)' <= balance'[d]
  <2>1. getDefaultTrackedBalance(virtualUnit, d)' = getDefaultTrackedBalance(virtualUnit, d)
    BY <1>1 DEF getDefaultTrackedBalance, getDefaultPositionRealUnit
  <2>2. getDefaultTrackedBalance(virtualUnit, d) \in Nat
    BY Tracked DEF FundTypeOK
  <2> QED  BY <1>1, <1>2, <2>1, <2>2 DEF Collateralized
<1> QED  BY <1>1, <1>2, <1>3 DEF FundTypeOK, Collateralized

\* A unit set from the balance an airdrop leaves after its fee.
LEMMA AbsorbedUnit ==
    ASSUME FundTypeOK, airdropFee \in 0 .. PreciseUnit, NEW c \in Component,
           amountAirdropped(c) > 0, totalSupply > 0
    PROVE  LET left  == balance[c] - totalFees(c)
               units == editDefaultPosition(virtualUnit, c, getPostAirdropUnit(c))
           IN  /\ left \in Nat /\ units[c] \in Nat
               /\ getDefaultTrackedBalance(units, c) <= left
               /\ units[c] * positionMultiplier * totalSupply <= left * PreciseUnit * PreciseUnit
<1> DEFINE edited == editDefaultPosition(virtualUnit, c, getPostAirdropUnit(c))
           amount == amountAirdropped(c)
           tracked == getDefaultTrackedBalance(virtualUnit, c)
           fee == totalFees(c)
<1>1. /\ airdropFee \in Nat /\ airdropFee <= PreciseUnit
      /\ balance \in [Component -> Nat] /\ virtualUnit \in [Component -> Nat]
      /\ amount = balance[c] - tracked /\ amount > 0
  BY PreciseUnitAssumption DEF FundTypeOK, amountAirdropped
<1>2. tracked \in Nat /\ balance[c] \in Nat
  BY <1>1, Tracked
<1> HIDE DEF tracked, amount
<1>3. amount \in Nat /\ amount <= balance[c]
  BY <1>1, <1>2
<1>4. fee = (amount * airdropFee) \div PreciseUnit
  BY DEF totalFees, preciseMul, amount
<1> HIDE DEF fee
<1>5. amount * airdropFee \in Nat /\ amount * airdropFee <= PreciseUnit * amount
  <2>1. airdropFee \in Nat /\ airdropFee <= PreciseUnit /\ amount \in Nat
    BY <1>1, <1>3
  <2> QED  BY <2>1, PreciseUnitAssumption
<1>6. fee \in Nat /\ PreciseUnit * fee <= amount * airdropFee
  <2> DEFINE n == amount * airdropFee
  <2> HIDE DEF n
  <2>1. n \in Nat /\ fee = n \div PreciseUnit
    BY <1>4, <1>5 DEF n
  <2>2. fee \in Nat /\ PreciseUnit * fee <= n
    BY <2>1, FloorBounds, FloorSign, PreciseUnitAssumption
  <2> QED  BY <2>2 DEF n
<1>7. PreciseUnit * fee <= PreciseUnit * amount
  BY <1>3, <1>5, <1>6, PreciseUnitAssumption
<1>8. fee <= amount
  BY <1>3, <1>6, <1>7, PreciseUnitAssumption
<1> DEFINE notional == balance[c] - fee
<1>9. notional \in Nat
  BY <1>2, <1>3, <1>6, <1>8
<1>10. edited = editDefaultPosition(virtualUnit, c, getDefaultPositionUnit(totalSupply, notional))
  BY DEF getPostAirdropUnit, fee
<1> HIDE DEF notional, edited
<1>11. /\ edited \in [Component -> Nat]
       /\ getDefaultTrackedBalance(edited, c) <= notional
       /\ edited[c] * positionMultiplier * totalSupply <= notional * PreciseUnit * PreciseUnit
  BY <1>1, <1>9, <1>10, EditedFromNotional
<1> QED  BY <1>9, <1>11 DEF notional, edited, fee

\* What a batch does to each component.
LEMMA AbsorbedComponent ==
    ASSUME FundTypeOK, airdropFee \in 0 .. PreciseUnit, NEW tokens \in SUBSET Component,
           AbsorbAll(tokens)
    PROVE  /\ FundTypeOK' /\ UNCHANGED <<totalSupply, positionMultiplier>>
           /\ \A c \in Component :
                \/ virtualUnit'[c] = virtualUnit[c] /\ balance'[c] = balance[c]
                \/ /\ getDefaultTrackedBalance(virtualUnit', c) <= balance'[c]
                   /\ virtualUnit'[c] * positionMultiplier * totalSupply
                        <= balance'[c] * PreciseUnit * PreciseUnit
<1> DEFINE absorbed == {c \in tokens : amountAirdropped(c) > 0}
           edited(c) == editDefaultPosition(virtualUnit, c, getPostAirdropUnit(c))
<1>1. /\ \A c \in tokens : IsAbsorbable(c)
      /\ balance' = [c \in Component |->
                       IF c \in absorbed THEN balance[c] - totalFees(c) ELSE balance[c]]
      /\ virtualUnit' = [c \in Component |->
                           IF c \in absorbed THEN edited(c)[c] ELSE virtualUnit[c]]
      /\ UNCHANGED <<totalSupply, positionMultiplier>>
  BY DEF AbsorbAll
<1>2. balance \in [Component -> Nat] /\ virtualUnit \in [Component -> Nat]
  BY DEF FundTypeOK
<1>3. ASSUME NEW c \in absorbed
      PROVE  /\ balance[c] - totalFees(c) \in Nat
             /\ edited(c)[c] \in Nat
             /\ getDefaultTrackedBalance(edited(c), c) <= balance[c] - totalFees(c)
             /\ edited(c)[c] * positionMultiplier * totalSupply
                  <= (balance[c] - totalFees(c)) * PreciseUnit * PreciseUnit
  <2>1. c \in Component /\ amountAirdropped(c) > 0 /\ totalSupply > 0
    BY <1>1, <1>3 DEF IsAbsorbable
  <2> QED  BY <2>1, AbsorbedUnit
<1>4. ASSUME NEW c \in Component
      PROVE  /\ balance'[c] \in Nat /\ virtualUnit'[c] \in Nat
             /\ \/ virtualUnit'[c] = virtualUnit[c] /\ balance'[c] = balance[c]
                \/ /\ getDefaultTrackedBalance(virtualUnit', c) <= balance'[c]
                   /\ virtualUnit'[c] * positionMultiplier * totalSupply
                        <= balance'[c] * PreciseUnit * PreciseUnit
  <2>1. CASE c \in absorbed
    <3>1. virtualUnit'[c] = edited(c)[c] /\ balance'[c] = balance[c] - totalFees(c)
      BY <1>1, <2>1
    <3> DEFINE units == edited(c)
    <3>2. /\ virtualUnit'[c] = units[c] /\ units[c] \in Nat /\ balance'[c] \in Nat
          /\ getDefaultTrackedBalance(units, c) <= balance'[c]
          /\ virtualUnit'[c] * positionMultiplier * totalSupply
               <= balance'[c] * PreciseUnit * PreciseUnit
      BY <1>3, <2>1, <3>1
    <3> HIDE DEF units
    <3>3. getDefaultTrackedBalance(virtualUnit', c) = getDefaultTrackedBalance(units, c)
      BY <3>2, SameUnitSameTracked
    <3> QED  BY <3>2, <3>3
  <2>2. CASE c \notin absorbed
    BY <1>1, <1>2, <2>2
  <2> QED  BY <2>1, <2>2
<1>5. /\ balance' = [c \in Component |-> balance'[c]]
      /\ virtualUnit' = [c \in Component |-> virtualUnit'[c]]
  BY <1>1
<1>6. balance' \in [Component -> Nat] /\ virtualUnit' \in [Component -> Nat]
  BY <1>4, <1>5
<1>7. FundTypeOK'
  BY <1>1, <1>6 DEF FundTypeOK
<1> QED  BY <1>1, <1>4, <1>7

LEMMA AbsorbStep ==
    ASSUME PlainInv, NEW tokens \in SUBSET Component, AbsorbAll(tokens)
    PROVE  FundTypeOK' /\ Collateralized'
<1>1. /\ FundTypeOK' /\ UNCHANGED <<totalSupply, positionMultiplier>>
      /\ \A c \in Component :
           \/ virtualUnit'[c] = virtualUnit[c] /\ balance'[c] = balance[c]
           \/ getDefaultTrackedBalance(virtualUnit', c) <= balance'[c]
  BY AbsorbedComponent DEF PlainInv
<1>2. ASSUME NEW c \in Component
      PROVE  getDefaultTrackedBalance(virtualUnit, c)' <= balance'[c]
  <2>1. getDefaultTrackedBalance(virtualUnit, c)' = getDefaultTrackedBalance(virtualUnit', c)
    BY <1>1 DEF getDefaultTrackedBalance, getDefaultPositionRealUnit
  <2>2. CASE virtualUnit'[c] = virtualUnit[c] /\ balance'[c] = balance[c]
    <3>1. getDefaultTrackedBalance(virtualUnit', c) = getDefaultTrackedBalance(virtualUnit, c)
      BY <2>2, SameUnitSameTracked
    <3> QED  BY <2>1, <2>2, <3>1 DEF PlainInv, Collateralized
  <2> QED  BY <1>1, <2>1, <2>2
<1> QED  BY <1>1, <1>2 DEF Collateralized

LEMMA AirdropStep ==
    ASSUME PlainInv, AirdropNext
    PROVE  PlainInv'
<1>1. ASSUME UNCHANGED fundVars
      PROVE  FundTypeOK' /\ Collateralized'
  BY <1>1
  DEF PlainInv, fundVars, FundTypeOK, Collateralized, getDefaultTrackedBalance,
      getDefaultPositionRealUnit
<1>2. ASSUME NEW tokens \in SUBSET Component, BatchAbsorb(tokens)
      PROVE  PlainInv'
  BY <1>2, AbsorbStep DEF BatchAbsorb, airdropVars, PlainInv
<1>3. ASSUME NEW c \in Component, AddAirdrop(c) \/ RemoveAirdrop(c)
      PROVE  PlainInv'
  BY <1>1, <1>3 DEF AddAirdrop, RemoveAirdrop, PlainInv
<1>4. ASSUME NEW fee \in Fees, UpdateAirdropFee(fee)
      PROVE  PlainInv'
  <2>1. fee \in 0 .. PreciseUnit
    BY <1>4, PortfolioAssumption, PreciseUnitAssumption DEF UpdateAirdropFee
  <2>2. TokensToAbsorb \in SUBSET Component
    BY DEF TokensToAbsorb
  <2> QED  BY <1>4, <2>1, <2>2, AbsorbStep DEF UpdateAirdropFee, PlainInv
<1>5. ASSUME NEW fee \in Fees, NEW list, InitializeAirdrop(list, fee)
      PROVE  PlainInv'
  <2>1. fee \in 0 .. PreciseUnit
    BY <1>5, PortfolioAssumption, PreciseUnitAssumption DEF InitializeAirdrop
  <2> QED  BY <1>1, <1>5, <2>1 DEF InitializeAirdrop, PlainInv
<1>6. ASSUME RemoveAirdropModule
      PROVE  PlainInv'
  BY <1>1, <1>6, PreciseUnitAssumption DEF RemoveAirdropModule, PlainInv
<1> QED  BY <1>2, <1>3, <1>4, <1>5, <1>6 DEF AirdropNext

-----------------------------------------------------------------------------
(* The theorem *)

LEMMA PlainInit ==
    ASSUME Init
    PROVE  PlainInv
<1>1. PICK units \in RealUnits : FundInit(units)
  BY DEF Init
<1>2. /\ totalSupply = 0 /\ balance = [c \in Component |-> 0]
      /\ virtualUnit \in [Component -> Nat] /\ positionMultiplier = PreciseUnit
      /\ airdropFee = 0
  BY <1>1, PortfolioAssumption DEF FundInit, Init, AirdropInit
<1>3. FundTypeOK
  BY <1>2, PreciseUnitAssumption DEF FundTypeOK
<1>4. ASSUME NEW c \in Component
      PROVE  getDefaultTrackedBalance(virtualUnit, c) <= balance[c]
  <2>1. getDefaultPositionRealUnit(virtualUnit, c) \in Nat
    BY <1>2, <1>3, Tracked
  <2>2. getDefaultTrackedBalance(virtualUnit, c) = 0
    BY <1>2, <2>1, PreciseUnitAssumption DEF getDefaultTrackedBalance, preciseMul
  <2> QED  BY <1>2, <2>2
<1> QED  BY <1>2, <1>3, <1>4, PreciseUnitAssumption DEF PlainInv, Collateralized

LEMMA PlainStep ==
    ASSUME PlainInv, [PlainNext /\ Bounded]_portfolioVars
    PROVE  PlainInv'
<1>1. FundTypeOK /\ Collateralized
  BY DEF PlainInv
<1>2. CASE IssuanceNext
  <2>1. PICK quantity \in Quantities : Issue(quantity) \/ Redeem(quantity)
    BY <1>2 DEF IssuanceNext
  <2>2. quantity \in Nat /\ UNCHANGED airdropFee
    BY <1>2, PortfolioAssumption DEF IssuanceNext, airdropVars
  <2> QED  BY <1>1, <2>1, <2>2, IssueStep, RedeemStep DEF PlainInv
<1>3. CASE TradeNext
  <2>1. UNCHANGED airdropFee
    BY <1>3 DEF TradeNext, airdropVars
  <2> QED  BY <1>1, <1>3, <2>1, TradeStep DEF PlainInv
<1>4. CASE ReceiveNext
  <2>1. 1 .. MaxGiven \subseteq Nat
    BY PortfolioAssumption
  <2>2. UNCHANGED airdropFee
    BY <1>4 DEF ReceiveNext, airdropVars
  <2> QED  BY <1>1, <1>4, <2>1, <2>2, ReceiveStep DEF ReceiveNext, PlainInv
<1>5. CASE AirdropNext
  BY <1>5, AirdropStep
<1>6. CASE UNCHANGED portfolioVars
  BY <1>6
  DEF portfolioVars, fundVars, airdropVars, PlainInv, FundTypeOK, Collateralized,
      getDefaultTrackedBalance, getDefaultPositionRealUnit
<1> QED  BY <1>2, <1>3, <1>4, <1>5, <1>6 DEF PlainNext

\* As long as no streaming fee accrues, the CKToken can always pay out its whole
\* supply, whatever is issued, redeemed, traded, wrapped, sent to it and absorbed
\* (BasicIssuanceModule, TradeModule, WrapModule, AirdropModule).
THEOREM PlainCollateralized == PlainSpec => []Collateralized
<1>1. Init => PlainInv
  BY PlainInit
<1>2. PlainInv /\ [PlainNext /\ Bounded]_portfolioVars => PlainInv'
  BY PlainStep
<1>3. PlainInv => Collateralized
  BY DEF PlainInv
<1> QED  BY <1>1, <1>2, <1>3, PTL DEF PlainSpec

-----------------------------------------------------------------------------
(* What is airdropped stays airdropped *)

\* The units a trade may sell are worth no more than what is tracked.
LEMMA NotionalIsTracked ==
    ASSUME FundTypeOK, NEW c \in Component, NEW unit \in Nat, hasSufficientDefaultUnits(c, unit)
    PROVE  getDefaultTotalNotional(totalSupply, unit) <= getDefaultTrackedBalance(virtualUnit, c)
<1> DEFINE real == getDefaultPositionRealUnit(virtualUnit, c)
<1>1. totalSupply \in Nat /\ real \in Nat /\ unit <= real
  BY Tracked DEF hasSufficientDefaultUnits, FundTypeOK
<1>2. getDefaultTrackedBalance(virtualUnit, c) = (totalSupply * real) \div PreciseUnit
  BY DEF getDefaultTrackedBalance, preciseMul
<1>3. getDefaultTotalNotional(totalSupply, unit) = (totalSupply * unit) \div PreciseUnit
  BY DEF getDefaultTotalNotional, preciseMul
<1> HIDE DEF real
<1>4. totalSupply * unit \in Int /\ totalSupply * real \in Int
      /\ totalSupply * unit <= totalSupply * real
  BY <1>1
<1> QED  BY <1>2, <1>3, <1>4, FloorMonotone, PreciseUnitAssumption

\* One position set from balances leaves its airdropped amount, or more.
LEMMA UpdatedKeepsAirdrop ==
    ASSUME FundTypeOK, NEW units \in [Component -> Nat], NEW c \in Component,
           NEW post \in [Component -> Nat], IsUpdatable(units, c, post),
           post[c] = 0 => balance[c] <= getDefaultTrackedBalance(units, c)
    PROVE  post[c] - getDefaultTrackedBalance(Updated(units, c, post), c)
             >= balance[c] - getDefaultTrackedBalance(units, c)
<1> DEFINE edited  == Updated(units, c, post)
           tracked == getDefaultTrackedBalance(units, c)
           after    == getDefaultTrackedBalance(edited, c)
<1>1. /\ edited \in [Component -> Nat] /\ after <= post[c]
      /\ balance[c] \in Nat /\ post[c] \in Nat /\ units[c] \in Nat
  BY UpdatedUnit DEF FundTypeOK
<1>2. tracked \in Nat /\ after \in Nat
  BY <1>1, Tracked
<1>3. CASE post[c] = 0
  BY <1>1, <1>2, <1>3
<1>4. CASE post[c] # 0
  <2> DEFINE notional == post[c] - (balance[c] - tracked)
  <2>1. /\ totalSupply > 0 /\ tracked <= balance[c] /\ balance[c] - tracked <= post[c]
        /\ edited = editDefaultPosition(units, c, getDefaultPositionUnit(totalSupply, notional))
    BY <1>4 DEF IsUpdatable, IsCalculable, Updated, NewUnit, calculateDefaultEditPositionUnit
  <2> HIDE DEF edited, tracked
  <2>2. notional \in Nat
    BY <1>1, <1>2, <2>1
  <2> HIDE DEF notional
  <2>3. after <= notional
    BY <2>1, <2>2, EditedFromNotional
  <2> QED  BY <1>1, <1>2, <2>2, <2>3 DEF notional, tracked, edited
<1> QED  BY <1>3, <1>4

LEMMA PositionsKeepAirdrops ==
    ASSUME FundTypeOK, NEW first \in Component, NEW second \in Component, first # second,
           NEW post \in [Component -> Nat], UpdatePositions(first, second, post),
           \A d \in Component \ {first, second} : post[d] = balance[d],
           \A d \in {first, second} :
             post[d] = 0 => balance[d] <= getDefaultTrackedBalance(virtualUnit, d)
    PROVE  \A d \in Component : amountAirdropped(d)' >= amountAirdropped(d)
<1> DEFINE once  == Updated(virtualUnit, first, post)
           twice == Updated(once, second, post)
<1>1. /\ IsUpdatable(virtualUnit, first, post) /\ IsUpdatable(once, second, post)
      /\ virtualUnit' = twice /\ balance' = post
      /\ UNCHANGED <<totalSupply, positionMultiplier>>
  BY DEF UpdatePositions
<1>2. virtualUnit \in [Component -> Nat] /\ balance \in [Component -> Nat]
  BY DEF FundTypeOK
<1>3. /\ once \in [Component -> Nat]
      /\ \A d \in Component \ {first} : once[d] = virtualUnit[d]
      /\ post[first] - getDefaultTrackedBalance(once, first)
           >= balance[first] - getDefaultTrackedBalance(virtualUnit, first)
  BY <1>1, <1>2, UpdatedUnit, UpdatedKeepsAirdrop
<1> HIDE DEF once
<1>4. getDefaultTrackedBalance(once, second) = getDefaultTrackedBalance(virtualUnit, second)
  BY <1>3, SameUnitSameTracked
<1>5. /\ twice \in [Component -> Nat]
      /\ \A d \in Component \ {second} : twice[d] = once[d]
      /\ post[second] - getDefaultTrackedBalance(twice, second)
           >= balance[second] - getDefaultTrackedBalance(once, second)
  <2>1. post[second] = 0 => balance[second] <= getDefaultTrackedBalance(once, second)
    BY <1>4
  <2> QED  BY <1>1, <1>3, <2>1, UpdatedUnit, UpdatedKeepsAirdrop
<1> HIDE DEF twice
<1>6. ASSUME NEW d \in Component
      PROVE  amountAirdropped(d)' >= amountAirdropped(d)
  <2>1. /\ amountAirdropped(d) = balance[d] - getDefaultTrackedBalance(virtualUnit, d)
        /\ amountAirdropped(d)' = post[d] - getDefaultTrackedBalance(twice, d)
    BY <1>1 DEF amountAirdropped, getDefaultTrackedBalance, getDefaultPositionRealUnit
  <2>2. CASE d = second
    BY <1>4, <1>5, <2>1, <2>2
  <2>3. CASE d = first
    <3>1. getDefaultTrackedBalance(twice, d) = getDefaultTrackedBalance(once, d)
      BY <1>5, <2>3, SameUnitSameTracked
    <3> QED  BY <1>3, <2>1, <2>3, <3>1
  <2>4. CASE d \notin {first, second}
    <3>1. twice[d] = virtualUnit[d] /\ post[d] = balance[d]
      BY <1>3, <1>5, <2>4
    <3>2. getDefaultTrackedBalance(twice, d) = getDefaultTrackedBalance(virtualUnit, d)
      BY <3>1, SameUnitSameTracked
    <3>3. getDefaultTrackedBalance(virtualUnit, d) \in Nat /\ balance[d] \in Nat
      BY <1>2, Tracked
    <3> QED  BY <2>1, <3>1, <3>2, <3>3
  <2> QED  BY <2>2, <2>3, <2>4
<1> QED  BY <1>6

LEMMA TradeKeepsAirdrops ==
    ASSUME FundTypeOK, Collateralized, NEW send \in Component, NEW receive \in Component,
           NEW sendUnits \in Nat, NEW minUnits, NEW taken \in Nat, NEW given \in Nat,
           Trade(send, sendUnits, receive, minUnits, taken, given),
           \E c \in Component : balance'[c] > balance[c]
    PROVE  \A c \in Component : amountAirdropped(c)' >= amountAirdropped(c)
<1> DEFINE swapped   == Swapped(send, taken, receive, given)
           exchanged == swapped[receive] - balance[receive]
           fee       == preciseMul(exchanged, TradeProtocolFee)
           post      == [swapped EXCEPT ![receive] = @ - fee]
<1>1. /\ taken <= balance[send] /\ taken <= getDefaultTotalNotional(totalSupply, sendUnits)
      /\ hasSufficientDefaultUnits(send, sendUnits)
      /\ post[send] <= balance[send] /\ post[receive] >= balance[receive]
      /\ UpdatePositions(send, receive, post)
  BY DEF Trade
<1>2. balance \in [Component -> Nat] /\ balance' = post
  BY <1>1 DEF FundTypeOK, UpdatePositions
<1>3. /\ swapped \in [Component -> Nat]
      /\ \A d \in Component \ {send, receive} : swapped[d] = balance[d]
      /\ send # receive => swapped[send] = balance[send] - taken
  <2>1. send # receive => swapped[send] = balance[send] - taken
    BY <1>2 DEF Swapped
  <2> QED  BY <1>1, <2>1, SwappedBalances
<1>4. fee \in Int
  <2>1. exchanged \in Int /\ TradeProtocolFee \in Int
    BY <1>2, <1>3, TradeProtocolFeeAssumption, PreciseUnitAssumption
  <2> HIDE DEF exchanged
  <2> QED  BY <2>1, FloorBounds, PreciseUnitAssumption DEF preciseMul
<1> HIDE DEF swapped, fee
<1>5. /\ post[receive] = swapped[receive] - fee
      /\ \A d \in Component \ {receive} : post[d] = swapped[d]
  BY <1>3
<1>6. swapped[receive] - fee \in Nat
  BY <1>1, <1>2, <1>3, <1>4, <1>5
<1>7. post \in [Component -> Nat]
  BY <1>3, <1>6
<1> HIDE DEF post
<1>8. send # receive
  <2> SUFFICES ASSUME send = receive PROVE FALSE
    OBVIOUS
  <2>1. \A d \in Component : post[d] <= balance[d]
    BY <1>1, <1>2, <1>3, <1>5, <1>7
  <2> QED  BY <1>2, <1>7, <2>1
<1>9. \A d \in Component \ {send, receive} : post[d] = balance[d]
  BY <1>3, <1>5
<1>10. post[send] = 0 => balance[send] <= getDefaultTrackedBalance(virtualUnit, send)
  <2>1. getDefaultTotalNotional(totalSupply, sendUnits)
          <= getDefaultTrackedBalance(virtualUnit, send)
    BY <1>1, NotionalIsTracked
  <2>2. getDefaultTrackedBalance(virtualUnit, send) \in Nat
        /\ getDefaultTotalNotional(totalSupply, sendUnits) \in Int
    <3>1. totalSupply * sendUnits \in Int
      BY DEF FundTypeOK
    <3> QED  BY <3>1, Tracked, FloorBounds, PreciseUnitAssumption
             DEF FundTypeOK, getDefaultTotalNotional, preciseMul
  <2>3. post[send] = balance[send] - taken
    BY <1>3, <1>5, <1>8
  <2> QED  BY <1>1, <1>2, <2>1, <2>2, <2>3
<1>11. post[receive] = 0 => balance[receive] <= getDefaultTrackedBalance(virtualUnit, receive)
  <2>1. getDefaultTrackedBalance(virtualUnit, receive) \in Nat
    BY Tracked DEF FundTypeOK
  <2> QED  BY <1>1, <1>2, <2>1
<1> QED  BY <1>1, <1>7, <1>8, <1>9, <1>10, <1>11, PositionsKeepAirdrops

LEMMA ConvertKeepsAirdrops ==
    ASSUME FundTypeOK, NEW from \in Component, NEW to \in Component, from # to,
           NEW first \in Component, NEW second \in Component,
           (first = from /\ second = to) \/ (first = to /\ second = from),
           NEW units \in Nat, NEW taken \in Nat, NEW given \in Nat,
           Converts(from, units, to, taken, given),
           WrapUpdates(first, second, Swapped(from, taken, to, given))
    PROVE  \A c \in Component : amountAirdropped(c)' >= amountAirdropped(c)
<1> DEFINE post == Swapped(from, taken, to, given)
<1>1. /\ taken <= balance[from] /\ taken <= getDefaultTotalNotional(totalSupply, units)
      /\ hasSufficientDefaultUnits(from, units)
      /\ post[to] >= balance[to] /\ UpdatePositions(first, second, post)
  BY DEF Converts, WrapUpdates
<1>2. balance \in [Component -> Nat] /\ totalSupply \in Nat
  BY DEF FundTypeOK
<1>3. /\ post \in [Component -> Nat]
      /\ post[from] = balance[from] - taken
      /\ \A d \in Component \ {from, to} : post[d] = balance[d]
  BY <1>1, <1>2 DEF Swapped
<1> HIDE DEF post
<1>4. post[from] = 0 => balance[from] <= getDefaultTrackedBalance(virtualUnit, from)
  <2>1. getDefaultTotalNotional(totalSupply, units) <= getDefaultTrackedBalance(virtualUnit, from)
    BY <1>1, NotionalIsTracked
  <2>2. getDefaultTrackedBalance(virtualUnit, from) \in Nat
        /\ getDefaultTotalNotional(totalSupply, units) \in Int
    <3>1. totalSupply * units \in Int
      BY <1>2
    <3> QED  BY <3>1, Tracked, FloorBounds, PreciseUnitAssumption
             DEF FundTypeOK, getDefaultTotalNotional, preciseMul
  <2> QED  BY <1>1, <1>2, <1>3, <2>1, <2>2
<1>5. post[to] = 0 => balance[to] <= getDefaultTrackedBalance(virtualUnit, to)
  <2>1. getDefaultTrackedBalance(virtualUnit, to) \in Nat
    BY Tracked DEF FundTypeOK
  <2> QED  BY <1>1, <1>2, <2>1
<1>6. first # second /\ {first, second} = {from, to}
  OBVIOUS
<1> QED  BY <1>1, <1>3, <1>4, <1>5, <1>6, PositionsKeepAirdrops

\* Absorbing pays fees, if anything, out of the balances.
LEMMA AbsorbLowersBalance ==
    ASSUME PlainInv, NEW tokens \in SUBSET Component, AbsorbAll(tokens)
    PROVE  \A c \in Component : balance'[c] <= balance[c]
<1> SUFFICES ASSUME NEW c \in Component
             PROVE  balance'[c] <= balance[c]
  OBVIOUS
<1>1. balance[c] \in Nat /\ airdropFee \in Nat /\ virtualUnit[c] \in Nat
  BY PreciseUnitAssumption DEF PlainInv, FundTypeOK
<1>2. getDefaultTrackedBalance(virtualUnit, c) \in Nat
  BY <1>1, Tracked DEF PlainInv
<1>3. CASE c \in tokens /\ amountAirdropped(c) > 0
  <2> DEFINE amount == amountAirdropped(c)
  <2>1. amount \in Nat
    BY <1>1, <1>2, <1>3 DEF amountAirdropped
  <2>2. amount * airdropFee \in Nat
    BY <1>1, <2>1
  <2>3. totalFees(c) \in Int /\ totalFees(c) >= 0
    BY <2>2, FloorBounds, FloorSign, PreciseUnitAssumption DEF totalFees, preciseMul
  <2>4. balance'[c] = balance[c] - totalFees(c)
    BY <1>3 DEF AbsorbAll
  <2> QED  BY <1>1, <2>3, <2>4
<1>4. CASE ~(c \in tokens /\ amountAirdropped(c) > 0)
  BY <1>1, <1>4 DEF AbsorbAll
<1> QED  BY <1>3, <1>4

LEMMA AirdropsStayStep ==
    ASSUME PlainInv, [PlainNext /\ Bounded]_portfolioVars, virtualUnit' # virtualUnit,
           \E c \in Component : balance'[c] > balance[c]
    PROVE  \A c \in Component : amountAirdropped(c)' >= amountAirdropped(c)
<1>1. FundTypeOK /\ Collateralized /\ balance \in [Component -> Nat]
  BY DEF PlainInv, FundTypeOK
<1>2. ASSUME NEW tokens \in SUBSET Component, AbsorbAll(tokens)
      PROVE  FALSE
  <2>1. balance' \in [Component -> Nat]
    BY <1>2, AbsorbStep DEF FundTypeOK
  <2> QED  BY <1>1, <1>2, <2>1, AbsorbLowersBalance
<1>3. CASE AirdropNext
  <2>1. TokensToAbsorb \in SUBSET Component
    BY DEF TokensToAbsorb
  <2> QED  BY <1>2, <1>3, <2>1
           DEF AirdropNext, BatchAbsorb, AddAirdrop, RemoveAirdrop, UpdateAirdropFee,
               InitializeAirdrop, RemoveAirdropModule, fundVars
<1>4. CASE TradeNext
  <2>1. PICK from \in Component, to \in Component, units \in TradeUnits,
             taken \in 0 .. MaxBalance, given \in 0 .. MaxGiven :
          \/ \E minUnits \in TradeUnits : Trade(from, units, to, minUnits, taken, given)
          \/ from # to /\ Wrap(from, units, to, taken, given)
          \/ from # to /\ Unwrap(to, units, from, taken, given)
    BY <1>4 DEF TradeNext
  <2>2. units \in Nat /\ taken \in Nat /\ given \in Nat
    BY PortfolioAssumption
  <2>3. ASSUME NEW minUnits \in TradeUnits, Trade(from, units, to, minUnits, taken, given)
        PROVE  \A c \in Component : amountAirdropped(c)' >= amountAirdropped(c)
    BY <1>1, <2>2, <2>3, TradeKeepsAirdrops
  <2>4. CASE from # to /\ Wrap(from, units, to, taken, given)
    BY <1>1, <2>2, <2>4, ConvertKeepsAirdrops DEF Wrap
  <2>5. CASE from # to /\ Unwrap(to, units, from, taken, given)
    BY <1>1, <2>2, <2>5, ConvertKeepsAirdrops DEF Unwrap
  <2> QED  BY <2>1, <2>3, <2>4, <2>5
<1> QED  BY <1>3, <1>4
         DEF PlainNext, IssuanceNext, Issue, Redeem, ReceiveNext, Receive, portfolioVars, fundVars

\* A trade or a conversion never counts tokens sent to the CKToken earlier as part
\* of what it brought in (Position.calculateDefaultEditPositionUnit).
THEOREM AirdropsStay == PlainSpec => AirdropsStayAirdropped
<1>1. Init => PlainInv
  BY PlainInit
<1>2. PlainInv /\ [PlainNext /\ Bounded]_portfolioVars => PlainInv'
  BY PlainStep
<1>3. PlainInv /\ [PlainNext /\ Bounded]_portfolioVars =>
        [ virtualUnit' # virtualUnit /\ (\E c \in Component : balance'[c] > balance[c])
          => \A c \in Component : amountAirdropped(c)' >= amountAirdropped(c) ]_portfolioVars
  BY AirdropsStayStep
<1> QED  BY <1>1, <1>2, <1>3, PTL DEF PlainSpec, AirdropsStayAirdropped

-----------------------------------------------------------------------------
(* A new airdrop fee *)

\* What a unit set from a notional leaves of it, at a multiplier of one.
LEMMA LeftOfNotional ==
    ASSUME FundTypeOK, totalSupply > 0, positionMultiplier = PreciseUnit,
           NEW c \in Component, NEW notional \in Nat,
           NEW edited, edited = editDefaultPosition(virtualUnit, c, getDefaultPositionUnit(totalSupply, notional))
    PROVE  (notional - getDefaultTrackedBalance(edited, c) - 1) * PreciseUnit <= totalSupply
<1> DEFINE p    == PreciseUnit
           s    == totalSupply
           real == (notional * p) \div s
           kept == (s * real) \div p
<1>1. s \in Nat \ {0} /\ p \in Nat \ {0} /\ notional * p \in Nat
  BY PreciseUnitAssumption DEF FundTypeOK
<1>2. real \in Nat /\ notional * p < s * real + s
  BY <1>1, FloorBounds, FloorSign
<1>3. getDefaultTrackedBalance(edited, c) = kept
  <2>1. edited = [virtualUnit EXCEPT ![c] = conservativePreciseDiv(real, positionMultiplier)]
    BY DEF editDefaultPosition, getDefaultPositionUnit, preciseDiv
  <2> HIDE DEF real
  <2>2. (real * p) \div p = real
    BY <1>1, <1>2
  <2>3. conservativePreciseDiv(real, p) = real /\ conservativePreciseMul(real, p) = real
    <3>1. real \in Int /\ p \in Int
      BY <1>1, <1>2
    <3>2. conservativePreciseDiv(real, p) = (real * p) \div p
      BY <1>1, <3>1, ConservativeDiv
    <3>3. conservativePreciseMul(real, p) = (real * p) \div p
      BY <3>1, ConservativeMul
    <3> QED  BY <2>2, <3>2, <3>3
  <2>4. edited[c] = real
    BY <2>1, <2>3 DEF FundTypeOK
  <2> QED  BY <2>3, <2>4 DEF getDefaultTrackedBalance, getDefaultPositionRealUnit, preciseMul
<1> HIDE DEF real
<1>4. kept \in Int /\ s * real < p * kept + p
  <2>1. s * real \in Int
    BY <1>1, <1>2
  <2> QED  BY <1>1, <2>1, FloorBounds
<1> HIDE DEF kept, p, s
<1>5. (notional - kept - 1) * p = notional * p - p * kept - p
  BY <1>1, <1>4
<1>6. s * real \in Int /\ p * kept \in Int
  BY <1>1, <1>2, <1>4
<1>7. (notional - kept - 1) * p <= s
  BY <1>1, <1>2, <1>4, <1>5, <1>6
<1> QED  BY <1>3, <1>7 DEF p, s

LEMMA FeeChangeStep ==
    ASSUME FundTypeOK, airdropFee \in 0 .. PreciseUnit,
           NEW tokens \in SUBSET Component, AbsorbAll(tokens),
           positionMultiplier = PreciseUnit, NEW c \in tokens
    PROVE  (amountAirdropped(c)' - 1) * PreciseUnit <= totalSupply
<1>1. /\ FundTypeOK /\ airdropFee \in Nat /\ airdropFee <= PreciseUnit
      /\ totalSupply \in Nat /\ balance[c] \in Nat /\ virtualUnit[c] \in Nat
      /\ UNCHANGED <<totalSupply, positionMultiplier>>
  BY PreciseUnitAssumption DEF FundTypeOK, AbsorbAll
<1>2. getDefaultTrackedBalance(virtualUnit, c) \in Nat
  BY <1>1, Tracked
<1>3. amountAirdropped(c)' = balance'[c] - getDefaultTrackedBalance(virtualUnit', c)
  BY <1>1 DEF amountAirdropped, getDefaultTrackedBalance, getDefaultPositionRealUnit
<1>4. CASE amountAirdropped(c) > 0
  <2> DEFINE amount   == amountAirdropped(c)
             notional == balance[c] - totalFees(c)
             edited   == editDefaultPosition(virtualUnit, c, getDefaultPositionUnit(totalSupply, notional))
  <2>1. /\ balance'[c] = notional /\ totalSupply > 0
        /\ virtualUnit'[c] = edited[c]
    BY <1>4 DEF AbsorbAll, getPostAirdropUnit, IsAbsorbable
  <2>2. amount \in Nat /\ amount <= balance[c]
    BY <1>1, <1>2, <1>4 DEF amountAirdropped
  <2>3. notional \in Nat
    <3> DEFINE fee == totalFees(c)
    <3>1. fee = (amount * airdropFee) \div PreciseUnit
      BY DEF totalFees, preciseMul
    <3> HIDE DEF fee, amount
    <3>2. /\ amount * airdropFee \in Nat /\ amount * airdropFee <= PreciseUnit * amount
          /\ PreciseUnit * amount \in Nat
      BY <1>1, <2>2, PreciseUnitAssumption
    <3>3. fee \in Nat /\ PreciseUnit * fee <= amount * airdropFee
      <4> DEFINE charged == amount * airdropFee
      <4>1. fee = charged \div PreciseUnit /\ charged \in Nat
        BY <3>1, <3>2
      <4> HIDE DEF charged
      <4>2. fee \in Nat /\ PreciseUnit * fee <= charged
        BY <4>1, FloorBounds, FloorSign, PreciseUnitAssumption
      <4> QED  BY <4>2 DEF charged
    <3>4. PreciseUnit * fee <= PreciseUnit * amount
      BY <3>2, <3>3, PreciseUnitAssumption
    <3>5. fee <= amount
      BY <2>2, <3>3, <3>4, PreciseUnitAssumption
    <3> QED  BY <1>1, <2>2, <3>3, <3>5 DEF fee
  <2> HIDE DEF notional
  <2>4. (notional - getDefaultTrackedBalance(edited, c) - 1) * PreciseUnit <= totalSupply
    BY <1>1, <2>1, <2>3, LeftOfNotional
  <2> HIDE DEF edited
  <2>5. getDefaultTrackedBalance(virtualUnit', c) = getDefaultTrackedBalance(edited, c)
    BY <2>1, SameUnitSameTracked
  <2> QED  BY <1>3, <2>1, <2>4, <2>5
<1>5. CASE ~(amountAirdropped(c) > 0)
  <2>1. balance'[c] = balance[c] /\ virtualUnit'[c] = virtualUnit[c]
    BY <1>5 DEF AbsorbAll
  <2>2. getDefaultTrackedBalance(virtualUnit', c) = getDefaultTrackedBalance(virtualUnit, c)
    BY <2>1, SameUnitSameTracked
  <2> DEFINE amount == amountAirdropped(c)
  <2>3. amount \in Int /\ amount <= 0 /\ amountAirdropped(c)' = amount
    BY <1>1, <1>2, <1>3, <1>5, <2>1, <2>2 DEF amountAirdropped
  <2> HIDE DEF amount
  <2>4. (amount - 1) * PreciseUnit <= 0
    BY <2>3, PreciseUnitAssumption
  <2> QED  BY <1>1, <2>3, <2>4, PreciseUnitAssumption
<1> QED  BY <1>4, <1>5

\* The action of FeeChangeAbsorbsFirst, whatever other modules do between.
LEMMA FeeChangeAction ==
    ASSUME FundTypeOK, airdropFee \in 0 .. PreciseUnit, AirdropNext \/ UNCHANGED airdropVars,
           airdropInitialized, airdropInitialized', airdropFee' # airdropFee,
           positionMultiplier = PreciseUnit, NEW c \in Component, contains(airdrops, c)
    PROVE  (amountAirdropped(c)' - 1) * PreciseUnit <= totalSupply
<1>1. AirdropNext
  BY DEF airdropVars
<1>2. AbsorbAll(TokensToAbsorb)
  BY <1>1 DEF AirdropNext, BatchAbsorb, AddAirdrop, RemoveAirdrop, UpdateAirdropFee,
              InitializeAirdrop, RemoveAirdropModule, airdropVars
<1>3. TokensToAbsorb \in SUBSET Component /\ c \in TokensToAbsorb
  BY DEF TokensToAbsorb
<1> QED  BY <1>2, <1>3, FeeChangeStep

\* A new fee never applies to what was sent before it (updateAirdropFee): all but
\* the rounding of a unit is absorbed at the old one.
THEOREM FeeChangeAbsorbs == PlainSpec => FeeChangeAbsorbsFirst
<1>1. Init => PlainInv
  BY PlainInit
<1>2. PlainInv /\ [PlainNext /\ Bounded]_portfolioVars => PlainInv'
  BY PlainStep
<1>3. PlainInv /\ [PlainNext /\ Bounded]_portfolioVars =>
        [ /\ airdropInitialized /\ airdropInitialized' /\ airdropFee' # airdropFee
          /\ positionMultiplier = PreciseUnit
          => \A c \in Component : contains(airdrops, c) =>
               (amountAirdropped(c)' - 1) * PreciseUnit <= totalSupply ]_<<airdropVars, fundVars>>
  <2>1. [PlainNext /\ Bounded]_portfolioVars => AirdropNext \/ UNCHANGED airdropVars
    BY DEF PlainNext, IssuanceNext, TradeNext, ReceiveNext, portfolioVars, airdropVars
  <2>2. PlainInv => FundTypeOK /\ airdropFee \in 0 .. PreciseUnit
    BY DEF PlainInv
  <2> QED  BY <2>1, <2>2, FeeChangeAction
<1> QED  BY <1>1, <1>2, <1>3, PTL DEF PlainSpec, FeeChangeAbsorbsFirst

-----------------------------------------------------------------------------
(* What the tests trade and stake with *)

\* Adding to a numerator adds to a floor, but for one.
LEMMA FloorsAdd ==
    ASSUME NEW a \in Nat, NEW b \in Nat, NEW d \in Nat \ {0}
    PROVE  (a + b) \div d - a \div d - b \div d \in 0 .. 1
<1> DEFINE x == a \div d
           y == b \div d
           z == (a + b) \div d
<1>1. /\ x \in Int /\ d * x <= a /\ a < d * x + d
      /\ y \in Int /\ d * y <= b /\ b < d * y + d
      /\ z \in Int /\ d * z <= a + b /\ a + b < d * z + d
  BY FloorBounds
<1> HIDE DEF x, y, z
<1>2. d * (x + y) < d * (z + 1) /\ d * z < d * (x + y + 2)
  BY <1>1
<1>3. x + y < z + 1 /\ z < x + y + 2
  BY <1>1, <1>2
<1> QED  BY <1>1, <1>3 DEF x, y, z

\* Half of a difference, and what is left of it.
LEMMA Halved ==
    ASSUME NEW a \in Nat
    PROVE  a \div 2 \in Nat /\ a - 2 * (a \div 2) \in 0 .. 1
OBVIOUS

\* A quantity converted at a price and back loses less than one unit of the
\* other asset and one of its own.
LEMMA ConvertedBack ==
    ASSUME NEW h \in Nat, NEW price \in Nat \ {0}
    PROVE  LET sold == (h * price) \div PreciseUnit
               back == (sold * PreciseUnit) \div price
           IN  /\ sold \in Nat /\ PreciseUnit * sold <= h * price
               /\ back \in Nat
               /\ h - back \in 0 .. PreciseUnit \div price + 1
<1> DEFINE p    == PreciseUnit
           sold == (h * price) \div p
           back == (sold * p) \div price
           unit == p \div price
<1>1. p \in Nat \ {0} /\ h * price \in Nat
  BY PreciseUnitAssumption
<1>2. sold \in Nat /\ p * sold <= h * price /\ h * price < p * sold + p
  BY <1>1, FloorBounds, FloorSign
<1>3. unit \in Nat /\ p < price * unit + price
  BY <1>1, FloorBounds, FloorSign
<1> HIDE DEF sold, unit, p
<1>4. sold * p \in Nat
  BY <1>1, <1>2
<1>5. back \in Nat /\ price * back <= sold * p /\ sold * p < price * back + price
  BY <1>4, FloorBounds, FloorSign
<1> HIDE DEF back
<1>6. price * back <= price * h /\ price * h < price * (back + unit + 2)
  <2>1. /\ sold * p = p * sold /\ price * h = h * price
        /\ price * (back + unit + 2) = price * back + price * unit + price + price
    BY <1>1, <1>2, <1>3, <1>5
  <2>2. /\ price * back \in Int /\ price * unit \in Int /\ sold * p \in Int /\ h * price \in Int
    BY <1>1, <1>3, <1>4, <1>5
  <2> QED  BY <1>1, <1>2, <1>3, <1>5, <2>1, <2>2
<1>7. back <= h /\ h < back + unit + 2
  BY <1>3, <1>5, <1>6
<1>8. h - back \in 0 .. unit + 1
  BY <1>3, <1>5, <1>7
<1> QED  BY <1>2, <1>5, <1>8 DEF sold, back, unit, p

LEMMA ExpectedNat ==
    /\ \A a \in Nat, b \in Nat \ {0} : Expected!div(a, b) = a \div b
    /\ \A a, b \in Nat : Expected!preciseMul(a, b) = (a * b) \div PreciseUnit
    /\ \A a \in Nat, b \in Nat \ {0} : Expected!preciseDiv(a, b) = (a * PreciseUnit) \div b
<1>1. ASSUME NEW a \in Nat, NEW b \in Nat \ {0}
      PROVE  Expected!div(a, b) = a \div b
  BY DEF Expected!div, Expected!magnitude
<1>2. ASSUME NEW a \in Nat, NEW b \in Nat
      PROVE  Expected!preciseMul(a, b) = (a * b) \div PreciseUnit
  <2>1. a * b \in Nat
    OBVIOUS
  <2> QED  BY <1>1, <2>1, PreciseUnitAssumption DEF Expected!preciseMul
<1>3. ASSUME NEW a \in Nat, NEW b \in Nat \ {0}
      PROVE  Expected!preciseDiv(a, b) = (a * PreciseUnit) \div b
  <2>1. a * PreciseUnit \in Nat
    BY PreciseUnitAssumption
  <2> QED  BY <1>1, <2>1 DEF Expected!preciseDiv
<1> QED  BY <1>1, <1>2, <1>3

\* Selling half of what one component is worth more than the other.
LEMMA SellOne ==
    ASSUME NEW one \in Nat, NEW two \in Nat, NEW price \in Nat \ {0},
           one > (two * PreciseUnit) \div price
    PROVE  LET q == (one - (two * PreciseUnit) \div price) \div 2
               m == (q * price) \div PreciseUnit
           IN  /\ q \in Nat /\ one - q \in Nat /\ m \in Nat
               /\ distance(one - q, ((two + m) * PreciseUnit) \div price)
                    <= PreciseUnit \div price + 2
<1> DEFINE p == PreciseUnit
           value == (two * p) \div price
           q == (one - value) \div 2
           m == (q * price) \div p
           back == (m * p) \div price
           w == ((two + m) * p) \div price
           unit == p \div price
<1>1. p \in Nat \ {0} /\ two * p \in Nat
  BY PreciseUnitAssumption
<1>2. value \in Nat /\ unit \in Nat
  BY <1>1, FloorBounds, FloorSign
<1> HIDE DEF value
<1>3. one - value \in Nat /\ one - value > 0
  BY <1>2 DEF value
<1>4. q \in Nat /\ one - value - 2 * q \in 0 .. 1
  BY <1>3, Halved
<1> HIDE DEF q
<1>5. m \in Nat /\ back \in Nat /\ q - back \in 0 .. unit + 1
  BY <1>4, ConvertedBack
<1> HIDE DEF m
<1>6. m * p \in Nat /\ (two + m) * p = two * p + m * p
  BY <1>1, <1>5
<1>7. w - value - back \in 0 .. 1 /\ w \in Int
  <2>1. w = (two * p + m * p) \div price
    BY <1>6
  <2>2. two * p + m * p \in Int
    BY <1>1, <1>6
  <2> QED  BY <1>1, <1>6, <2>1, <2>2, FloorsAdd, FloorBounds DEF value
<1> HIDE DEF back, w, unit
<1>8. one - q \in Nat /\ distance(one - q, w) <= unit + 2
  BY <1>2, <1>3, <1>4, <1>5, <1>7 DEF distance
<1> QED  BY <1>4, <1>5, <1>8 DEF p, value, q, m, w, unit

LEMMA SellTwo ==
    ASSUME NEW one \in Nat, NEW two \in Nat, NEW price \in Nat \ {0},
           one <= (two * PreciseUnit) \div price
    PROVE  LET h == ((two * PreciseUnit) \div price - one) \div 2
               q == (h * price) \div PreciseUnit
               back == (q * PreciseUnit) \div price
           IN  /\ h \in Nat /\ q \in Nat /\ two - q \in Nat /\ back \in Nat
               /\ distance(one + back, ((two - q) * PreciseUnit) \div price)
                    <= 2 * (PreciseUnit \div price + 1) + 1
<1> DEFINE p == PreciseUnit
           value == (two * p) \div price
           h == (value - one) \div 2
           q == (h * price) \div p
           back == (q * p) \div price
           w == ((two - q) * p) \div price
           unit == p \div price
<1>1. p \in Nat \ {0} /\ two * p \in Nat
  BY PreciseUnitAssumption
<1>2. value \in Nat /\ unit \in Nat /\ price * value <= two * p
  BY <1>1, FloorBounds, FloorSign
<1> HIDE DEF value
<1>3. value - one \in Nat
  BY <1>2 DEF value
<1>4. h \in Nat /\ value - one - 2 * h \in 0 .. 1
  BY <1>3, Halved
<1> HIDE DEF h
<1>5. q \in Nat /\ p * q <= h * price /\ back \in Nat /\ h - back \in 0 .. unit + 1
  BY <1>4, ConvertedBack
<1> HIDE DEF q
<1>6. two - q \in Nat
  <2>1. h <= value
    BY <1>2, <1>3, <1>4
  <2>2. h * price <= price * value
    BY <1>2, <1>4, <2>1
  <2>3. p * q \in Int /\ h * price \in Int /\ price * value \in Int /\ p * two \in Int
        /\ two * p = p * two
    BY <1>1, <1>2, <1>4, <1>5
  <2>4. p * q <= p * two
    BY <1>2, <1>5, <2>2, <2>3
  <2>5. q <= two
    BY <1>1, <1>5, <2>4
  <2> QED  BY <1>5, <2>5
<1>7. q * p \in Nat /\ (two - q) * p \in Nat /\ two * p = (two - q) * p + q * p
  BY <1>1, <1>5, <1>6
<1>8. value - w - back \in 0 .. 1 /\ w \in Int
  <2>1. value = ((two - q) * p + q * p) \div price
    BY <1>7 DEF value
  <2>2. ((two - q) * p + q * p) \div price - w - back \in 0 .. 1
    <3> DEFINE a == (two - q) * p
               b == q * p
    <3>1. a \in Nat /\ b \in Nat
      BY <1>7
    <3> HIDE DEF a, b
    <3>2. (a + b) \div price - a \div price - b \div price \in 0 .. 1
      BY <3>1, FloorsAdd
    <3> QED  BY <3>2 DEF a, b
  <2>3. w \in Int
    <3>1. (two - q) * p \in Int
      BY <1>7
    <3> HIDE DEF p
    <3> QED  BY <3>1, FloorBounds
  <2> QED  BY <2>1, <2>2, <2>3
<1> HIDE DEF back, w, unit
<1>9. distance(one + back, w) <= 2 * (unit + 1) + 1
  BY <1>2, <1>3, <1>4, <1>5, <1>8 DEF distance
<1> QED  BY <1>4, <1>5, <1>6, <1>9 DEF p, value, h, q, back, w, unit

LEMMA EngagedPart ==
    ASSUME NEW reserve \in Nat, NEW held \in Nat, NEW part \in 0 .. PreciseUnit
    PROVE  LET left == (held * (PreciseUnit - part)) \div PreciseUnit
           IN  held + ((reserve * part) \div PreciseUnit - left)
                 - ((reserve + held) * part) \div PreciseUnit \in 0 .. 1
<1> DEFINE p == PreciseUnit
           a == reserve * part
           b == held * part
           c == held * (p - part)
           x == a \div p
           y == c \div p
           z == ((reserve + held) * part) \div p
<1>1. p \in Nat \ {0} /\ part \in Nat /\ p - part \in Nat
  BY PreciseUnitAssumption
<1>2. /\ a \in Nat /\ b \in Nat /\ c \in Nat
      /\ c = p * held - b /\ (reserve + held) * part = a + b
  BY <1>1
<1> HIDE DEF a, b, c
<1>3. /\ x \in Int /\ p * x <= a /\ a < p * x + p
      /\ y \in Int /\ p * y <= c /\ c < p * y + p
  BY <1>1, <1>2, FloorBounds
<1>4. z \in Int /\ p * z <= a + b /\ a + b < p * z + p
  <2>1. z = (a + b) \div p /\ a + b \in Int
    BY <1>2
  <2> HIDE DEF z
  <2> QED  BY <1>1, <2>1, FloorBounds
<1> HIDE DEF x, y, z, p
<1> DEFINE e == held + (x - y) - z
<1>5. p * e = p * held + p * x - p * y - p * z
  BY <1>1, <1>3, <1>4
<1>6. p * held \in Int /\ p * x \in Int /\ p * y \in Int /\ p * z \in Int /\ e \in Int
  BY <1>1, <1>3, <1>4
<1> HIDE DEF e
<1>7. p * (-1) < p * e /\ p * e < p * 2
  BY <1>1, <1>2, <1>3, <1>4, <1>5, <1>6
<1>8. -1 < e /\ e < 2
  BY <1>1, <1>6, <1>7
<1> QED  BY <1>6, <1>8 DEF e, x, y, z, a, c, p

LEMMA RebalanceEvens ==
    ASSUME FundTypeOK
    PROVE  RebalanceEvensOut
<1> SUFFICES ASSUME NEW one \in Component, NEW two \in Component,
                    NEW price \in 1 .. MaxGiven + 1, one # two
             PROVE  LET sale     == Expected!calculateRebalanceQuantity(0, balance[one], balance[two], price)
                        q        == sale.quantity
                        left     == IF sale.sellsOne
                                    THEN <<balance[one] - q, balance[two] + preciseMul(q, price)>>
                                    ELSE <<balance[one] + preciseDiv(q, price), balance[two] - q>>
                        unit     == preciseDiv(1, price) + 1
                        rounding == IF sale.sellsOne THEN unit ELSE 2 * unit
                    IN  /\ q \in Nat /\ left[1] >= 0 /\ left[2] >= 0
                        /\ distance(left[1], preciseDiv(left[2], price)) <= rounding + 1
  BY DEF RebalanceEvensOut
<1> DEFINE a     == balance[one]
           b     == balance[two]
           p     == PreciseUnit
           value == (b * p) \div price
           sale  == Expected!calculateRebalanceQuantity(0, a, b, price)
<1>1. a \in Nat /\ b \in Nat /\ price \in Nat \ {0} /\ p \in Nat \ {0}
  BY PortfolioAssumption, PreciseUnitAssumption DEF FundTypeOK
<1>2. preciseDiv(1, price) = p \div price
  BY <1>1 DEF preciseDiv
<1> HIDE DEF a, b
<1>3. Expected!preciseDiv(b, price) = value /\ value \in Nat
  <2>1. b * p \in Nat
    BY <1>1
  <2>2. value \in Nat
    BY <1>1, <2>1, FloorBounds, FloorSign
  <2>3. Expected!preciseDiv(b, price) = value
    BY <1>1, ExpectedNat
  <2> QED  BY <2>2, <2>3
<1> HIDE DEF value
<1>4. CASE a > value
  <2> DEFINE q == (a - value) \div 2
             m == (q * price) \div p
  <2>1. /\ q \in Nat /\ a - q \in Nat /\ m \in Nat
        /\ distance(a - q, ((b + m) * p) \div price) <= p \div price + 2
    BY <1>1, <1>4, SellOne DEF value
  <2>2. sale.quantity = q /\ sale.sellsOne
    <3>1. a - value \in Nat /\ 2 \in Nat \ {0}
      BY <1>1, <1>3, <1>4
    <3>2. Expected!surplusToSell(a, value) = q
      BY <3>1, ExpectedNat DEF Expected!surplusToSell
    <3> HIDE DEF q
    <3>3. sale.quantity = q
      BY <1>1, <1>3, <1>4, <3>2 DEF Expected!calculateRebalanceQuantity
    <3>4. sale.sellsOne
      BY <1>1, <1>3, <1>4 DEF Expected!calculateRebalanceQuantity
    <3> QED  BY <3>3, <3>4
  <2> HIDE DEF sale
  <2>3. p \div price \in Nat
    BY <1>1, FloorBounds, FloorSign
  <2> HIDE DEF q
  <2>4. preciseMul(q, price) = m /\ preciseDiv(b + m, price) = ((b + m) * p) \div price
    BY DEF preciseMul, preciseDiv
  <2> HIDE DEF m
  <2> QED  BY <1>1, <1>2, <2>1, <2>2, <2>3, <2>4 DEF a, b, sale
<1>5. CASE a <= value
  <2> DEFINE h    == (value - a) \div 2
             q    == (h * price) \div p
             back == (q * p) \div price
  <2>1. /\ h \in Nat /\ q \in Nat /\ b - q \in Nat /\ back \in Nat
        /\ distance(a + back, ((b - q) * p) \div price) <= 2 * (p \div price + 1) + 1
    BY <1>1, <1>5, SellTwo DEF value
  <2>2. sale.quantity = q /\ ~sale.sellsOne
    <3>1. value - a \in Nat /\ 2 \in Nat \ {0}
      BY <1>1, <1>3, <1>5
    <3>2. Expected!surplusToSell(value, a) = h
      BY <3>1, ExpectedNat DEF Expected!surplusToSell
    <3> HIDE DEF h
    <3>3. Expected!preciseMul(h, price) = q
      BY <1>1, <2>1, ExpectedNat
    <3> HIDE DEF q
    <3>4. ~(a > value)
      BY <1>1, <1>3, <1>5
    <3>5. sale.quantity = q
      BY <1>1, <1>3, <3>2, <3>3, <3>4 DEF Expected!calculateRebalanceQuantity
    <3>6. ~sale.sellsOne
      BY <1>1, <1>3, <3>4 DEF Expected!calculateRebalanceQuantity
    <3> QED  BY <3>5, <3>6
  <2> HIDE DEF sale
  <2>3. p \div price \in Nat
    BY <1>1, FloorBounds, FloorSign
  <2> HIDE DEF q
  <2>4. preciseDiv(q, price) = back /\ preciseDiv(b - q, price) = ((b - q) * p) \div price
    BY DEF preciseDiv
  <2> HIDE DEF back
  <2>5. /\ a + preciseDiv(q, price) >= 0 /\ b - q >= 0
        /\ distance(a + preciseDiv(q, price), preciseDiv(b - q, price))
             <= 2 * (preciseDiv(1, price) + 1) + 1
    BY <1>1, <1>2, <2>1, <2>3, <2>4
  <2> QED  BY <2>1, <2>2, <2>5 DEF a, b, sale
<1> QED  BY <1>1, <1>3, <1>4, <1>5 DEF a, b, sale

LEMMA EngageEvens ==
    ASSUME FundTypeOK
    PROVE  EngageEvensOut
<1> SUFFICES ASSUME NEW c \in Component, NEW pool \in 0 .. MaxBalance,
                    NEW lpSupply \in 1 .. MaxGiven, NEW part \in 1 .. PreciseUnit - 1,
                    NEW staked \in 0 .. lpSupply
             PROVE  LET reserve == Expected!calculateTokensInReserve(pool, lpSupply, staked)
                    IN  distance(balance[c] + Expected!calculateEngageQuantity(reserve, balance[c], part),
                                 preciseMul(reserve + balance[c], part)) <= 1
  BY DEF EngageEvensOut
<1> DEFINE p       == PreciseUnit
           held    == balance[c]
           each    == (pool * p) \div lpSupply
           reserve == Expected!calculateTokensInReserve(pool, lpSupply, staked)
           left    == (held * (p - part)) \div p
           whole   == ((reserve + held) * part) \div p
           engage  == Expected!calculateEngageQuantity(reserve, held, part)
<1>1. /\ held \in Nat /\ pool \in Nat /\ lpSupply \in Nat \ {0} /\ staked \in Nat
      /\ p \in Nat \ {0} /\ part \in Nat /\ part \in 0 .. p /\ p - part \in Nat
  BY PortfolioAssumption, PreciseUnitAssumption DEF FundTypeOK
<1>2. reserve \in Nat
  <2>1. each \in Nat
    <3>1. pool * p \in Nat
      BY <1>1
    <3> QED  BY <1>1, <3>1, FloorBounds, FloorSign
  <2>2. reserve = (each * staked) \div p
    <3>1. Expected!preciseDiv(pool, lpSupply) = each
      BY <1>1, ExpectedNat
    <3> HIDE DEF each
    <3> QED  BY <1>1, <2>1, <3>1, ExpectedNat DEF Expected!calculateTokensInReserve
  <2> HIDE DEF each, reserve
  <2>3. each * staked \in Nat
    BY <1>1, <2>1
  <2> QED  BY <1>1, <2>2, <2>3, FloorBounds, FloorSign
<1> HIDE DEF reserve, held
<1>3. engage = (reserve * part) \div p - left
  BY <1>1, <1>2, ExpectedNat DEF Expected!calculateEngageQuantity
<1>4. held + ((reserve * part) \div p - left) - whole \in 0 .. 1
  BY <1>1, <1>2, EngagedPart
<1>5. whole \in Int /\ (reserve * part) \div p \in Int /\ left \in Int
  <2>1. (reserve + held) * part \in Int /\ reserve * part \in Int /\ held * (p - part) \in Int
    BY <1>1, <1>2
  <2> QED  BY <1>1, <2>1, FloorBounds
<1>6. preciseMul(reserve + held, part) = whole
  BY DEF preciseMul
<1> HIDE DEF whole, left, engage
<1>7. distance(held + engage, whole) <= 1
  BY <1>1, <1>3, <1>4, <1>5 DEF distance
<1> QED  BY <1>6, <1>7 DEF held, reserve, engage

\* The quantities the tests trade and stake with (uniswapUtils.ts) even out what
\* they are meant to, from every balance the CKToken comes to.
THEOREM QuantitiesEvenOut == PlainSpec => []EvensOut
<1>1. Init => PlainInv
  BY PlainInit
<1>2. PlainInv /\ [PlainNext /\ Bounded]_portfolioVars => PlainInv'
  BY PlainStep
<1>3. PlainInv => EvensOut
  BY RebalanceEvens, EngageEvens DEF PlainInv, EvensOut
<1> QED  BY <1>1, <1>2, <1>3, PTL DEF PlainSpec

-----------------------------------------------------------------------------
(* What the token is short of *)

\* In units of 1/PreciseUnit^2 of a component, before any rounding.
Owed(c) == virtualUnit[c] * positionMultiplier * totalSupply

Held(c) == balance[c] * PreciseUnit * PreciseUnit

LEMMA OwedAndHeld ==
    ASSUME FundTypeOK, NEW c \in Component
    PROVE  /\ Owed(c) \in Nat /\ Held(c) \in Nat
           /\ shortfall(c) = IF Owed(c) > Held(c) THEN Owed(c) - Held(c) ELSE 0
<1>1. /\ virtualUnit[c] \in Nat /\ positionMultiplier \in Nat /\ totalSupply \in Nat
      /\ balance[c] \in Nat /\ PreciseUnit \in Nat
  BY PreciseUnitAssumption DEF FundTypeOK
<1>2. virtualUnit[c] * positionMultiplier \in Nat /\ balance[c] * PreciseUnit \in Nat
  BY <1>1
<1> QED  BY <1>1, <1>2 DEF Owed, Held, shortfall

LEMMA OwedAndHeldAfter ==
    ASSUME FundTypeOK', NEW c \in Component
    PROVE  /\ Owed(c)' \in Nat /\ Held(c)' \in Nat
           /\ shortfall(c)' = IF Owed(c)' > Held(c)' THEN Owed(c)' - Held(c)' ELSE 0
<1>1. /\ virtualUnit'[c] \in Nat /\ positionMultiplier' \in Nat /\ totalSupply' \in Nat
      /\ balance'[c] \in Nat /\ PreciseUnit \in Nat
  BY PreciseUnitAssumption DEF FundTypeOK
<1>2. virtualUnit'[c] * positionMultiplier' \in Nat /\ balance'[c] * PreciseUnit \in Nat
  BY <1>1
<1> QED  BY <1>1, <1>2 DEF Owed, Held, shortfall

\* Either what is owed is covered but for more, or it grows by at most more than
\* what is held.
LEMMA ShortBound ==
    ASSUME FundTypeOK, FundTypeOK', NEW c \in Component, NEW more \in Nat,
           \/ Owed(c)' <= Held(c)' + more
           \/ Owed(c)' - Owed(c) <= Held(c)' - Held(c) + more
    PROVE  shortfall(c)' <= shortfall(c) + more
BY OwedAndHeld, OwedAndHeldAfter

\* With nothing more.
LEMMA ShortNoMore ==
    ASSUME FundTypeOK, FundTypeOK', NEW c \in Component,
           Owed(c)' <= Held(c)' \/ Owed(c)' - Owed(c) <= Held(c)' - Held(c)
    PROVE  shortfall(c)' <= shortfall(c)
BY OwedAndHeld, OwedAndHeldAfter

\* The unit a deposit or a payout is computed from is the promise rounded down.
LEMMA RealUnitBounds ==
    ASSUME FundTypeOK, NEW c \in Component
    PROVE  LET u == getDefaultPositionRealUnit(virtualUnit, c)
               a == virtualUnit[c] * positionMultiplier
           IN  u \in Nat /\ a \in Nat /\ PreciseUnit * u <= a /\ a < PreciseUnit * u + PreciseUnit
<1> DEFINE a == virtualUnit[c] * positionMultiplier
<1>1. virtualUnit[c] \in Nat /\ positionMultiplier \in Nat
  BY DEF FundTypeOK
<1>2. a \in Nat
  BY <1>1
<1>3. getDefaultPositionRealUnit(virtualUnit, c) = a \div PreciseUnit
  <2>1. virtualUnit[c] \in Int /\ positionMultiplier \in Int
    BY <1>1
  <2> QED  BY <2>1, ConservativeMul DEF getDefaultPositionRealUnit
<1> HIDE DEF a
<1> DEFINE u == a \div PreciseUnit
<1>4. u \in Nat /\ PreciseUnit * u <= a /\ a < PreciseUnit * u + PreciseUnit
  BY <1>2, FloorBounds, FloorSign, PreciseUnitAssumption
<1> QED  BY <1>2, <1>3, <1>4 DEF a

LEMMA IssueShort ==
    ASSUME FundTypeOK, NEW quantity \in Nat, Issue(quantity)
    PROVE  /\ FundTypeOK'
           /\ totalSupply' - totalSupply = quantity /\ totalSupply' > totalSupply
           /\ \A c \in Component : shortfall(c)' <= shortfall(c) + quantity * PreciseUnit
<1> DEFINE u(c) == getDefaultPositionRealUnit(virtualUnit, c)
           d(c) == preciseMulCeil(u(c), quantity)
           a(c) == virtualUnit[c] * positionMultiplier
<1>1. /\ totalSupply \in Nat /\ balance \in [Component -> Nat]
      /\ quantity > 0 /\ PreciseUnit \in Nat
  BY PreciseUnitAssumption DEF FundTypeOK, Issue
<1>2. /\ totalSupply' = totalSupply + quantity
      /\ balance' = [c \in Component |-> balance[c] + d(c)]
      /\ UNCHANGED <<virtualUnit, positionMultiplier>>
  BY DEF Issue, getRequiredComponentUnitsForIssue
<1>3. \A c \in Component : /\ u(c) \in Nat /\ a(c) \in Nat
                           /\ a(c) < PreciseUnit * u(c) + PreciseUnit
  BY RealUnitBounds
<1> HIDE DEF u
<1>4. \A c \in Component : d(c) \in Nat /\ u(c) * quantity <= PreciseUnit * d(c)
  BY <1>3, CeilBounds
<1>5. FundTypeOK'
  <2> HIDE DEF d
  <2> QED  BY <1>1, <1>2, <1>4 DEF FundTypeOK
<1>6. ASSUME NEW c \in Component
      PROVE  Owed(c)' - Owed(c) <= Held(c)' - Held(c) + quantity * PreciseUnit
  <2>1. /\ Owed(c) = a(c) * totalSupply /\ Owed(c)' = a(c) * (totalSupply + quantity)
        /\ Held(c) = balance[c] * PreciseUnit * PreciseUnit
        /\ Held(c)' = (balance[c] + d(c)) * PreciseUnit * PreciseUnit
    BY <1>2 DEF Owed, Held
  <2>2. u(c) \in Nat /\ d(c) \in Nat /\ a(c) \in Nat /\ balance[c] \in Nat
    BY <1>1, <1>3, <1>4
  <2>3. a(c) < PreciseUnit * u(c) + PreciseUnit /\ u(c) * quantity <= PreciseUnit * d(c)
    BY <1>3, <1>4
  <2> HIDE DEF a, d
  <2>4. /\ Owed(c)' - Owed(c) = a(c) * quantity
        /\ Held(c)' - Held(c) = PreciseUnit * (PreciseUnit * d(c))
    BY <1>1, <2>1, <2>2
  <2>5. a(c) * quantity <= PreciseUnit * (u(c) * quantity) + quantity * PreciseUnit
    <3>1. a(c) * quantity <= (PreciseUnit * u(c) + PreciseUnit) * quantity
      BY <1>1, <2>2, <2>3
    <3> QED  BY <1>1, <2>2, <3>1
  <2>6. PreciseUnit * (u(c) * quantity) <= PreciseUnit * (PreciseUnit * d(c))
    <3> DEFINE x == u(c) * quantity
               y == PreciseUnit * d(c)
    <3>1. x \in Nat /\ y \in Nat /\ x <= y
      BY <1>1, <2>2, <2>3
    <3> HIDE DEF x, y
    <3>2. PreciseUnit * x <= PreciseUnit * y
      BY <1>1, <3>1
    <3> QED  BY <3>2 DEF x, y
  <2>7. /\ a(c) * quantity \in Int /\ PreciseUnit * (u(c) * quantity) \in Int
        /\ PreciseUnit * (PreciseUnit * d(c)) \in Int /\ quantity * PreciseUnit \in Int
    BY <1>1, <2>2
  <2> QED  BY <2>4, <2>5, <2>6, <2>7
<1>7. quantity * PreciseUnit \in Nat
  BY <1>1
<1>8. \A c \in Component : shortfall(c)' <= shortfall(c) + quantity * PreciseUnit
  BY <1>5, <1>6, <1>7, ShortBound
<1> QED  BY <1>1, <1>2, <1>5, <1>8

LEMMA RedeemShort ==
    ASSUME FundTypeOK, NEW quantity \in Nat, Redeem(quantity)
    PROVE  /\ FundTypeOK' /\ totalSupply' <= totalSupply
           /\ \A c \in Component : shortfall(c)' <= shortfall(c)
<1> DEFINE u(c) == getDefaultPositionRealUnit(virtualUnit, c)
           p(c) == (quantity * u(c)) \div PreciseUnit
           a(c) == virtualUnit[c] * positionMultiplier
<1>1. /\ totalSupply \in Nat /\ balance \in [Component -> Nat]
      /\ quantity <= totalSupply /\ PreciseUnit \in Nat \ {0}
  BY PreciseUnitAssumption DEF FundTypeOK, Redeem, IsBurnable
<1>2. /\ totalSupply' = totalSupply - quantity
      /\ balance' = [c \in Component |-> balance[c] - p(c)]
      /\ \A c \in Component : p(c) <= balance[c]
      /\ UNCHANGED <<virtualUnit, positionMultiplier>>
  BY DEF Redeem, RedeemedUnits, preciseMul
<1>3. \A c \in Component : u(c) \in Nat /\ a(c) \in Nat /\ PreciseUnit * u(c) <= a(c)
  BY RealUnitBounds
<1> HIDE DEF u
<1>4. ASSUME NEW c \in Component
      PROVE  p(c) \in Nat /\ PreciseUnit * p(c) <= quantity * u(c)
  <2> DEFINE n == quantity * u(c)
  <2>1. n \in Nat
    BY <1>3
  <2> HIDE DEF n
  <2>2. n \div PreciseUnit \in Nat /\ PreciseUnit * (n \div PreciseUnit) <= n
    BY <1>1, <2>1, FloorNat, FloorBounds
  <2> QED  BY <2>2 DEF n
<1>5. FundTypeOK'
  <2> HIDE DEF p
  <2>1. \A c \in Component : balance[c] - p(c) \in Nat
    BY <1>1, <1>2, <1>4
  <2> QED  BY <1>1, <1>2, <2>1 DEF FundTypeOK
<1>6. ASSUME NEW c \in Component
      PROVE  Owed(c)' - Owed(c) <= Held(c)' - Held(c)
  <2>1. /\ Owed(c) = a(c) * totalSupply /\ Owed(c)' = a(c) * (totalSupply - quantity)
        /\ Held(c) = balance[c] * PreciseUnit * PreciseUnit
        /\ Held(c)' = (balance[c] - p(c)) * PreciseUnit * PreciseUnit
    BY <1>2 DEF Owed, Held
  <2>2. /\ u(c) \in Nat /\ p(c) \in Nat /\ a(c) \in Nat /\ balance[c] \in Nat
        /\ PreciseUnit * u(c) <= a(c) /\ PreciseUnit * p(c) <= quantity * u(c)
    BY <1>1, <1>3, <1>4
  <2> HIDE DEF a, p
  <2>3. /\ Owed(c) - Owed(c)' = quantity * a(c)
        /\ Held(c) - Held(c)' = PreciseUnit * (PreciseUnit * p(c))
        /\ Owed(c) \in Int /\ Owed(c)' \in Int /\ Held(c) \in Int /\ Held(c)' \in Int
    BY <1>1, <2>1, <2>2
  <2>4. PreciseUnit * (PreciseUnit * p(c)) <= PreciseUnit * (quantity * u(c))
    <3> DEFINE x == PreciseUnit * p(c)
               y == quantity * u(c)
    <3>1. x \in Nat /\ y \in Nat /\ x <= y
      BY <1>1, <2>2
    <3> HIDE DEF x, y
    <3>2. PreciseUnit * x <= PreciseUnit * y
      BY <1>1, <3>1
    <3> QED  BY <3>2 DEF x, y
  <2>5. PreciseUnit * (quantity * u(c)) <= quantity * a(c)
    <3> DEFINE x == PreciseUnit * u(c)
    <3>1. x \in Nat /\ x <= a(c) /\ PreciseUnit * (quantity * u(c)) = quantity * x
      BY <1>1, <2>2
    <3> HIDE DEF x
    <3>2. quantity * x <= quantity * a(c)
      BY <2>2, <3>1
    <3> QED  BY <3>1, <3>2
  <2>6. /\ PreciseUnit * (PreciseUnit * p(c)) \in Int /\ PreciseUnit * (quantity * u(c)) \in Int
        /\ quantity * a(c) \in Int
    BY <1>1, <2>2
  <2>7. Held(c) - Held(c)' <= Owed(c) - Owed(c)'
    BY <2>3, <2>4, <2>5, <2>6
  <2> QED  BY <2>3, <2>7
<1>7. \A c \in Component : shortfall(c)' <= shortfall(c)
  BY <1>5, <1>6, ShortNoMore
<1> QED  BY <1>1, <1>2, <1>5, <1>7

\* Setting positions from balances leaves nothing short in them.
LEMMA MovesShort ==
    ASSUME FundTypeOK, NEW first \in Component, NEW second \in Component, Moves(first, second)
    PROVE  FundTypeOK' /\ \A c \in Component : shortfall(c)' <= shortfall(c)
<1>1. PICK post \in [Component -> Nat] :
        /\ UpdatePositions(first, second, post)
        /\ \A d \in Component \ {first, second} : post[d] >= balance[d]
  BY DEF Moves
<1> DEFINE once == Updated(virtualUnit, first, post)
           twice == Updated(once, second, post)
<1>2. /\ IsUpdatable(virtualUnit, first, post) /\ IsUpdatable(once, second, post)
      /\ virtualUnit' = twice /\ balance' = post
      /\ UNCHANGED <<totalSupply, positionMultiplier>>
  BY <1>1 DEF UpdatePositions
<1>3. virtualUnit \in [Component -> Nat] /\ balance \in [Component -> Nat]
      /\ totalSupply \in Nat /\ positionMultiplier \in Nat /\ PreciseUnit \in Nat
  BY PreciseUnitAssumption DEF FundTypeOK
<1>4. /\ once \in [Component -> Nat]
      /\ once[first] * positionMultiplier * totalSupply <= post[first] * PreciseUnit * PreciseUnit
      /\ \A d \in Component \ {first} : once[d] = virtualUnit[d]
  BY <1>2, <1>3, UpdatedUnit
<1> HIDE DEF once
<1>5. /\ twice \in [Component -> Nat]
      /\ twice[second] * positionMultiplier * totalSupply <= post[second] * PreciseUnit * PreciseUnit
      /\ \A d \in Component \ {second} : twice[d] = once[d]
  BY <1>2, <1>4, UpdatedUnit
<1> HIDE DEF twice
<1>6. FundTypeOK'
  BY <1>2, <1>5 DEF FundTypeOK
<1>7. ASSUME NEW c \in Component
      PROVE  shortfall(c)' <= shortfall(c)
  <2>1. /\ Owed(c)' = twice[c] * positionMultiplier * totalSupply
        /\ Held(c)' = post[c] * PreciseUnit * PreciseUnit
    BY <1>2 DEF Owed, Held
  <2>2. CASE c = first \/ c = second
    <3>1. Owed(c)' <= Held(c)'
      BY <1>4, <1>5, <2>1, <2>2
    <3> QED  BY <1>6, <3>1, ShortNoMore
  <2>3. CASE c # first /\ c # second
    <3>1. Owed(c)' = Owed(c)
      BY <1>4, <1>5, <2>1, <2>3 DEF Owed
    <3>2. Held(c)' >= Held(c)
      <4> DEFINE p == PreciseUnit * PreciseUnit
      <4>1. p \in Nat /\ post[c] \in Nat /\ balance[c] \in Nat /\ post[c] >= balance[c]
        BY <1>1, <1>3, <2>3
      <4>2. Held(c) = balance[c] * p /\ Held(c)' = post[c] * p
        BY <1>3, <2>1, <4>1 DEF Held
      <4> HIDE DEF p
      <4> QED  BY <4>1, <4>2
    <3>3. Owed(c)' - Owed(c) <= Held(c)' - Held(c)
      BY <1>6, <3>1, <3>2, OwedAndHeld, OwedAndHeldAfter
    <3> QED  BY <1>6, <3>3, ShortNoMore
  <2> QED  BY <2>2, <2>3
<1> QED  BY <1>6, <1>7

LEMMA ReceiveShort ==
    ASSUME FundTypeOK, NEW token \in Component, NEW quantity \in Nat, Receive(token, quantity)
    PROVE  FundTypeOK' /\ \A c \in Component : shortfall(c)' <= shortfall(c)
<1>1. /\ balance \in [Component -> Nat] /\ PreciseUnit \in Nat
      /\ balance' = [balance EXCEPT ![token] = @ + quantity]
      /\ UNCHANGED <<totalSupply, virtualUnit, positionMultiplier>>
  BY PreciseUnitAssumption DEF FundTypeOK, Receive
<1>2. FundTypeOK'
  BY <1>1 DEF FundTypeOK
<1>3. ASSUME NEW c \in Component
      PROVE  shortfall(c)' <= shortfall(c)
  <2> DEFINE p == PreciseUnit * PreciseUnit
  <2>1. p \in Nat /\ balance'[c] \in Nat /\ balance[c] \in Nat /\ balance'[c] >= balance[c]
    BY <1>1
  <2>2. Owed(c)' = Owed(c) /\ Held(c) = balance[c] * p /\ Held(c)' = balance'[c] * p
    BY <1>1, <2>1 DEF Owed, Held
  <2> HIDE DEF p
  <2>3. Held(c)' >= Held(c)
    BY <2>1, <2>2
  <2>4. Owed(c)' - Owed(c) <= Held(c)' - Held(c)
    BY <1>2, <2>2, <2>3, OwedAndHeld, OwedAndHeldAfter
  <2> QED  BY <1>2, <2>4, ShortNoMore
<1> QED  BY <1>2, <1>3

LEMMA AbsorbShort ==
    ASSUME FundTypeOK, airdropFee \in 0 .. PreciseUnit, NEW tokens \in SUBSET Component,
           AbsorbAll(tokens)
    PROVE  FundTypeOK' /\ \A c \in Component : shortfall(c)' <= shortfall(c)
<1>1. /\ FundTypeOK' /\ UNCHANGED <<totalSupply, positionMultiplier>>
      /\ \A c \in Component :
           \/ virtualUnit'[c] = virtualUnit[c] /\ balance'[c] = balance[c]
           \/ virtualUnit'[c] * positionMultiplier * totalSupply
                <= balance'[c] * PreciseUnit * PreciseUnit
  BY AbsorbedComponent
<1>2. ASSUME NEW c \in Component
      PROVE  shortfall(c)' <= shortfall(c)
  <2>1. CASE virtualUnit'[c] = virtualUnit[c] /\ balance'[c] = balance[c]
    <3>1. Owed(c)' = Owed(c) /\ Held(c)' = Held(c)
      BY <1>1, <2>1 DEF Owed, Held
    <3>2. Owed(c)' - Owed(c) <= Held(c)' - Held(c)
      BY <3>1, OwedAndHeld
    <3> QED  BY <1>1, <3>2, ShortNoMore
  <2>2. CASE virtualUnit'[c] * positionMultiplier * totalSupply
               <= balance'[c] * PreciseUnit * PreciseUnit
    <3>1. Owed(c)' <= Held(c)'
      BY <1>1, <2>2 DEF Owed, Held
    <3> QED  BY <1>1, <3>1, ShortNoMore
  <2> QED  BY <1>1, <2>1, <2>2
<1> QED  BY <1>1, <1>2

-----------------------------------------------------------------------------
(* StreamingFeeModule *)

\* The inductive invariant of FeeSpec.
FeeInv ==
    /\ FundTypeOK
    /\ streamingFeePercentage \in Nat
    /\ now \in Nat /\ lastStreamingFeeTimestamp \in Nat
    /\ lastStreamingFeeTimestamp <= now

\* The fee and what it mints, at any supply.
LEMMA FeeBounds ==
    ASSUME FeeInv
    PROVE  /\ calculateStreamingFee \in Nat
           /\ streamingFeePercentage = 0 => calculateStreamingFee = 0
<1> DEFINE charged == (now - lastStreamingFeeTimestamp) * streamingFeePercentage
<1>1. charged \in Nat /\ (streamingFeePercentage = 0 => charged = 0)
  BY DEF FeeInv
<1> HIDE DEF charged
<1> QED  BY <1>1, FloorBounds, FloorSign, OneYearAssumption DEF calculateStreamingFee, charged

LEMMA InflationBounds ==
    ASSUME NEW supply \in Nat, NEW fee \in Nat, fee < PreciseUnit
    PROVE  LET minted == (fee * supply) \div (PreciseUnit - fee)
           IN  /\ minted \in Nat
               /\ minted * PreciseUnit <= fee * (supply + minted)
               /\ (minted + 1) * PreciseUnit > fee * (supply + minted + 1)
<1> DEFINE a == fee * supply
           b == PreciseUnit - fee
           x == a \div b
<1>1. a \in Nat /\ b \in Nat \ {0}
  BY PreciseUnitAssumption
<1> HIDE DEF a, b
<1>2. x \in Nat /\ b * x <= a /\ a < b * x + b
  BY <1>1, FloorBounds, FloorSign
<1> HIDE DEF x
<1>3. (PreciseUnit - fee) * x <= fee * supply
  BY <1>2 DEF a, b
<1>4. fee * supply < (PreciseUnit - fee) * x + (PreciseUnit - fee)
  BY <1>2 DEF a, b
<1>5. /\ (PreciseUnit - fee) * x = PreciseUnit * x - fee * x
      /\ fee * (supply + x) = fee * supply + fee * x
      /\ fee * (supply + x + 1) = fee * supply + fee * x + fee
      /\ (x + 1) * PreciseUnit = PreciseUnit * x + PreciseUnit
      /\ x * PreciseUnit = PreciseUnit * x
  BY <1>2, PreciseUnitAssumption
<1>6. /\ PreciseUnit * x \in Int /\ fee * x \in Int /\ fee * supply \in Int
  BY <1>2, PreciseUnitAssumption
<1>7. x * PreciseUnit <= fee * (supply + x)
  BY <1>3, <1>5, <1>6, PreciseUnitAssumption
<1>8. (x + 1) * PreciseUnit > fee * (supply + x + 1)
  BY <1>4, <1>5, <1>6, PreciseUnitAssumption
<1> QED  BY <1>2, <1>7, <1>8 DEF x, a, b

LEMMA MultiplierBounds ==
    ASSUME FundTypeOK, NEW fee \in Nat, fee < PreciseUnit
    PROVE  /\ newMultiplier(fee) \in Nat
           /\ PreciseUnit * newMultiplier(fee) <= positionMultiplier * (PreciseUnit - fee)
<1> DEFINE a == positionMultiplier * (PreciseUnit - fee)
<1>1. a \in Nat
  BY PreciseUnitAssumption DEF FundTypeOK
<1>2. newMultiplier(fee) = a \div PreciseUnit
  BY <1>1 DEF newMultiplier, preciseMulInt, truncDiv
<1> HIDE DEF a
<1>3. newMultiplier(fee) \in Nat /\ PreciseUnit * newMultiplier(fee) <= a
  BY <1>1, <1>2, FloorBounds, FloorSign, PreciseUnitAssumption
<1> QED  BY <1>3 DEF a

\* A valid multiplier is not zero: a position with it would vanish.
LEMMA ValidMultiplierPositive ==
    ASSUME FundTypeOK, NEW m \in Nat, IsValidMultiplier(m)
    PROVE  m \in Nat \ {0}
<1>1. PICK c \in Component : virtualUnit[c] > 0 /\ conservativePreciseMul(virtualUnit[c], m) > 0
  BY DEF IsValidMultiplier
<1>2. virtualUnit[c] \in Int
  BY DEF FundTypeOK
<1>3. CASE m = 0
  <2>1. conservativePreciseMul(virtualUnit[c], 0) = (virtualUnit[c] * 0) \div PreciseUnit
    <3>1. 0 \in Int
      OBVIOUS
    <3>2. \A a, b \in Int : conservativePreciseMul(a, b) = (a * b) \div PreciseUnit
      BY ConservativeMul
    <3> QED  BY <1>2, <3>1, <3>2
  <2>2. virtualUnit[c] * 0 = 0 /\ 0 \div PreciseUnit = 0
    BY <1>2, PreciseUnitAssumption
  <2> QED  BY <1>1, <1>3, <2>1, <2>2
<1> QED  BY <1>3

LEMMA AccruedStep ==
    ASSUME FeeInv, Accrued
    PROVE  /\ FundTypeOK'
           /\ totalSupply' * positionMultiplier' <= totalSupply * positionMultiplier
<1>1. totalSupply \in Nat /\ positionMultiplier \in Nat \ {0} /\ FundTypeOK
  BY DEF FeeInv, FundTypeOK
<1>2. CASE streamingFeePercentage = 0
  BY <1>1, <1>2 DEF Accrued, fundVars, FundTypeOK
<1>3. CASE streamingFeePercentage # 0
  <2> DEFINE fee == calculateStreamingFee
             x == (fee * totalSupply) \div (PreciseUnit - fee)
             m == newMultiplier(fee)
  <2>1. /\ fee < PreciseUnit /\ IsValidMultiplier(m)
        /\ totalSupply' = totalSupply + x /\ positionMultiplier' = m
        /\ UNCHANGED <<balance, virtualUnit>>
    BY <1>3 DEF Accrued, calculateStreamingFeeInflation
  <2>2. fee \in Nat
    BY FeeBounds
  <2> HIDE DEF fee
  <2>3. x \in Nat /\ x * PreciseUnit <= fee * (totalSupply + x)
    BY <1>1, <2>1, <2>2, InflationBounds
  <2>4. m \in Nat /\ PreciseUnit * m <= positionMultiplier * (PreciseUnit - fee)
    BY <1>1, <2>1, <2>2, MultiplierBounds
  <2>5. m \in Nat \ {0}
    BY <1>1, <2>1, <2>4, ValidMultiplierPositive
  <2> HIDE DEF x, m
  <2>6. FundTypeOK'
    BY <1>1, <2>1, <2>3, <2>5 DEF FundTypeOK
  <2> DEFINE T == totalSupply + x
  <2>7. T \in Nat /\ T * PreciseUnit - fee * T <= totalSupply * PreciseUnit
    BY <1>1, <2>2, <2>3, PreciseUnitAssumption
  <2> HIDE DEF T
  <2>8. T * (PreciseUnit - fee) <= totalSupply * PreciseUnit
    BY <2>2, <2>7, PreciseUnitAssumption
  <2>9. T * (PreciseUnit * m) <= T * (positionMultiplier * (PreciseUnit - fee))
    BY <1>1, <2>1, <2>2, <2>4, <2>7, PreciseUnitAssumption
  <2>10. positionMultiplier * (T * (PreciseUnit - fee))
           <= positionMultiplier * (totalSupply * PreciseUnit)
    BY <1>1, <2>2, <2>7, <2>8, PreciseUnitAssumption
  <2>11. PreciseUnit * (T * m) <= PreciseUnit * (totalSupply * positionMultiplier)
    BY <1>1, <2>2, <2>4, <2>7, <2>9, <2>10, PreciseUnitAssumption
  <2>12. T * m \in Nat /\ totalSupply * positionMultiplier \in Nat
    BY <1>1, <2>4, <2>7
  <2>13. T * m <= totalSupply * positionMultiplier
    BY <2>11, <2>12, PreciseUnitAssumption
  <2> QED  BY <2>1, <2>6, <2>13 DEF T
<1> QED  BY <1>2, <1>3

LEMMA FeeStep ==
    ASSUME FeeInv, [FeeNext /\ Bounded]_portfolioVars
    PROVE  /\ FeeInv'
           /\ positionMultiplier' # positionMultiplier =>
                totalSupply' * positionMultiplier' <= totalSupply * positionMultiplier
<1>1. FundTypeOK
  BY DEF FeeInv
<1>2. CASE IssuanceNext
  <2>1. PICK quantity \in Quantities : Issue(quantity) \/ Redeem(quantity)
    BY <1>2 DEF IssuanceNext
  <2>2. quantity \in Nat /\ UNCHANGED feeVars
    BY <1>2, PortfolioAssumption DEF IssuanceNext
  <2>3. FundTypeOK' /\ UNCHANGED positionMultiplier
    BY <1>1, <2>1, <2>2, IssueShort, RedeemShort DEF Issue, Redeem
  <2> QED  BY <2>2, <2>3 DEF FeeInv, feeVars
<1>3. CASE ReceiveNext
  <2>1. PICK c \in Component, quantity \in 1 .. MaxGiven : Receive(c, quantity)
    BY <1>3 DEF ReceiveNext
  <2>2. quantity \in Nat
    BY PortfolioAssumption
  <2> QED  BY <1>1, <1>3, <2>1, <2>2 DEF ReceiveNext, Receive, FeeInv, FundTypeOK, feeVars
<1>4. CASE StreamingFeeNext
  <2>1. CASE AccrueFee
    BY <2>1, AccruedStep DEF AccrueFee, FeeInv
  <2>2. ASSUME NEW fee \in Fees, UpdateStreamingFee(fee)
        PROVE  FeeInv' /\ totalSupply' * positionMultiplier' <= totalSupply * positionMultiplier
    BY <2>2, AccruedStep, PortfolioAssumption DEF UpdateStreamingFee, BeforeNewFee, FeeInv
  <2>3. ASSUME NEW maxFee \in Fees, NEW fee \in Fees, InitializeStreamingFee(maxFee, fee)
        PROVE  FeeInv' /\ UNCHANGED positionMultiplier
    BY <1>1, <2>3, PortfolioAssumption
    DEF InitializeStreamingFee, FeeInv, FundTypeOK, fundVars
  <2>4. CASE RemoveStreamingFee
    BY <1>1, <2>4 DEF RemoveStreamingFee, FeeInv, FundTypeOK, fundVars
  <2> QED  BY <1>4, <2>1, <2>2, <2>3, <2>4 DEF StreamingFeeNext
<1>5. CASE TickNext
  BY <1>1, <1>5 DEF TickNext, Tick, FeeInv, FundTypeOK, fundVars, feeStateVars
<1>6. CASE UNCHANGED portfolioVars
  BY <1>1, <1>6 DEF portfolioVars, FeeInv, FundTypeOK, fundVars, feeVars
<1> QED  BY <1>2, <1>3, <1>4, <1>5, <1>6 DEF FeeNext

LEMMA FeeInit ==
    ASSUME Init
    PROVE  FeeInv
<1>1. FundTypeOK
  BY PlainInit DEF PlainInv
<1>2. now = 0 /\ lastStreamingFeeTimestamp = 0 /\ streamingFeePercentage = 0
  BY DEF Init, StreamingFeeInit
<1> QED  BY <1>1, <1>2 DEF FeeInv

THEOREM FeeInvariant == FeeSpec => []FeeInv
<1>1. Init => FeeInv
  BY FeeInit
<1>2. FeeInv /\ [FeeNext /\ Bounded]_portfolioVars => FeeInv'
  BY FeeStep
<1> QED  BY <1>1, <1>2, PTL DEF FeeSpec

\* What the CKToken owes all holders together, in virtual units, does not grow with
\* an accrual (accrueFee, updateStreamingFee): the dilution is the fee and no more.
THEOREM AccrualNeverOwesMore == FeeSpec => AccrualOwesNoMore
<1>1. FeeInv /\ [FeeNext /\ Bounded]_portfolioVars =>
        [ positionMultiplier' # positionMultiplier =>
            totalSupply' * positionMultiplier' <= totalSupply * positionMultiplier ]_AllVars
  BY FeeStep
<1> QED  BY <1>1, FeeInvariant, PTL DEF FeeSpec, AccrualOwesNoMore

LEMMA AccruedShare ==
    ASSUME FeeInv, feeInitialized, AccrueFee
    PROVE  LET fee == calculateStreamingFee
               minted == totalSupply' - totalSupply
           IN  /\ minted * PreciseUnit <= fee * totalSupply'
               /\ (minted + 1) * PreciseUnit > fee * (totalSupply' + 1)
<1> DEFINE fee == calculateStreamingFee
<1>1. fee \in Nat /\ (streamingFeePercentage = 0 => fee = 0) /\ totalSupply \in Nat
  BY FeeBounds DEF FeeInv, FundTypeOK
<1>2. CASE streamingFeePercentage = 0
  <2>1. totalSupply' = totalSupply
    BY <1>2 DEF AccrueFee, Accrued, fundVars
  <2> HIDE DEF fee
  <2>2. 0 * PreciseUnit <= fee * totalSupply /\ (0 + 1) * PreciseUnit > fee * (totalSupply + 1)
    BY <1>1, <1>2, PreciseUnitAssumption
  <2>3. totalSupply' - totalSupply = 0
    BY <1>1, <2>1
  <2> QED  BY <2>1, <2>2, <2>3 DEF fee
<1>3. CASE streamingFeePercentage # 0
  <2> DEFINE x == (fee * totalSupply) \div (PreciseUnit - fee)
  <2>1. fee < PreciseUnit /\ totalSupply' = totalSupply + x
    BY <1>3 DEF AccrueFee, Accrued, calculateStreamingFeeInflation
  <2> HIDE DEF fee
  <2>2. /\ x \in Nat
        /\ x * PreciseUnit <= fee * (totalSupply + x)
        /\ (x + 1) * PreciseUnit > fee * (totalSupply + x + 1)
    BY <1>1, <2>1, InflationBounds
  <2> HIDE DEF x
  <2>3. totalSupply' - totalSupply = x
    BY <1>1, <2>1, <2>2
  <2> QED  BY <2>1, <2>2, <2>3 DEF fee
<1> QED  BY <1>2, <1>3

\* The recipients of an accrued fee (accrueFee) own the fee percentage of the new
\* supply, rounded down to the unit.
THEOREM FeeShareIsExact == FeeSpec => FeeShareExact
<1>1. FeeInv /\ [FeeNext /\ Bounded]_portfolioVars =>
        [ \A fee \in 0 .. PreciseUnit - 1 :
            feeInitialized /\ fee = calculateStreamingFee /\ AccrueFee =>
              LET minted == totalSupply' - totalSupply
              IN  /\ minted * PreciseUnit <= fee * totalSupply'
                  /\ (minted + 1) * PreciseUnit > fee * (totalSupply' + 1) ]_AllVars
  BY AccruedShare
<1> QED  BY <1>1, FeeInvariant, PTL DEF FeeSpec, FeeShareExact

-----------------------------------------------------------------------------
(* Accruing often, and changing the rate *)

\* The supply after an accrual is no more than the fee leaves room for.
LEMMA GrownSupply ==
    ASSUME NEW supply \in Nat, NEW fee \in Nat, fee < PreciseUnit
    PROVE  LET grown == supply + (fee * supply) \div (PreciseUnit - fee)
           IN  /\ grown \in Nat
               /\ (PreciseUnit - fee) * grown <= PreciseUnit * supply
<1> DEFINE x == (fee * supply) \div (PreciseUnit - fee)
<1>1. x \in Nat /\ x * PreciseUnit <= fee * (supply + x)
  BY InflationBounds
<1> HIDE DEF x
<1>2. /\ (PreciseUnit - fee) * (supply + x) = PreciseUnit * supply + PreciseUnit * x - fee * (supply + x)
      /\ x * PreciseUnit = PreciseUnit * x
  BY <1>1, PreciseUnitAssumption
<1>3. PreciseUnit * supply \in Int /\ PreciseUnit * x \in Int /\ fee * (supply + x) \in Int
  BY <1>1, PreciseUnitAssumption
<1>4. (PreciseUnit - fee) * (supply + x) <= PreciseUnit * supply
  BY <1>1, <1>2, <1>3
<1> QED  BY <1>1, <1>4 DEF x

LEMMA TwoAccruals ==
    ASSUME NEW supply \in Nat, NEW first \in Nat, NEW second \in Nat,
           first + second < PreciseUnit
    PROVE  LET between == supply + (first * supply) \div (PreciseUnit - first)
           IN  between + (second * between) \div (PreciseUnit - second)
                 <= supply + ((first + second) * supply) \div (PreciseUnit - (first + second))
<1> DEFINE p       == PreciseUnit
           both    == first + second
           between == supply + (first * supply) \div (p - first)
           after   == between + (second * between) \div (p - second)
<1>1. p \in Nat \ {0} /\ first < p /\ second < p /\ both \in Nat /\ both < p
  BY PreciseUnitAssumption
<1>2. between \in Nat /\ (p - first) * between <= p * supply
  BY <1>1, GrownSupply
<1> HIDE DEF between
<1>3. after \in Nat /\ (p - second) * after <= p * between
  BY <1>1, <1>2, GrownSupply
<1> HIDE DEF after, p, both
<1> DEFINE a == p - first
           b == p - second
<1>4. a \in Nat \ {0} /\ b \in Nat \ {0} /\ p - both \in Nat
  BY <1>1
<1>5. a * (b * after) <= a * (p * between) /\ p * (a * between) <= p * (p * supply)
  BY <1>1, <1>2, <1>3, <1>4
<1>6. a * (p * between) = p * (a * between)
  BY <1>1, <1>2, <1>4
<1>7. a * (b * after) <= p * (p * supply)
  <2>1. /\ a * (b * after) \in Int /\ a * (p * between) \in Int
        /\ p * (a * between) \in Int /\ p * (p * supply) \in Int
    BY <1>1, <1>2, <1>3, <1>4
  <2> QED  BY <1>5, <1>6, <2>1
<1>8. a * b = p * (p - both) + first * second
  BY <1>1 DEF both
<1>9. p * (p - both) <= a * b
  <2>1. first * second \in Nat /\ p * (p - both) \in Int
    BY <1>1, <1>4
  <2> QED  BY <1>8, <2>1
<1> HIDE DEF a, b
<1>10. p * ((p - both) * after) <= p * (p * supply)
  <2>1. a * b \in Nat /\ p * (p - both) \in Nat
    BY <1>1, <1>4
  <2>2. (p * (p - both)) * after <= (a * b) * after
    BY <1>3, <1>9, <2>1
  <2>3. /\ (a * b) * after = a * (b * after)
        /\ (p * (p - both)) * after = p * ((p - both) * after)
    BY <1>1, <1>3, <1>4
  <2>4. /\ p * ((p - both) * after) \in Int /\ a * (b * after) \in Int
        /\ p * (p * supply) \in Int
    BY <1>1, <1>3, <1>4
  <2> QED  BY <1>7, <2>2, <2>3, <2>4
<1>11. (p - both) * after <= p * supply
  <2>1. (p - both) * after \in Nat /\ p * supply \in Nat
    BY <1>1, <1>3, <1>4
  <2> QED  BY <1>1, <1>10, <2>1
<1>12. (p - both) * (after - supply) <= both * supply
  <2>1. /\ (p - both) * (after - supply) = (p - both) * after - (p - both) * supply
        /\ (p - both) * supply = p * supply - both * supply
    BY <1>1, <1>3, <1>4
  <2>2. (p - both) * after \in Int /\ p * supply \in Int /\ both * supply \in Int
    BY <1>1, <1>3, <1>4
  <2> QED  BY <1>11, <2>1, <2>2
<1>13. after - supply <= (both * supply) \div (p - both)
  <2>1. both * supply \in Int /\ p - both \in Nat \ {0} /\ after - supply \in Int
    BY <1>1, <1>3
  <2> QED  BY <1>12, <2>1, FloorIsGreatest
<1>14. after <= supply + (both * supply) \div (p - both)
  <2>1. both * supply \in Int /\ p - both \in Nat \ {0}
    BY <1>1
  <2>2. (both * supply) \div (p - both) \in Int
    BY <2>1, FloorBounds
  <2> QED  BY <1>3, <1>13, <2>2
<1> QED  BY <1>14 DEF after, between, both, p

LEMMA OftenIsNoDearer ==
    ASSUME FeeInv
    PROVE  AccruingOftenCostsNoMore
<1> SUFFICES ASSUME NEW first \in 0 .. PreciseUnit - 1, NEW second \in 0 .. PreciseUnit - 1,
                    first + second < PreciseUnit
             PROVE  LET between == totalSupply + calculateStreamingFeeInflation(first)
                    IN  between + (second * between) \div (PreciseUnit - second)
                        <= totalSupply + calculateStreamingFeeInflation(first + second)
  BY DEF AccruingOftenCostsNoMore
<1>1. totalSupply \in Nat /\ first \in Nat /\ second \in Nat
  BY PreciseUnitAssumption DEF FeeInv, FundTypeOK
<1> QED  BY <1>1, TwoAccruals DEF calculateStreamingFeeInflation

\* Whoever accrues a fee in two steps, at any supply and for any two parts of it,
\* mints no more than one accrual of the whole (_calculateStreamingFeeInflation).
THEOREM AccruingOftenIsNoDearer == FeeSpec => []AccruingOftenCostsNoMore
BY OftenIsNoDearer, FeeInvariant, PTL

LEMMA RateStep ==
    ASSUME StreamingFeeNext, streamingFeePercentage' # streamingFeePercentage, feeInitialized'
    PROVE  lastStreamingFeeTimestamp' = now
BY DEF StreamingFeeNext, AccrueFee, InitializeStreamingFee, UpdateStreamingFee,
       BeforeNewFee, RemoveStreamingFee

\* No rate charges the time before it was set, through updateStreamingFee, a
\* removal and a second initialization.
THEOREM RateChangesAccrue == FeeSpec => RateChangeAccrues
<1>1. [FeeNext /\ Bounded]_portfolioVars =>
        [ streamingFeePercentage' # streamingFeePercentage /\ feeInitialized'
          => lastStreamingFeeTimestamp' = now ]_AllVars
  <2> SUFFICES ASSUME [FeeNext /\ Bounded]_portfolioVars,
                      streamingFeePercentage' # streamingFeePercentage, feeInitialized'
               PROVE  lastStreamingFeeTimestamp' = now
    OBVIOUS
  <2>1. StreamingFeeNext
    BY DEF FeeNext, IssuanceNext, ReceiveNext, TickNext, Tick, portfolioVars, feeVars, feeStateVars
  <2> QED  BY <2>1, RateStep
<1> QED  BY <1>1, PTL DEF FeeSpec, RateChangeAccrues

-----------------------------------------------------------------------------
(* AirdropModule's array and mapping *)

\* Inductive: a module that is removed leaves nothing behind.
AirdropInv ==
    /\ airdrops \in Seq(Component)
    /\ isAirdrop \in [Component -> BOOLEAN]
    /\ AirdropListExact
    /\ ~airdropInitialized => airdrops = <<>>

LEMMA EmptyList ==
    /\ <<>> \in Seq(Component)
    /\ ~hasDuplicate(<<>>)
    /\ \A x : ~contains(<<>>, x)
BY DEF hasDuplicate, contains

LEMMA AirdropListStep ==
    ASSUME AirdropInv, AirdropNext \/ UNCHANGED airdropVars
    PROVE  AirdropInv'
<1>1. ASSUME UNCHANGED <<airdropInitialized, airdrops, isAirdrop>>
      PROVE  AirdropInv'
  BY <1>1 DEF AirdropInv, AirdropListExact
<1>2. CASE UNCHANGED airdropVars
  BY <1>1, <1>2 DEF airdropVars
<1>3. CASE AirdropNext
  <2>1. ASSUME NEW tokens \in SUBSET Component, BatchAbsorb(tokens)
        PROVE  AirdropInv'
    BY <1>1, <2>1 DEF BatchAbsorb, airdropVars
  <2>2. ASSUME NEW c \in Component, AddAirdrop(c)
        PROVE  AirdropInv'
    <3>1. ~contains(airdrops, c)
      BY <2>2 DEF AddAirdrop, AirdropInv, AirdropListExact
    <3>2. /\ airdrops' \in Seq(Component)
          /\ ~hasDuplicate(airdrops')
          /\ \A x : contains(airdrops', x) <=> contains(airdrops, x) \/ x = c
      BY <2>2, <3>1, AppendNew DEF AddAirdrop, AirdropInv, AirdropListExact
    <3> QED  BY <2>2, <3>2 DEF AddAirdrop, AirdropInv, AirdropListExact
  <2>3. ASSUME NEW c \in Component, RemoveAirdrop(c)
        PROVE  AirdropInv'
    <3>1. /\ airdrops' \in Seq(Component)
          /\ ~hasDuplicate(airdrops')
          /\ \A x : contains(airdrops', x) <=> contains(airdrops, x) /\ x # c
      BY <2>3, RemoveStorage DEF RemoveAirdrop, AirdropInv, AirdropListExact
    <3> QED  BY <2>3, <3>1 DEF RemoveAirdrop, AirdropInv, AirdropListExact
  <2>4. ASSUME NEW fee \in Fees, UpdateAirdropFee(fee)
        PROVE  AirdropInv'
    BY <1>1, <2>4 DEF UpdateAirdropFee
  <2>5. ASSUME NEW fee \in Fees, NEW list \in {<<>>} \union {<<c>> : c \in Component},
               InitializeAirdrop(list, fee)
        PROVE  AirdropInv'
    <3>1. list \in Seq(Component)
      <4>1. CASE list = <<>>
        BY <4>1
      <4>2. ASSUME NEW c \in Component, list = <<c>>
            PROVE  list \in Seq(Component)
        BY <4>2
      <4> QED  BY <2>5, <4>1, <4>2
    <3>2. \A c \in Component : ~isAirdrop[c]
      BY <2>5, EmptyList DEF InitializeAirdrop, AirdropInv, AirdropListExact
    <3>3. \A c \in Component : contains(list, c) \in BOOLEAN
      BY DEF contains
    <3>4. /\ airdrops' = list /\ airdropInitialized' = TRUE /\ ~hasDuplicate(list)
          /\ isAirdrop' = [c \in Component |-> contains(list, c) \/ isAirdrop[c]]
      BY <2>5 DEF InitializeAirdrop
    <3> QED  BY <3>1, <3>2, <3>3, <3>4 DEF AirdropInv, AirdropListExact
  <2>6. ASSUME RemoveAirdropModule
        PROVE  AirdropInv'
    <3>1. \A c \in Component : isAirdrop'[c] = FALSE
      BY <2>6 DEF RemoveAirdropModule, ClearedAirdrops, AirdropInv, AirdropListExact
    <3>2. isAirdrop' \in [Component -> BOOLEAN]
      BY <2>6 DEF RemoveAirdropModule, ClearedAirdrops, AirdropInv
    <3> QED  BY <2>6, <3>1, <3>2, EmptyList
             DEF RemoveAirdropModule, AirdropInv, AirdropListExact
  <2> QED  BY <1>3, <2>1, <2>2, <2>3, <2>4, <2>5, <2>6 DEF AirdropNext
<1> QED  BY <1>2, <1>3

LEMMA AirdropListInit ==
    ASSUME AirdropInit
    PROVE  AirdropInv
BY EmptyList DEF AirdropInit, AirdropInv, AirdropListExact

\* The array that updateAirdropFee walks and the mapping that absorb asks agree,
\* through adding, removing and re-initializing the module.
THEOREM AirdropListsAgree == PlainSpec => []AirdropListExact
<1>1. Init => AirdropInv
  BY AirdropListInit DEF Init
<1>2. AirdropInv /\ [PlainNext /\ Bounded]_portfolioVars => AirdropInv'
  <2>1. [PlainNext /\ Bounded]_portfolioVars => AirdropNext \/ UNCHANGED airdropVars
    BY DEF PlainNext, IssuanceNext, TradeNext, ReceiveNext, portfolioVars, airdropVars
  <2> QED  BY <2>1, AirdropListStep
<1>3. AirdropInv => AirdropListExact
  BY DEF AirdropInv
<1> QED  BY <1>1, <1>2, <1>3, PTL DEF PlainSpec
-----------------------------------------------------------------------------
(* All modules next to each other *)

\* Inductive, in any order of the modules' transactions.
FundInv == FeeInv /\ airdropFee \in 0 .. PreciseUnit

\* The action of ShortOnlyByIssues.
ShortStep ==
    \A c \in Component :
        shortfall(c)' <= shortfall(c)
          + IF totalSupply' > totalSupply /\ positionMultiplier' = positionMultiplier
            THEN (totalSupply' - totalSupply) * PreciseUnit ELSE 0

LEMMA NaturalRise ==
    ASSUME NEW a \in Nat, NEW b \in Nat, b > a, NEW p \in Nat
    PROVE  (b - a) * p \in Nat
<1>1. b - a \in Nat
  OBVIOUS
<1> QED  BY <1>1

LEMMA NoMoreIsShortStep ==
    ASSUME FundTypeOK, FundTypeOK', \A c \in Component : shortfall(c)' <= shortfall(c)
    PROVE  ShortStep
<1> SUFFICES ASSUME NEW c \in Component
             PROVE  shortfall(c)' <= shortfall(c)
                      + IF totalSupply' > totalSupply /\ positionMultiplier' = positionMultiplier
                        THEN (totalSupply' - totalSupply) * PreciseUnit ELSE 0
  BY DEF ShortStep
<1>1. shortfall(c) \in Int /\ shortfall(c)' \in Int /\ shortfall(c)' <= shortfall(c)
  BY OwedAndHeld, OwedAndHeldAfter
<1>2. totalSupply \in Nat /\ totalSupply' \in Nat /\ PreciseUnit \in Nat
  BY PreciseUnitAssumption DEF FundTypeOK
<1>3. CASE totalSupply' > totalSupply
  <2>1. (totalSupply' - totalSupply) * PreciseUnit \in Nat
    BY <1>2, <1>3, NaturalRise
  <2> QED  BY <1>1, <2>1
<1>4. CASE ~(totalSupply' > totalSupply)
  BY <1>1, <1>4
<1> QED  BY <1>3, <1>4

LEMMA UnchangedShort ==
    ASSUME FundTypeOK, UNCHANGED fundVars
    PROVE  FundTypeOK' /\ \A c \in Component : shortfall(c)' <= shortfall(c)
<1>1. FundTypeOK'
  BY DEF fundVars, FundTypeOK
<1>2. \A c \in Component : Owed(c)' = Owed(c) /\ Held(c)' = Held(c)
  BY DEF fundVars, Owed, Held
<1>3. \A c \in Component : Owed(c)' - Owed(c) <= Held(c)' - Held(c)
  BY <1>2, OwedAndHeld
<1> QED  BY <1>1, <1>3, ShortNoMore

\* An accrual lowers what is owed of every component.
LEMMA AccruedShort ==
    ASSUME FeeInv, Accrued
    PROVE  FundTypeOK' /\ \A c \in Component : shortfall(c)' <= shortfall(c)
<1>1. /\ FundTypeOK /\ FundTypeOK'
      /\ totalSupply' * positionMultiplier' <= totalSupply * positionMultiplier
  BY AccruedStep DEF FeeInv
<1>2. UNCHANGED <<balance, virtualUnit>>
  BY DEF Accrued, fundVars
<1>3. ASSUME NEW c \in Component
      PROVE  shortfall(c)' <= shortfall(c)
  <2> DEFINE x == totalSupply * positionMultiplier
             y == totalSupply' * positionMultiplier'
  <2>1. virtualUnit[c] \in Nat /\ x \in Nat /\ y \in Nat /\ y <= x
    <3>1. /\ virtualUnit[c] \in Nat /\ totalSupply \in Nat /\ positionMultiplier \in Nat
          /\ totalSupply' \in Nat /\ positionMultiplier' \in Nat
      BY <1>1 DEF FundTypeOK
    <3>2. \A a, b \in Nat : a * b \in Nat
      OBVIOUS
    <3>3. x \in Nat /\ y \in Nat
      BY <3>1, <3>2
    <3> QED  BY <1>1, <3>1, <3>3
  <2>2. Owed(c) = virtualUnit[c] * x /\ Owed(c)' = virtualUnit[c] * y /\ Held(c)' = Held(c)
    BY <1>1, <1>2 DEF FundTypeOK, Owed, Held
  <2> HIDE DEF x, y
  <2>3. virtualUnit[c] * y <= virtualUnit[c] * x
    BY <2>1
  <2>4. Owed(c)' - Owed(c) <= Held(c)' - Held(c)
    BY <1>1, <2>2, <2>3, OwedAndHeld, OwedAndHeldAfter
  <2> QED  BY <1>1, <2>4, ShortNoMore
<1> QED  BY <1>1, <1>3

LEMMA AirdropShort ==
    ASSUME FundInv, AirdropNext
    PROVE  FundInv' /\ \A c \in Component : shortfall(c)' <= shortfall(c)
<1>1. UNCHANGED feeVars /\ FundTypeOK /\ PreciseUnit \in Nat
  BY PreciseUnitAssumption DEF AirdropNext, FundInv, FeeInv
<1>2. airdropFee' \in 0 .. PreciseUnit
  <2>1. \A fee \in Fees : fee \in Nat
    BY PortfolioAssumption
  <2> QED  BY <1>1, <2>1
           DEF AirdropNext, BatchAbsorb, AddAirdrop, RemoveAirdrop, UpdateAirdropFee,
               InitializeAirdrop, RemoveAirdropModule, airdropVars, FundInv
<1>3. FundTypeOK' /\ \A c \in Component : shortfall(c)' <= shortfall(c)
  <2>1. CASE UNCHANGED fundVars
    BY <1>1, <2>1, UnchangedShort
  <2>2. ASSUME NEW tokens \in SUBSET Component, AbsorbAll(tokens)
        PROVE  FundTypeOK' /\ \A c \in Component : shortfall(c)' <= shortfall(c)
    BY <1>1, <2>2, AbsorbShort DEF FundInv
  <2>3. TokensToAbsorb \in SUBSET Component
    BY DEF TokensToAbsorb
  <2> QED  BY <2>1, <2>2, <2>3
           DEF AirdropNext, BatchAbsorb, AddAirdrop, RemoveAirdrop, UpdateAirdropFee,
               InitializeAirdrop, RemoveAirdropModule
<1> QED  BY <1>1, <1>2, <1>3 DEF FundInv, FeeInv, feeVars

\* A step of any module but the one that issues at net asset value.
LEMMA FundStep ==
    ASSUME FundInv, PlainNext \/ FeeNext, Bounded
    PROVE  /\ FundInv' /\ ShortStep
           /\ positionMultiplier' # positionMultiplier =>
                totalSupply' * positionMultiplier' <= totalSupply * positionMultiplier
<1>1. FundTypeOK /\ FeeInv
  BY DEF FundInv, FeeInv
<1>2. CASE IssuanceNext
  <2>1. PICK quantity \in Quantities : Issue(quantity) \/ Redeem(quantity)
    BY <1>2 DEF IssuanceNext
  <2>2. quantity \in Nat /\ UNCHANGED feeVars /\ UNCHANGED airdropFee
    BY <1>2, PortfolioAssumption DEF IssuanceNext, airdropVars
  <2>3. UNCHANGED positionMultiplier
    BY <2>1 DEF Issue, Redeem
  <2>4. CASE Issue(quantity)
    <3>1. /\ FundTypeOK'
          /\ totalSupply' - totalSupply = quantity /\ totalSupply' > totalSupply
          /\ \A c \in Component : shortfall(c)' <= shortfall(c) + quantity * PreciseUnit
      BY <1>1, <2>2, <2>4, IssueShort
    <3>2. ShortStep
      BY <2>3, <3>1 DEF ShortStep
    <3> QED  BY <1>1, <2>2, <2>3, <3>1, <3>2 DEF FundInv, FeeInv, feeVars
  <2>5. CASE Redeem(quantity)
    <3>1. FundTypeOK' /\ \A c \in Component : shortfall(c)' <= shortfall(c)
      BY <1>1, <2>2, <2>5, RedeemShort
    <3> QED  BY <1>1, <2>2, <2>3, <3>1, NoMoreIsShortStep DEF FundInv, FeeInv, feeVars
  <2> QED  BY <2>1, <2>4, <2>5
<1>3. CASE TradeNext
  <2>1. /\ FundTypeOK' /\ \A c \in Component : shortfall(c)' <= shortfall(c)
        /\ UNCHANGED positionMultiplier
    BY <1>1, <1>3, TradeNextMoves, MovesShort DEF Moves, UpdatePositions
  <2>2. UNCHANGED feeVars /\ UNCHANGED airdropFee
    BY <1>3 DEF TradeNext, airdropVars
  <2> QED  BY <1>1, <2>1, <2>2, NoMoreIsShortStep DEF FundInv, FeeInv, feeVars
<1>4. CASE ReceiveNext
  <2>1. PICK c \in Component, quantity \in 1 .. MaxGiven : Receive(c, quantity)
    BY <1>4 DEF ReceiveNext
  <2>2. quantity \in Nat /\ UNCHANGED positionMultiplier
    BY <2>1, PortfolioAssumption DEF Receive
  <2>3. FundTypeOK' /\ \A d \in Component : shortfall(d)' <= shortfall(d)
    BY <1>1, <2>1, <2>2, ReceiveShort
  <2>4. UNCHANGED feeVars /\ UNCHANGED airdropFee
    BY <1>4 DEF ReceiveNext, airdropVars
  <2> QED  BY <1>1, <2>2, <2>3, <2>4, NoMoreIsShortStep DEF FundInv, FeeInv, feeVars
<1>5. CASE AirdropNext
  <2>1. FundInv' /\ \A c \in Component : shortfall(c)' <= shortfall(c)
    BY <1>5, AirdropShort
  <2>2. UNCHANGED positionMultiplier
    BY <1>5
    DEF AirdropNext, BatchAbsorb, AbsorbAll, AddAirdrop, RemoveAirdrop, UpdateAirdropFee,
        InitializeAirdrop, RemoveAirdropModule, fundVars
  <2> QED  BY <1>1, <2>1, <2>2, NoMoreIsShortStep DEF FundInv, FeeInv
<1>6. CASE StreamingFeeNext \/ TickNext
  <2>1. /\ FeeInv'
        /\ positionMultiplier' # positionMultiplier =>
             totalSupply' * positionMultiplier' <= totalSupply * positionMultiplier
    BY <1>1, <1>6, FeeStep DEF FeeNext
  <2>2. UNCHANGED airdropFee
    BY <1>6 DEF StreamingFeeNext, TickNext, airdropVars
  <2>3. Accrued \/ UNCHANGED fundVars
    BY <1>6
    DEF StreamingFeeNext, AccrueFee, UpdateStreamingFee, BeforeNewFee, InitializeStreamingFee,
        RemoveStreamingFee, TickNext, Tick
  <2>4. \A c \in Component : shortfall(c)' <= shortfall(c)
    BY <1>1, <2>3, AccruedShort, UnchangedShort
  <2> QED  BY <1>1, <2>1, <2>2, <2>4, NoMoreIsShortStep DEF FundInv, FeeInv
<1> QED  BY <1>2, <1>3, <1>4, <1>5, <1>6 DEF PlainNext, FeeNext

LEMMA FundInitially ==
    ASSUME Init
    PROVE  FundInv
BY FeeInit, PlainInit DEF FundInv, PlainInv

\* What shortfall says of the tokens themselves: one that is short by at most n of a
\* component's smallest units tracks at most n more of it than it holds
\* (Position.getDefaultTrackedBalance).
THEOREM ShortIsMissing ==
    ASSUME FundTypeOK, NEW c \in Component, NEW n \in Nat,
           shortfall(c) <= n * PreciseUnit * PreciseUnit
    PROVE  getDefaultTrackedBalance(virtualUnit, c) <= balance[c] + n
<1> DEFINE u == getDefaultPositionRealUnit(virtualUnit, c)
           a == virtualUnit[c] * positionMultiplier
           t == getDefaultTrackedBalance(virtualUnit, c)
<1>1. /\ totalSupply \in Nat /\ balance[c] \in Nat /\ PreciseUnit \in Nat \ {0}
      /\ virtualUnit[c] \in Nat
  BY PreciseUnitAssumption DEF FundTypeOK
<1>2. u \in Nat /\ a \in Nat /\ PreciseUnit * u <= a
  BY RealUnitBounds
<1>3. t = (totalSupply * u) \div PreciseUnit
  BY <1>1, Tracked
<1>4. Owed(c) = a * totalSupply /\ Held(c) = balance[c] * PreciseUnit * PreciseUnit
  BY DEF Owed, Held
<1>5. Owed(c) <= Held(c) + n * PreciseUnit * PreciseUnit
  <2>1. n * PreciseUnit \in Nat
    BY <1>1
  <2>2. n * PreciseUnit * PreciseUnit \in Nat
    BY <1>1, <2>1
  <2> QED  BY <2>2, OwedAndHeld
<1> HIDE DEF u, a, t
<1> DEFINE k == totalSupply * u
<1>6. k \in Nat
  BY <1>1, <1>2
<1>7. PreciseUnit * k <= a * totalSupply
  <2> DEFINE x == PreciseUnit * u
  <2>1. x \in Nat /\ x <= a /\ PreciseUnit * k = x * totalSupply
    BY <1>1, <1>2
  <2> HIDE DEF x, k
  <2>2. x * totalSupply <= a * totalSupply
    BY <1>1, <1>2, <2>1
  <2> QED  BY <2>1, <2>2
<1> HIDE DEF k
<1>8. t \in Nat /\ PreciseUnit * t <= k
  BY <1>1, <1>3, <1>6, FloorNat, FloorBounds DEF k
<1>9. PreciseUnit * (PreciseUnit * t) <= PreciseUnit * (PreciseUnit * (balance[c] + n))
  <2> DEFINE y == PreciseUnit * t
  <2>1. y \in Nat /\ y <= k
    BY <1>1, <1>8
  <2> HIDE DEF y
  <2>2. PreciseUnit * y <= PreciseUnit * k
    BY <1>1, <1>6, <2>1
  <2>3. Held(c) + n * PreciseUnit * PreciseUnit = PreciseUnit * (PreciseUnit * (balance[c] + n))
    BY <1>1, <1>4
  <2>4. /\ PreciseUnit * y \in Int /\ PreciseUnit * k \in Int /\ a * totalSupply \in Int
        /\ PreciseUnit * (PreciseUnit * (balance[c] + n)) \in Int
    BY <1>1, <1>2, <1>6, <2>1
  <2> QED  BY <1>4, <1>5, <1>7, <2>2, <2>3, <2>4 DEF y
<1>10. PreciseUnit * t <= PreciseUnit * (balance[c] + n)
  <2> DEFINE x == PreciseUnit * t
             y == PreciseUnit * (balance[c] + n)
  <2>1. x \in Int /\ y \in Int /\ PreciseUnit * x <= PreciseUnit * y
    BY <1>1, <1>8, <1>9
  <2> HIDE DEF x, y
  <2>2. x <= y
    BY <1>1, <2>1
  <2> QED  BY <2>2 DEF x, y
<1>11. t <= balance[c] + n
  BY <1>1, <1>8, <1>10
<1> QED  BY <1>11 DEF t

-----------------------------------------------------------------------------
(* Issuance at net asset value *)

\* The inductive invariant of AllSpec.
NAVInv ==
    /\ FundInv
    /\ maxManagerFee \in 0 .. PreciseUnit - 1
    /\ managerFees \in [Side -> 0 .. maxManagerFee]
    /\ maxPremiumPercentage \in 0 .. PreciseUnit - 1
    /\ premiumPercentage \in 0 .. maxPremiumPercentage
    /\ minCKTokenSupply \in Nat
    /\ navInitialized => minCKTokenSupply > 0

-----------------------------------------------------------------------------
(* Rounding *)

\* A part of a quantity, rounded either way, is no more than the quantity.
LEMMA PartOfQuantity ==
    ASSUME NEW a \in Nat, NEW b \in 0 .. PreciseUnit
    PROVE  /\ preciseMul(a, b) \in Nat /\ a - preciseMul(a, b) \in Nat
           /\ preciseMulCeil(a, b) \in Nat /\ a - preciseMulCeil(a, b) \in Nat
<1> DEFINE n == a * b
           x == n \div PreciseUnit
           y == preciseMulCeil(a, b)
<1>1. b \in Nat /\ PreciseUnit \in Nat \ {0} /\ n \in Nat /\ n <= PreciseUnit * a
  BY PreciseUnitAssumption
<1>2. x \in Nat /\ PreciseUnit * x <= n
  BY <1>1, FloorNat, FloorBounds
<1>3. y \in Nat /\ PreciseUnit * y < n + PreciseUnit
  BY <1>1, CeilBounds
<1> HIDE DEF n, x, y
<1>4. PreciseUnit * x <= PreciseUnit * a /\ PreciseUnit * y < PreciseUnit * (a + 1)
  <2>1. PreciseUnit * a \in Nat /\ PreciseUnit * x \in Nat /\ PreciseUnit * y \in Nat
        /\ PreciseUnit * (a + 1) = PreciseUnit * a + PreciseUnit
    BY <1>1, <1>2, <1>3
  <2> QED  BY <1>1, <1>2, <1>3, <2>1
<1>5. x <= a /\ y < a + 1
  BY <1>1, <1>2, <1>3, <1>4
<1> QED  BY <1>2, <1>3, <1>5 DEF n, x, y, preciseMul

-----------------------------------------------------------------------------
(* The valuation *)

\* A component's part of the value of a CKToken with these units, and the value.
PartsOf(units) ==
    [c \in Component |-> preciseMulInt(preciseDivInt(units[c], BaseUnit[c]), Price[c])]

ValueOf(units) == SumFunctionOnSet(PartsOf(units), Component)

ValuationOf(units, reserve) ==
    IF reserve = MasterQuoteAsset THEN ValueOf(units)
    ELSE preciseDivInt(ValueOf(units), Price[reserve])

LEMMA ValuationIs ==
    /\ \A reserve : calculateCKTokenValuation(reserve) = ValuationOf(realUnits, reserve)
    /\ \A reserve : calculateCKTokenValuation(reserve)' = ValuationOf(realUnits', reserve)
BY DEF calculateCKTokenValuation, ValuationOf, ValueOf, PartsOf, realUnits, SumFunction

LEMMA PartsAre ==
    ASSUME NEW units \in [Component -> Nat]
    PROVE  /\ PartsOf(units) \in [Component -> Nat]
           /\ \A c \in Component :
                /\ (units[c] * PreciseUnit) \div BaseUnit[c] \in Nat
                /\ PartsOf(units)[c]
                     = (((units[c] * PreciseUnit) \div BaseUnit[c]) * Price[c]) \div PreciseUnit
<1>1. ASSUME NEW c \in Component
      PROVE  /\ (units[c] * PreciseUnit) \div BaseUnit[c] \in Nat
             /\ PartsOf(units)[c]
                  = (((units[c] * PreciseUnit) \div BaseUnit[c]) * Price[c]) \div PreciseUnit
             /\ PartsOf(units)[c] \in Nat
  <2> DEFINE r == units[c]
             n == (r * PreciseUnit) \div BaseUnit[c]
  <2>1. r * PreciseUnit \in Nat /\ BaseUnit[c] \in Nat \ {0} /\ Price[c] \in Nat \ {0}
        /\ PreciseUnit \in Nat \ {0}
    BY PreciseUnitAssumption, NAVAssumption
  <2>2. n \in Nat
    BY <2>1, FloorNat
  <2>3. preciseDivInt(r, BaseUnit[c]) = n
    BY <2>1 DEF preciseDivInt, truncDiv
  <2> HIDE DEF n
  <2>4. n * Price[c] \in Nat
    BY <2>1, <2>2
  <2>5. preciseMulInt(n, Price[c]) = (n * Price[c]) \div PreciseUnit
    BY <2>4 DEF preciseMulInt, truncDiv
  <2>6. (n * Price[c]) \div PreciseUnit \in Nat
    BY <2>1, <2>4, FloorNat
  <2>7. PartsOf(units)[c] = preciseMulInt(preciseDivInt(r, BaseUnit[c]), Price[c])
    BY DEF PartsOf
  <2> QED  BY <2>2, <2>3, <2>5, <2>6, <2>7 DEF n
<1>2. PartsOf(units) \in [Component -> Nat]
  BY <1>1 DEF PartsOf
<1> QED  BY <1>1, <1>2

LEMMA ValuationNat ==
    ASSUME NEW units \in [Component -> Nat], NEW reserve \in Component
    PROVE  /\ ValueOf(units) \in Nat
           /\ ValuationOf(units, reserve) = (ValueOf(units) * PreciseUnit) \div Price[reserve]
           /\ ValuationOf(units, reserve) \in Nat
<1> DEFINE parts == PartsOf(units)
           w == ValueOf(units)
<1>1. parts \in [Component -> Nat] /\ IsFiniteSet(Component)
  BY PartsAre, NAVAssumption
<1> HIDE DEF parts
<1>2. \A c \in Component : parts[c] \in Int /\ parts[c] >= 0
  BY <1>1
<1>3. SumFunctionOnSet(parts, Component) \in Int /\ SumFunctionOnSet(parts, Component) >= 0
  BY <1>1, <1>2, SumType
<1>4. w \in Nat
  BY <1>3 DEF parts, ValueOf
<1> HIDE DEF w
<1>5. /\ w * PreciseUnit \in Nat /\ Price[reserve] \in Nat \ {0} /\ PreciseUnit \in Nat \ {0}
      /\ Price[MasterQuoteAsset] = PreciseUnit
  BY <1>4, PreciseUnitAssumption, NAVAssumption
<1>6. ValuationOf(units, reserve) = (w * PreciseUnit) \div Price[reserve]
  <2>1. (w * PreciseUnit) \div PreciseUnit = w
    BY <1>4, <1>5
  <2> QED  BY <1>5, <2>1 DEF ValuationOf, w, preciseDivInt, truncDiv
<1>7. (w * PreciseUnit) \div Price[reserve] \in Nat
  BY <1>5, FloorNat
<1> QED  BY <1>4, <1>6, <1>7 DEF w

LEMMA RealUnitsNat ==
    ASSUME FundTypeOK
    PROVE  /\ realUnits \in [Component -> Nat]
           /\ \A c \in Component : realUnits[c] = getDefaultPositionRealUnit(virtualUnit, c)
BY Tracked DEF realUnits, FundTypeOK

-----------------------------------------------------------------------------
(* What an issue and a redemption come to *)

LEMMA FeesLeave ==
    ASSUME NAVInv, NEW side \in Side, NEW quantity \in Nat
    PROVE  /\ protocolRevenueShare(side) \in 0 .. managerFees[side]
           /\ protocolFees(side, quantity) \in Nat /\ managerFee(side, quantity) \in Nat
           /\ netFlow(side, quantity) \in Int /\ netFlow(side, quantity) <= quantity
<1> DEFINE f  == managerFees[side]
           rs == preciseMul(RevenueShare, f)
<1>1. f \in Nat /\ RevenueShare \in 0 .. PreciseUnit /\ DirectFee \in Nat
      /\ PreciseUnit \in Nat \ {0}
  BY NAVAssumption, PreciseUnitAssumption DEF NAVInv
<1>2. rs \in 0 .. f
  <2>1. preciseMul(f, RevenueShare) \in Nat /\ f - preciseMul(f, RevenueShare) \in Nat
    BY <1>1, PartOfQuantity
  <2>2. rs = preciseMul(f, RevenueShare)
    BY <1>1 DEF preciseMul
  <2> HIDE DEF rs, f
  <2> QED  BY <1>1, <2>1, <2>2
<1> HIDE DEF rs, f
<1>3. (rs + DirectFee) * quantity \in Nat /\ (f - rs) * quantity \in Nat
  BY <1>1, <1>2
<1>4. /\ ((rs + DirectFee) * quantity) \div PreciseUnit \in Nat
      /\ ((f - rs) * quantity) \div PreciseUnit \in Nat
  BY <1>1, <1>3, FloorNat
<1>5. /\ protocolFees(side, quantity) = ((rs + DirectFee) * quantity) \div PreciseUnit
      /\ managerFee(side, quantity) = ((f - rs) * quantity) \div PreciseUnit
      /\ protocolRevenueShare(side) = rs
  BY DEF protocolFees, managerFee, protocolRevenueShare, rs, f, preciseMul
<1>6. quantity - protocolFees(side, quantity) - managerFee(side, quantity) \in Int
      /\ quantity - protocolFees(side, quantity) - managerFee(side, quantity) <= quantity
  BY <1>4, <1>5
<1> QED  BY <1>2, <1>4, <1>5, <1>6 DEF netFlow, f

\* An issue that is not refused mints something, or nothing.
LEMMA MintIs ==
    ASSUME NAVInv, NEW reserve \in Component, NEW net \in Nat, mintDenominator(reserve, net) > 0
    PROVE  /\ subPremium(net) \in Nat
           /\ mintDenominator(reserve, net) \in Nat \ {0}
           /\ getCKTokenMintQuantity(reserve, net) \in Nat
<1> DEFINE v == calculateCKTokenValuation(reserve)
           s == subPremium(net)
           b == BaseUnit[reserve]
           d == mintDenominator(reserve, net)
<1>1. /\ totalSupply \in Nat /\ premiumPercentage \in 0 .. PreciseUnit
      /\ PreciseUnit \in Nat \ {0} /\ b \in Nat \ {0}
  BY PreciseUnitAssumption, NAVAssumption DEF NAVInv, FundInv, FeeInv, FundTypeOK
<1>2. s \in Nat
  BY <1>1, PartOfQuantity DEF subPremium
<1>3. v \in Nat
  BY RealUnitsNat, ValuationNat, ValuationIs DEF NAVInv, FundInv, FeeInv
<1> HIDE DEF v, b
<1>4. /\ (totalSupply * v) \div PreciseUnit \in Nat
      /\ (net * PreciseUnit) \div b \in Nat /\ (s * PreciseUnit) \div b \in Nat
  <2> HIDE DEF s
  <2>1. totalSupply * v \in Nat /\ net * PreciseUnit \in Nat /\ s * PreciseUnit \in Nat
    BY <1>1, <1>2, <1>3
  <2> QED  BY <1>1, <2>1, FloorNat
<1>5. d = (totalSupply * v) \div PreciseUnit + (net * PreciseUnit) \div b
            - (s * PreciseUnit) \div b
  BY DEF mintDenominator, preciseMul, preciseDiv, v, b
<1> HIDE DEF s
<1>6. d \in Nat \ {0}
  <2>1. d > 0
    OBVIOUS
  <2> HIDE DEF d
  <2> QED  BY <1>4, <1>5, <2>1
<1> HIDE DEF d
<1> DEFINE x == (((s * PreciseUnit) \div b) * totalSupply) \div PreciseUnit
<1>7. x \in Nat
  <2>1. ((s * PreciseUnit) \div b) * totalSupply \in Nat
    BY <1>1, <1>4
  <2> QED  BY <1>1, <2>1, FloorNat
<1>8. getCKTokenMintQuantity(reserve, net) = (x * PreciseUnit) \div d
  BY DEF getCKTokenMintQuantity, preciseMul, preciseDiv, s, b, d, x
<1> HIDE DEF x
<1>9. (x * PreciseUnit) \div d \in Nat
  <2>1. x * PreciseUnit \in Nat
    BY <1>1, <1>7
  <2> QED  BY <1>6, <2>1, FloorNat
<1> QED  BY <1>2, <1>6, <1>8, <1>9 DEF s, d

LEMMA RedeemedIs ==
    ASSUME NAVInv, NEW reserve \in Component, NEW quantity \in Nat
    PROVE  getRedeemReserveQuantity(reserve, quantity) \in Nat
<1> DEFINE v == calculateCKTokenValuation(reserve)
           b == BaseUnit[reserve]
           n == (((quantity * v) \div PreciseUnit) * b) \div PreciseUnit
<1>1. /\ premiumPercentage \in 0 .. PreciseUnit
      /\ PreciseUnit \in Nat \ {0} /\ b \in Nat \ {0}
  BY PreciseUnitAssumption, NAVAssumption DEF NAVInv
<1>2. v \in Nat
  BY RealUnitsNat, ValuationNat, ValuationIs DEF NAVInv, FundInv, FeeInv
<1> HIDE DEF v, b
<1>3. (quantity * v) \div PreciseUnit \in Nat
  <2>1. quantity * v \in Nat
    BY <1>2
  <2> QED  BY <1>1, <2>1, FloorNat
<1>4. n \in Nat
  <2>1. ((quantity * v) \div PreciseUnit) * b \in Nat
    BY <1>1, <1>3
  <2> QED  BY <1>1, <2>1, FloorNat
<1>5. getRedeemReserveQuantity(reserve, quantity) = n - preciseMulCeil(n, premiumPercentage)
  BY DEF getRedeemReserveQuantity, preciseMul, v, b
<1> HIDE DEF n
<1> QED  BY <1>1, <1>4, <1>5, PartOfQuantity

-----------------------------------------------------------------------------
(* Units and multiplier *)

\* A unit set from a part of the balance, after the multiplier: what is tracked of
\* the reserve is no more than that part.
LEMMA EditedReserve ==
    ASSUME FundTypeOK, NEW reserve \in Component, NEW change \in Int,
           NEW supply \in Nat \ {0}, totalSupply' = supply,
           getDefaultTrackedBalance(virtualUnit, reserve) + change \in Nat,
           EditPositions(reserve, multiplierAt(supply), reserveUnit(reserve, change, supply))
    PROVE  /\ positionMultiplier' \in Nat \ {0}
           /\ positionMultiplier' = (positionMultiplier * totalSupply) \div supply
           /\ virtualUnit' \in [Component -> Nat]
           /\ \A c \in Component \ {reserve} : virtualUnit'[c] = virtualUnit[c]
           /\ getDefaultPositionRealUnit(virtualUnit, reserve)' \in Nat
           /\ supply * getDefaultPositionRealUnit(virtualUnit, reserve)'
                <= (getDefaultTrackedBalance(virtualUnit, reserve) + change) * PreciseUnit
           /\ getDefaultTrackedBalance(virtualUnit, reserve)'
                <= getDefaultTrackedBalance(virtualUnit, reserve) + change
           /\ virtualUnit'[reserve] * positionMultiplier' * supply
                <= (getDefaultTrackedBalance(virtualUnit, reserve) + change)
                     * PreciseUnit * PreciseUnit
<1> DEFINE m        == multiplierAt(supply)
           notional == getDefaultTrackedBalance(virtualUnit, reserve) + change
           unit     == reserveUnit(reserve, change, supply)
           v        == conservativePreciseDiv(unit, m)
           real     == conservativePreciseMul(v, m)
<1>1. /\ totalSupply \in Nat /\ virtualUnit \in [Component -> Nat]
      /\ positionMultiplier \in Nat \ {0} /\ PreciseUnit \in Nat \ {0}
  BY PreciseUnitAssumption DEF FundTypeOK
<1>2. m = (positionMultiplier * totalSupply) \div supply /\ m \in Nat
  <2>1. positionMultiplier * totalSupply \in Nat
    BY <1>1
  <2> QED  BY <2>1, FloorNat DEF multiplierAt
<1>3. m \in Nat \ {0}
  BY <1>2, ValidMultiplierPositive DEF EditPositions
<1>4. positionMultiplier' = m /\ virtualUnit' = [virtualUnit EXCEPT ![reserve] = v]
  BY DEF EditPositions
<1>5. unit = (notional * PreciseUnit) \div supply
  <2>1. getDefaultPositionRealUnit(virtualUnit, reserve) \in Nat
    BY <1>1, Tracked
  <2>2. preciseMul(getDefaultPositionRealUnit(virtualUnit, reserve), totalSupply)
          = getDefaultTrackedBalance(virtualUnit, reserve)
    BY <1>1, <2>1 DEF preciseMul, getDefaultTrackedBalance
  <2> QED  BY <2>2 DEF reserveUnit, preciseDiv
<1> HIDE DEF m, notional, unit
<1>6. notional \in Nat /\ notional * PreciseUnit \in Nat
  <2>1. notional \in Nat
    BY DEF notional
  <2> QED  BY <1>1, <2>1
<1>7. unit \in Nat /\ supply * unit <= notional * PreciseUnit
  BY <1>5, <1>6, FloorNat, FloorBounds
<1>8. v \in Nat /\ real \in Nat /\ real <= unit
  BY <1>3, <1>7, StoredAndReadBack
<1>14. v * m * supply <= notional * PreciseUnit * PreciseUnit
  BY <1>3, <1>5, <1>6, OwedOfNotional
<1> HIDE DEF v
<1>9. /\ virtualUnit' \in [Component -> Nat] /\ virtualUnit'[reserve] = v
      /\ \A c \in Component \ {reserve} : virtualUnit'[c] = virtualUnit[c]
  BY <1>1, <1>4, <1>8
<1>10. getDefaultPositionRealUnit(virtualUnit, reserve)' = real
  BY <1>4, <1>9 DEF getDefaultPositionRealUnit
<1> HIDE DEF real
<1>11. getDefaultTrackedBalance(virtualUnit, reserve)' = (supply * real) \div PreciseUnit
  BY <1>10 DEF getDefaultTrackedBalance, preciseMul
<1>12. (supply * real) \div PreciseUnit <= notional
  <2>1. real <= (notional * PreciseUnit) \div supply
    BY <1>5, <1>8
  <2> QED  BY <1>6, <1>8, <2>1, UnitOfNotional
<1>13. supply * real <= notional * PreciseUnit
  <2>1. supply * real <= supply * unit
    BY <1>7, <1>8
  <2>2. supply * real \in Nat /\ supply * unit \in Nat
    BY <1>7, <1>8
  <2> QED  BY <1>6, <1>7, <2>1, <2>2
<1> QED  BY <1>2, <1>3, <1>4, <1>8, <1>9, <1>10, <1>11, <1>12, <1>13, <1>14 DEF notional

\* What is tracked of a component is no more than what is owed of it.
LEMMA TrackedIsOwed ==
    ASSUME FundTypeOK, NEW c \in Component
    PROVE  /\ getDefaultTrackedBalance(virtualUnit, c) \in Nat
           /\ getDefaultTrackedBalance(virtualUnit, c) * PreciseUnit * PreciseUnit <= Owed(c)
<1> DEFINE u == getDefaultPositionRealUnit(virtualUnit, c)
           a == virtualUnit[c] * positionMultiplier
           t == getDefaultTrackedBalance(virtualUnit, c)
<1>1. totalSupply \in Nat /\ PreciseUnit \in Nat \ {0} /\ virtualUnit[c] \in Nat
  BY PreciseUnitAssumption DEF FundTypeOK
<1>2. u \in Nat /\ a \in Nat /\ PreciseUnit * u <= a
  BY RealUnitBounds
<1>3. t = (totalSupply * u) \div PreciseUnit
  BY <1>1, Tracked
<1>4. Owed(c) = a * totalSupply
  BY DEF Owed
<1> HIDE DEF u, a, t
<1> DEFINE k == totalSupply * u
<1>5. k \in Nat
  BY <1>1, <1>2
<1>6. PreciseUnit * k <= a * totalSupply
  <2> DEFINE x == PreciseUnit * u
  <2>1. x \in Nat /\ x <= a /\ PreciseUnit * k = x * totalSupply
    BY <1>1, <1>2
  <2> HIDE DEF x, k
  <2>2. x * totalSupply <= a * totalSupply
    BY <1>1, <1>2, <2>1
  <2> QED  BY <2>1, <2>2
<1> HIDE DEF k
<1>7. t \in Nat /\ PreciseUnit * t <= k
  <2>1. t = k \div PreciseUnit
    BY <1>3 DEF k
  <2> QED  BY <1>1, <1>5, <2>1, FloorNat, FloorBounds
<1> DEFINE y == PreciseUnit * t
<1>8. y \in Nat /\ y <= k /\ t * PreciseUnit * PreciseUnit = PreciseUnit * y
  BY <1>1, <1>7
<1> HIDE DEF y
<1>9. PreciseUnit * y <= PreciseUnit * k
  BY <1>1, <1>5, <1>8
<1>10. PreciseUnit * y \in Int /\ PreciseUnit * k \in Int /\ a * totalSupply \in Int
  BY <1>1, <1>2, <1>5, <1>8
<1> QED  BY <1>4, <1>6, <1>7, <1>8, <1>9, <1>10 DEF t

LEMMA MultiplierFallsWithSupply ==
    ASSUME NEW m \in Nat, NEW s \in Nat, NEW t \in Nat \ {0}
    PROVE  t * ((m * s) \div t) <= s * m
<1>1. m * s \in Nat /\ m * s = s * m
  OBVIOUS
<1> QED  BY <1>1, FloorBounds

\* The multiplier moves against the supply, and the reserve's unit with its balance.
LEMMA NAVShort ==
    ASSUME FundTypeOK, FundTypeOK', NEW reserve \in Component, NEW change \in Int,
           totalSupply' # 0,
           positionMultiplier' = (positionMultiplier * totalSupply) \div totalSupply',
           \A c \in Component \ {reserve} :
             virtualUnit'[c] = virtualUnit[c] /\ balance'[c] = balance[c],
           balance'[reserve] - balance[reserve] = change,
           virtualUnit'[reserve] * positionMultiplier' * totalSupply'
             <= (getDefaultTrackedBalance(virtualUnit, reserve) + change)
                  * PreciseUnit * PreciseUnit
    PROVE  \A c \in Component : shortfall(c)' <= shortfall(c)
<1>1. /\ totalSupply \in Nat /\ positionMultiplier \in Nat /\ PreciseUnit \in Nat
      /\ totalSupply' \in Nat \ {0} /\ positionMultiplier' \in Nat
  BY PreciseUnitAssumption DEF FundTypeOK
<1>2. \A c \in Component : virtualUnit[c] \in Nat /\ balance[c] \in Nat
                           /\ virtualUnit'[c] \in Nat /\ balance'[c] \in Nat
  BY DEF FundTypeOK
<1>3. ASSUME NEW c \in Component, c # reserve
      PROVE  shortfall(c)' <= shortfall(c)
  <2> DEFINE x == totalSupply * positionMultiplier
             y == totalSupply' * positionMultiplier'
  <2>1. y <= x
    BY <1>1, MultiplierFallsWithSupply
  <2>2. \A a, b \in Nat : a * b \in Nat
    OBVIOUS
  <2>3. x \in Nat /\ y \in Nat /\ virtualUnit[c] \in Nat
    BY <1>1, <1>2, <2>2
  <2>4. \A a, b, d \in Nat : a * b * d = a * (d * b)
    OBVIOUS
  <2>5. Owed(c) = virtualUnit[c] * x
    <3>1. /\ virtualUnit[c] \in Nat /\ positionMultiplier \in Nat /\ totalSupply \in Nat
      BY <1>1, <1>2
    <3>2. virtualUnit[c] * positionMultiplier * totalSupply
            = virtualUnit[c] * (totalSupply * positionMultiplier)
      BY <2>4, <3>1
    <3> QED  BY <3>2 DEF Owed
  <2>6. Owed(c)' = virtualUnit[c] * y
    <3>1. virtualUnit'[c] = virtualUnit[c]
      BY <1>3
    <3>2. virtualUnit[c] * positionMultiplier' * totalSupply' = virtualUnit[c] * y
      BY <1>1, <1>2, <2>4
    <3> QED  BY <3>1, <3>2 DEF Owed
  <2>7. Held(c)' = Held(c)
    BY <1>3 DEF Held
  <2> HIDE DEF x, y
  <2>8. virtualUnit[c] * y <= virtualUnit[c] * x
    BY <2>1, <2>3
  <2>9. Owed(c)' - Owed(c) <= Held(c)' - Held(c)
    BY <2>5, <2>6, <2>7, <2>8, OwedAndHeld, OwedAndHeldAfter
  <2> QED  BY <2>9, ShortNoMore
<1>4. shortfall(reserve)' <= shortfall(reserve)
  <2> DEFINE t == getDefaultTrackedBalance(virtualUnit, reserve)
             p == PreciseUnit * PreciseUnit
  <2>1. t \in Nat /\ t * PreciseUnit * PreciseUnit <= Owed(reserve)
    BY TrackedIsOwed
  <2>2. Owed(reserve)' <= (t + change) * PreciseUnit * PreciseUnit
    BY DEF Owed
  <2> HIDE DEF t
  <2>3. p \in Nat
    BY <1>1
  <2>4. /\ t * PreciseUnit * PreciseUnit = t * p
        /\ (t + change) * PreciseUnit * PreciseUnit = t * p + change * p
        /\ t * p \in Int /\ change * p \in Int
    BY <1>1, <2>1
  <2>5. Held(reserve) = balance[reserve] * p /\ Held(reserve)' = balance'[reserve] * p
    <3>1. \A b \in Nat : b * PreciseUnit * PreciseUnit = b * p
      BY <1>1
    <3> QED  BY <1>2, <3>1 DEF Held
  <2> HIDE DEF p
  <2>6. \A a, b \in Nat : a - b = change => a * p - b * p = change * p
    BY <2>3
  <2>7. Held(reserve)' - Held(reserve) = change * p
    BY <1>2, <2>5, <2>6
  <2>8. Owed(reserve)' - Owed(reserve) <= Held(reserve)' - Held(reserve)
    BY <2>1, <2>2, <2>4, <2>7, OwedAndHeld, OwedAndHeldAfter
  <2> QED  BY <2>8, ShortNoMore
<1> QED  BY <1>3, <1>4

LEMMA NAVIssueStep ==
    ASSUME NAVInv, NEW reserve \in Component, NEW quantity \in Nat, NAVIssue(reserve, quantity)
    PROVE  /\ FundTypeOK' /\ UNCHANGED navVars
           /\ totalSupply > 0 /\ totalSupply' \in Nat /\ totalSupply' >= totalSupply
           /\ positionMultiplier' = (positionMultiplier * totalSupply) \div totalSupply'
           /\ netFlow("issue", quantity) \in Nat
           /\ balance'[reserve] - balance[reserve] = netFlow("issue", quantity)
           /\ \A c \in Component \ {reserve} : virtualUnit'[c] = virtualUnit[c]
           /\ getDefaultPositionRealUnit(virtualUnit, reserve)' \in Nat
           /\ totalSupply' * getDefaultPositionRealUnit(virtualUnit, reserve)'
                <= (getDefaultTrackedBalance(virtualUnit, reserve) + netFlow("issue", quantity))
                     * PreciseUnit
           /\ getDefaultTrackedBalance(virtualUnit, reserve)'
                <= getDefaultTrackedBalance(virtualUnit, reserve) + netFlow("issue", quantity)
           /\ \A c \in Component : shortfall(c)' <= shortfall(c)
<1> DEFINE net == netFlow("issue", quantity)
           minted == getCKTokenMintQuantity(reserve, net)
           supply == totalSupply + minted
<1>1. /\ FundTypeOK /\ totalSupply \in Nat /\ balance \in [Component -> Nat]
      /\ virtualUnit \in [Component -> Nat]
  BY DEF NAVInv, FundInv, FeeInv, FundTypeOK
<1>2. totalSupply > 0
  <2>1. totalSupply >= minCKTokenSupply /\ minCKTokenSupply > 0 /\ minCKTokenSupply \in Nat
    BY DEF NAVIssue, NAVInv
  <2> QED  BY <1>1, <2>1
<1>3. net \in Nat
  <2>1. net \in Int
    BY FeesLeave DEF Side
  <2>2. net >= 0
    BY DEF NAVIssue
  <2> HIDE DEF net
  <2> QED  BY <2>1, <2>2
<1>4. /\ mintDenominator(reserve, net) > 0
      /\ totalSupply' = supply /\ balance' = [balance EXCEPT ![reserve] = @ + net]
      /\ EditPositions(reserve, multiplierAt(supply), reserveUnit(reserve, net, supply))
      /\ UNCHANGED navVars
  BY DEF NAVIssue, collateralAdded
<1> HIDE DEF net
<1>5. minted \in Nat
  BY <1>3, <1>4, MintIs
<1> HIDE DEF minted
<1>6. supply \in Nat \ {0} /\ supply >= totalSupply
  BY <1>1, <1>2, <1>5
<1> HIDE DEF supply
<1>7. getDefaultTrackedBalance(virtualUnit, reserve) \in Nat
  BY <1>1, Tracked
<1>8. getDefaultTrackedBalance(virtualUnit, reserve) + net \in Nat /\ net \in Int
  BY <1>3, <1>7
<1>9. /\ positionMultiplier' \in Nat \ {0}
      /\ positionMultiplier' = (positionMultiplier * totalSupply) \div supply
      /\ virtualUnit' \in [Component -> Nat]
      /\ \A c \in Component \ {reserve} : virtualUnit'[c] = virtualUnit[c]
      /\ getDefaultPositionRealUnit(virtualUnit, reserve)' \in Nat
      /\ supply * getDefaultPositionRealUnit(virtualUnit, reserve)'
           <= (getDefaultTrackedBalance(virtualUnit, reserve) + net) * PreciseUnit
      /\ getDefaultTrackedBalance(virtualUnit, reserve)'
           <= getDefaultTrackedBalance(virtualUnit, reserve) + net
      /\ virtualUnit'[reserve] * positionMultiplier' * supply
           <= (getDefaultTrackedBalance(virtualUnit, reserve) + net) * PreciseUnit * PreciseUnit
  BY <1>1, <1>4, <1>6, <1>8, EditedReserve
<1>10. balance' \in [Component -> Nat] /\ balance'[reserve] - balance[reserve] = net
  BY <1>1, <1>3, <1>4
<1>11. FundTypeOK'
  BY <1>4, <1>6, <1>9, <1>10 DEF FundTypeOK
<1>12. \A c \in Component : shortfall(c)' <= shortfall(c)
  <2>1. \A c \in Component \ {reserve} : balance'[c] = balance[c]
    BY <1>1, <1>4
  <2> QED  BY <1>1, <1>4, <1>6, <1>8, <1>9, <1>10, <1>11, <2>1, NAVShort
<1> QED  BY <1>2, <1>3, <1>4, <1>6, <1>9, <1>10, <1>11, <1>12 DEF net

LEMMA NAVRedeemStep ==
    ASSUME NAVInv, NEW reserve \in Component, NEW quantity \in Nat, NAVRedeem(reserve, quantity)
    PROVE  LET outflow == getRedeemReserveQuantity(reserve, quantity)
           IN  /\ FundTypeOK' /\ UNCHANGED navVars
               /\ totalSupply' \in Nat \ {0} /\ totalSupply' <= totalSupply
               /\ positionMultiplier' = (positionMultiplier * totalSupply) \div totalSupply'
               /\ outflow \in Nat
               /\ balance'[reserve] - balance[reserve] = -outflow
               /\ \A c \in Component \ {reserve} : virtualUnit'[c] = virtualUnit[c]
               /\ getDefaultTrackedBalance(virtualUnit, reserve)'
                    <= getDefaultTrackedBalance(virtualUnit, reserve) - outflow
               /\ \A c \in Component : shortfall(c)' <= shortfall(c)
<1> DEFINE outflow == getRedeemReserveQuantity(reserve, quantity)
           supply == totalSupply - quantity
           t == getDefaultTrackedBalance(virtualUnit, reserve)
<1>1. /\ FundTypeOK /\ totalSupply \in Nat /\ balance \in [Component -> Nat]
      /\ virtualUnit \in [Component -> Nat]
  BY DEF NAVInv, FundInv, FeeInv, FundTypeOK
<1>2. outflow \in Nat
  BY RedeemedIs
<1>3. t \in Nat /\ preciseMul(getDefaultPositionRealUnit(virtualUnit, reserve), totalSupply) = t
  BY <1>1, Tracked DEF preciseMul
<1>4. /\ supply >= minCKTokenSupply /\ navInitialized
      /\ outflow <= t /\ outflow <= balance[reserve]
      /\ totalSupply' = supply /\ balance' = [balance EXCEPT ![reserve] = @ - outflow]
      /\ EditPositions(reserve, multiplierAt(supply), reserveUnit(reserve, -outflow, supply))
      /\ UNCHANGED navVars
  BY <1>3 DEF NAVRedeem
<1>5. supply \in Nat \ {0} /\ supply <= totalSupply
  <2>1. minCKTokenSupply \in Nat /\ minCKTokenSupply > 0
    BY <1>4 DEF NAVInv
  <2> QED  BY <1>1, <1>4, <2>1
<1> HIDE DEF outflow, supply
<1>6. t + (-outflow) \in Nat /\ -outflow \in Int
  <2> HIDE DEF t
  <2> QED  BY <1>2, <1>3, <1>4
<1>7. /\ positionMultiplier' \in Nat \ {0}
      /\ positionMultiplier' = (positionMultiplier * totalSupply) \div supply
      /\ virtualUnit' \in [Component -> Nat]
      /\ \A c \in Component \ {reserve} : virtualUnit'[c] = virtualUnit[c]
      /\ getDefaultTrackedBalance(virtualUnit, reserve)' <= t + (-outflow)
      /\ virtualUnit'[reserve] * positionMultiplier' * supply
           <= (t + (-outflow)) * PreciseUnit * PreciseUnit
  BY <1>1, <1>4, <1>5, <1>6, EditedReserve
<1>8. balance' \in [Component -> Nat] /\ balance'[reserve] - balance[reserve] = -outflow
  BY <1>1, <1>2, <1>4
<1>9. FundTypeOK'
  BY <1>4, <1>5, <1>7, <1>8 DEF FundTypeOK
<1>10. t + (-outflow) = t - outflow
  <2> HIDE DEF t
  <2> QED  BY <1>2, <1>3
<1>11. \A c \in Component : shortfall(c)' <= shortfall(c)
  <2>1. \A c \in Component \ {reserve} : balance'[c] = balance[c]
    BY <1>1, <1>4
  <2>2. totalSupply' # 0 /\ -outflow \in Int
    BY <1>2, <1>4, <1>5
  <2> QED  BY <1>1, <1>4, <1>7, <1>8, <1>9, <2>1, <2>2, NAVShort
<1> QED  BY <1>2, <1>4, <1>5, <1>7, <1>8, <1>9, <1>10, <1>11 DEF outflow, supply

-----------------------------------------------------------------------------
(* Every step *)

\* What a step of another module does, the streaming fee's included.
LEMMA OtherStep ==
    ASSUME NAVInv, PlainNext \/ FeeNext, Bounded, UNCHANGED navVars
    PROVE  /\ NAVInv' /\ ShortStep
           /\ positionMultiplier' # positionMultiplier =>
                totalSupply' * positionMultiplier' <= totalSupply * positionMultiplier
<1>1. /\ FundInv' /\ ShortStep
      /\ positionMultiplier' # positionMultiplier =>
           totalSupply' * positionMultiplier' <= totalSupply * positionMultiplier
  BY FundStep DEF NAVInv
<1>2. NAVInv'
  BY <1>1 DEF NAVInv, navVars
<1> QED  BY <1>1, <1>2

\* The steps TLC explores are among those of all modules.
LEMMA NAVSpecStep ==
    ASSUME [(OtherNext \/ NAVNext) /\ Bounded /\ OneModule]_allVars
    PROVE  [AllNext]_allVars
BY DEF AllNext, OtherNext, FeeNext

\* The manager's calls change no supply, balance, unit or multiplier.
LEMMA ManagerStep ==
    ASSUME NAVInv, UNCHANGED <<airdropVars, feeVars>>,
           \/ \E c \in Reserves : AddReserveAsset(c) \/ RemoveReserveAsset(c)
           \/ \E settings \in NAVSettings : InitializeNAV(settings)
           \/ \E percentage \in Percentages :
                EditPremium(percentage) \/ \E side \in Side : EditManagerFee(side, percentage)
           \/ RemoveNAVModule
    PROVE  NAVInv' /\ UNCHANGED fundVars
<1>1. UNCHANGED fundVars
  BY DEF AddReserveAsset, RemoveReserveAsset, InitializeNAV, EditPremium, EditManagerFee,
         RemoveNAVModule
<1>2. FundInv'
  BY <1>1 DEF NAVInv, FundInv, FeeInv, FundTypeOK, fundVars, feeVars, airdropVars
<1>3. PreciseUnit \in Nat \ {0}
  BY PreciseUnitAssumption
<1>4. ASSUME NEW c \in Reserves, AddReserveAsset(c) \/ RemoveReserveAsset(c)
      PROVE  NAVInv'
  BY <1>2, <1>4 DEF AddReserveAsset, RemoveReserveAsset, NAVInv
<1>5. ASSUME NEW settings \in NAVSettings, InitializeNAV(settings)
      PROVE  NAVInv'
  <2>1. /\ settings.managerFees \in [Side -> Nat] /\ settings.maxManagerFee \in Nat
        /\ settings.premiumPercentage \in Nat /\ settings.maxPremiumPercentage \in Nat
        /\ settings.minCKTokenSupply \in Nat
    BY NAVPortfolioAssumption
  <2>2. maxManagerFee' \in 0 .. PreciseUnit - 1 /\ maxPremiumPercentage' \in 0 .. PreciseUnit - 1
    BY <1>3, <1>5, <2>1 DEF InitializeNAV
  <2>3. managerFees' \in [Side -> 0 .. maxManagerFee']
    BY <1>5, <2>1 DEF InitializeNAV
  <2>4. premiumPercentage' \in 0 .. maxPremiumPercentage'
    BY <1>5, <2>1 DEF InitializeNAV
  <2>5. minCKTokenSupply' \in Nat /\ minCKTokenSupply' > 0
    BY <1>5, <2>1 DEF InitializeNAV
  <2> QED  BY <1>2, <2>2, <2>3, <2>4, <2>5 DEF NAVInv
<1>6. ASSUME NEW percentage \in Percentages, EditPremium(percentage)
      PROVE  NAVInv'
  <2>1. percentage \in Nat
    BY NAVPortfolioAssumption
  <2> QED  BY <1>2, <1>6, <2>1 DEF EditPremium, NAVInv
<1>7. ASSUME NEW percentage \in Percentages, NEW side \in Side, EditManagerFee(side, percentage)
      PROVE  NAVInv'
  <2>1. percentage \in Nat
    BY NAVPortfolioAssumption
  <2>2. managerFees' \in [Side -> 0 .. maxManagerFee] /\ maxManagerFee' = maxManagerFee
    BY <1>7, <2>1 DEF EditManagerFee, NAVInv
  <2> QED  BY <1>2, <1>7, <2>2 DEF EditManagerFee, NAVInv
<1>8. ASSUME RemoveNAVModule
      PROVE  NAVInv'
  <2>1. maxManagerFee' = 0 /\ managerFees' \in [Side -> 0 .. 0]
        /\ maxPremiumPercentage' = 0 /\ premiumPercentage' = 0
        /\ minCKTokenSupply' = 0 /\ navInitialized' = FALSE
    BY <1>8 DEF RemoveNAVModule
  <2>2. 0 \in 0 .. PreciseUnit - 1
    BY <1>3
  <2> QED  BY <1>2, <2>1, <2>2 DEF NAVInv
<1> QED  BY <1>1, <1>4, <1>5, <1>6, <1>7, <1>8

\* A step of the module: an issue, a redemption or a call of the manager.
LEMMA NAVNextCases ==
    ASSUME NAVInv, NAVNext
    PROVE  \/ \E reserve \in Reserves, quantity \in NAVQuantities :
                reserve \in Component /\ quantity \in Nat /\ NAVIssue(reserve, quantity)
           \/ \E reserve \in Reserves, quantity \in Quantities :
                reserve \in Component /\ quantity \in Nat /\ NAVRedeem(reserve, quantity)
           \/ NAVInv' /\ UNCHANGED fundVars
<1>1. /\ UNCHANGED <<airdropVars, feeVars>>
      /\ \/ \E reserve \in Reserves, quantity \in NAVQuantities : NAVIssue(reserve, quantity)
         \/ \E reserve \in Reserves, quantity \in Quantities : NAVRedeem(reserve, quantity)
         \/ \E c \in Reserves : AddReserveAsset(c) \/ RemoveReserveAsset(c)
         \/ \E settings \in NAVSettings : InitializeNAV(settings)
         \/ \E percentage \in Percentages :
              EditPremium(percentage) \/ \E side \in Side : EditManagerFee(side, percentage)
         \/ RemoveNAVModule
  BY DEF NAVNext
<1>2. \A reserve \in Reserves : reserve \in Component
  BY NAVPortfolioAssumption
<1>3. (\A quantity \in NAVQuantities : quantity \in Nat)
      /\ (\A quantity \in Quantities : quantity \in Nat)
  BY NAVPortfolioAssumption, PortfolioAssumption
<1>4. CASE \E reserve \in Reserves, quantity \in NAVQuantities : NAVIssue(reserve, quantity)
  BY <1>2, <1>3, <1>4
<1>5. CASE \E reserve \in Reserves, quantity \in Quantities : NAVRedeem(reserve, quantity)
  BY <1>2, <1>3, <1>5
<1> QED  BY <1>1, <1>4, <1>5, ManagerStep

LEMMA NAVStep ==
    ASSUME NAVInv, [AllNext]_allVars
    PROVE  NAVInv'
<1>1. CASE (PlainNext \/ FeeNext) /\ Bounded /\ UNCHANGED navVars
  BY <1>1, OtherStep
<1>2. CASE NAVNext
  <2>1. UNCHANGED <<airdropVars, feeVars>>
    BY <1>2 DEF NAVNext
  <2>2. ASSUME FundTypeOK', UNCHANGED navVars
        PROVE  NAVInv'
    BY <2>1, <2>2 DEF NAVInv, FundInv, FeeInv, airdropVars, feeVars, navVars
  <2> QED  BY <1>2, <2>2, NAVNextCases, NAVIssueStep, NAVRedeemStep
<1>3. CASE UNCHANGED allVars
  BY <1>3 DEF allVars, portfolioVars, fundVars, airdropVars, feeVars, navVars, NAVInv, FundInv,
              FeeInv, FundTypeOK
<1> QED  BY <1>1, <1>2, <1>3 DEF AllNext

LEMMA NAVInitially ==
    ASSUME Init, NAVInit
    PROVE  NAVInv
<1>1. FundInv
  BY FundInitially
<1>2. 0 \in 0 .. PreciseUnit - 1
  BY PreciseUnitAssumption
<1> QED  BY <1>1, <1>2 DEF NAVInit, NAVInv

\* Fees and premium stay below the precise unit and their maximum, through every
\* order of initializing, editing and removing, and no issue, redemption, trade,
\* airdrop or accrual takes the supply, a balance or a unit below zero.
THEOREM NAVInvariant == AllSpec => []NAVInv
<1>1. Init /\ NAVInit => NAVInv
  BY NAVInitially
<1>2. NAVInv /\ [AllNext]_allVars => NAVInv'
  BY NAVStep
<1> QED  BY <1>1, <1>2, PTL DEF AllSpec

\* What holds of all modules in any order holds of those TLC explores.
THEOREM NAVSpecIsOfAll == NAVSpec => AllSpec
<1>1. [(OtherNext \/ NAVNext) /\ Bounded /\ OneModule]_allVars => [AllNext]_allVars
  BY NAVSpecStep
<1> QED  BY <1>1, PTL DEF NAVSpec, AllSpec

-----------------------------------------------------------------------------
(* Units and what is held *)

LEMMA UnitRisesStep ==
    ASSUME NAVInv, [(OtherNext \/ NAVNext) /\ Bounded /\ OneModule]_allVars,
           NEW c \in Component, virtualUnit'[c] # virtualUnit[c]
    PROVE  getDefaultTrackedBalance(virtualUnit, c)' - getDefaultTrackedBalance(virtualUnit, c)
             <= balance'[c] - balance[c]
<1> DEFINE t == getDefaultTrackedBalance(virtualUnit, c)
<1>1. FundTypeOK /\ virtualUnit \in [Component -> Nat]
  BY DEF NAVInv, FundInv, FeeInv, FundTypeOK
<1>2. t \in Nat
  BY <1>1, Tracked
<1>3. t' \in Int
  <2>1. FundTypeOK'
    BY NAVSpecStep, NAVStep DEF NAVInv, FundInv, FeeInv
  <2>2. totalSupply' \in Nat /\ positionMultiplier' \in Int /\ virtualUnit'[c] \in Int
    BY <2>1 DEF FundTypeOK
  <2>3. conservativePreciseMul(virtualUnit'[c], positionMultiplier') \in Int
    BY <2>2, ConservativeMul
  <2> DEFINE r == conservativePreciseMul(virtualUnit'[c], positionMultiplier')
  <2>4. t' = (totalSupply' * r) \div PreciseUnit
    BY DEF getDefaultTrackedBalance, getDefaultPositionRealUnit, preciseMul
  <2> HIDE DEF r, t
  <2>5. totalSupply' * r \in Int
    BY <2>2, <2>3 DEF r
  <2> QED  BY <2>4, <2>5, FloorBounds, PreciseUnitAssumption
<1>4. NAVNext
  <2>1. UNCHANGED allVars => virtualUnit' = virtualUnit
    BY DEF allVars, portfolioVars, fundVars
  <2>2. OtherNext => virtualUnit' = virtualUnit
    BY DEF OtherNext, IssuanceNext, Issue, Redeem, TickNext, Tick, StreamingFeeNext, AccrueFee,
           Accrued, InitializeStreamingFee, UpdateStreamingFee, BeforeNewFee,
           RemoveStreamingFee, fundVars
  <2> QED  BY <2>1, <2>2
<1>5. CASE \E reserve \in Reserves, quantity \in NAVQuantities :
             reserve \in Component /\ quantity \in Nat /\ NAVIssue(reserve, quantity)
  <2>1. PICK reserve \in Reserves, quantity \in NAVQuantities :
             reserve \in Component /\ quantity \in Nat /\ NAVIssue(reserve, quantity)
    BY <1>5
  <2> DEFINE net == netFlow("issue", quantity)
  <2>2. /\ net \in Nat /\ balance'[reserve] - balance[reserve] = net
        /\ \A d \in Component \ {reserve} : virtualUnit'[d] = virtualUnit[d]
        /\ getDefaultTrackedBalance(virtualUnit, reserve)'
             <= getDefaultTrackedBalance(virtualUnit, reserve) + net
    BY <2>1, NAVIssueStep
  <2>3. c = reserve
    BY <2>2
  <2>4. t' <= t + net /\ balance'[c] - balance[c] = net
    BY <2>2, <2>3
  <2> HIDE DEF t, net
  <2>5. t' - t <= net
    BY <1>2, <1>3, <2>2, <2>4
  <2> QED  BY <2>4, <2>5 DEF t
<1>6. CASE \E reserve \in Reserves, quantity \in Quantities :
             reserve \in Component /\ quantity \in Nat /\ NAVRedeem(reserve, quantity)
  <2>1. PICK reserve \in Reserves, quantity \in Quantities :
             reserve \in Component /\ quantity \in Nat /\ NAVRedeem(reserve, quantity)
    BY <1>6
  <2> DEFINE outflow == getRedeemReserveQuantity(reserve, quantity)
  <2>2. /\ outflow \in Nat /\ balance'[reserve] - balance[reserve] = -outflow
        /\ \A d \in Component \ {reserve} : virtualUnit'[d] = virtualUnit[d]
        /\ getDefaultTrackedBalance(virtualUnit, reserve)'
             <= getDefaultTrackedBalance(virtualUnit, reserve) - outflow
    BY <2>1, NAVRedeemStep
  <2>3. c = reserve
    BY <2>2
  <2>4. t' <= t - outflow /\ balance'[c] - balance[c] = -outflow
    BY <2>2, <2>3
  <2> HIDE DEF t, outflow
  <2>5. t' - t <= -outflow
    BY <1>2, <1>3, <2>2, <2>4
  <2> QED  BY <2>4, <2>5 DEF t
<1>7. CASE UNCHANGED fundVars
  BY <1>7 DEF fundVars
<1> QED  BY <1>4, <1>5, <1>6, <1>7, NAVNextCases

\* An issue or a redemption at net asset value raises a unit by no more than the
\* reserve that came in, and lowers it by all that went out, fees included
\* (_getIssuePositionUnit, _getRedeemPositionUnit).
THEOREM UnitsRiseWithBalances == NAVSpec => UnitRisesWithBalance
<1>1. NAVInv /\ [(OtherNext \/ NAVNext) /\ Bounded /\ OneModule]_allVars =>
        [ \A c \in Component : virtualUnit'[c] # virtualUnit[c] =>
            getDefaultTrackedBalance(virtualUnit, c)' - getDefaultTrackedBalance(virtualUnit, c)
                <= balance'[c] - balance[c] ]_allVars
  BY UnitRisesStep
<1> QED  BY <1>1, NAVInvariant, NAVSpecIsOfAll, PTL DEF NAVSpec, UnitRisesWithBalance

-----------------------------------------------------------------------------
(* The streaming fee next to the NAV module *)

\* A step changes supply and multiplier without owing the holders more.
LEMMA OwesNoMoreStep ==
    ASSUME NAVInv, [AllNext]_allVars, positionMultiplier' # positionMultiplier
    PROVE  totalSupply' * positionMultiplier' <= totalSupply * positionMultiplier
<1>1. totalSupply \in Nat /\ positionMultiplier \in Nat
  BY DEF NAVInv, FundInv, FeeInv, FundTypeOK
<1>2. CASE (PlainNext \/ FeeNext) /\ Bounded /\ UNCHANGED navVars
  BY <1>2, OtherStep
<1>3. CASE NAVNext
  <2>1. ASSUME totalSupply' \in Nat \ {0},
               positionMultiplier' = (positionMultiplier * totalSupply) \div totalSupply'
        PROVE  totalSupply' * positionMultiplier' <= totalSupply * positionMultiplier
    BY <1>1, <2>1, MultiplierFallsWithSupply
  <2>2. UNCHANGED fundVars => positionMultiplier' = positionMultiplier
    BY DEF fundVars
  <2>3. ASSUME NEW reserve \in Component, NEW quantity \in Nat, NAVIssue(reserve, quantity)
        PROVE  /\ totalSupply' \in Nat \ {0}
               /\ positionMultiplier' = (positionMultiplier * totalSupply) \div totalSupply'
    BY <1>1, <2>3, NAVIssueStep
  <2>4. ASSUME NEW reserve \in Component, NEW quantity \in Nat, NAVRedeem(reserve, quantity)
        PROVE  /\ totalSupply' \in Nat \ {0}
               /\ positionMultiplier' = (positionMultiplier * totalSupply) \div totalSupply'
    BY <1>1, <2>4, NAVRedeemStep
  <2> QED  BY <1>3, <2>1, <2>2, <2>3, <2>4, NAVNextCases
<1>4. CASE UNCHANGED allVars
  BY <1>4 DEF allVars, portfolioVars, fundVars
<1> QED  BY <1>2, <1>3, <1>4 DEF AllNext

\* An accrual mints its recipients exactly their share, and what the CKToken owes its
\* holders together does not grow with it, nor with what the multiplier falls or rises
\* by when the supply changes at net asset value (_editPositionMultiplier,
\* _handleIssueStateUpdates, _handleRedeemStateUpdates).
THEOREM AccrualIsExact == AllSpec => AccrualExact
<1>1. NAVInv /\ [AllNext]_allVars =>
        [ positionMultiplier' # positionMultiplier =>
            totalSupply' * positionMultiplier' <= totalSupply * positionMultiplier ]_AllVars
  BY OwesNoMoreStep
<1>2. NAVInv =>
        [ \A fee \in 0 .. PreciseUnit - 1 :
            feeInitialized /\ fee = calculateStreamingFee /\ AccrueFee =>
              LET minted == totalSupply' - totalSupply
              IN  /\ minted * PreciseUnit <= fee * totalSupply'
                  /\ (minted + 1) * PreciseUnit > fee * (totalSupply' + 1) ]_AllVars
  BY AccruedShare DEF NAVInv, FundInv
<1> QED  BY <1>1, <1>2, NAVInvariant, PTL
         DEF AllSpec, AccrualExact, AccrualOwesNoMore, FeeShareExact

\* No rate charges the time before it was set, and accruing often is no dearer than
\* accruing once, whatever the other modules do in between.
THEOREM RatesAndAccruals == AllSpec => RateChangeAccrues /\ []AccruingOftenCostsNoMore
<1>1. [AllNext]_allVars =>
        [ streamingFeePercentage' # streamingFeePercentage /\ feeInitialized'
          => lastStreamingFeeTimestamp' = now ]_AllVars
  <2> SUFFICES ASSUME [AllNext]_allVars,
                      streamingFeePercentage' # streamingFeePercentage, feeInitialized'
               PROVE  lastStreamingFeeTimestamp' = now
    OBVIOUS
  <2>1. StreamingFeeNext
    BY DEF AllNext, PlainNext, FeeNext, NAVNext, IssuanceNext, TradeNext, ReceiveNext,
           AirdropNext, TickNext, Tick, allVars, portfolioVars, feeVars, feeStateVars
  <2> QED  BY <2>1, RateStep
<1>2. NAVInv => AccruingOftenCostsNoMore
  BY OftenIsNoDearer DEF NAVInv, FundInv
<1> QED  BY <1>1, <1>2, NAVInvariant, PTL DEF AllSpec, RateChangeAccrues

LEMMA ShortAnyStep ==
    ASSUME NAVInv, [AllNext]_allVars, ~UNCHANGED portfolioVars
    PROVE  ShortStep
<1>1. FundTypeOK /\ FundTypeOK'
  BY NAVStep DEF NAVInv, FundInv, FeeInv
<1>2. CASE (PlainNext \/ FeeNext) /\ Bounded /\ UNCHANGED navVars
  BY <1>2, OtherStep
<1>3. CASE NAVNext
  <2>1. \A c \in Component : shortfall(c)' <= shortfall(c)
    BY <1>1, <1>3, NAVNextCases, NAVIssueStep, NAVRedeemStep, UnchangedShort
  <2> QED  BY <1>1, <2>1, NoMoreIsShortStep
<1> QED  BY <1>2, <1>3 DEF AllNext, allVars

\* Only an issue makes the CKToken fall short, by at most the smallest unit of each
\* component for every whole CKToken issued, for every order of all modules'
\* transactions (getRequiredComponentUnitsForIssue).
THEOREM OnlyIssuesFallShort == AllSpec => ShortOnlyByIssues
<1>1. NAVInv /\ [AllNext]_allVars =>
        [ \A c \in Component :
            shortfall(c)' <= shortfall(c)
              + IF totalSupply' > totalSupply /\ positionMultiplier' = positionMultiplier
                THEN (totalSupply' - totalSupply) * PreciseUnit ELSE 0 ]_portfolioVars
  <2> SUFFICES ASSUME NAVInv, [AllNext]_allVars, ~UNCHANGED portfolioVars
               PROVE  \A c \in Component :
                        shortfall(c)' <= shortfall(c)
                          + IF totalSupply' > totalSupply
                               /\ positionMultiplier' = positionMultiplier
                            THEN (totalSupply' - totalSupply) * PreciseUnit ELSE 0
    OBVIOUS
  <2> QED  BY ShortAnyStep DEF ShortStep
<1> QED  BY <1>1, NAVInvariant, PTL DEF AllSpec, ShortOnlyByIssues

-----------------------------------------------------------------------------
(* Airdrops *)

\* No other module touches the airdrops, so their list and mapping agree, and a new
\* fee absorbs what was sent before it, next to fees and net asset value issuance.
THEOREM AirdropsAmongAll == AllSpec => []AirdropListExact /\ FeeChangeAbsorbsFirst
<1>1. [AllNext]_allVars => AirdropNext \/ UNCHANGED airdropVars
  BY DEF AllNext, PlainNext, FeeNext, NAVNext, IssuanceNext, TradeNext, ReceiveNext,
         StreamingFeeNext, TickNext, allVars, portfolioVars, airdropVars
<1>2. Init => AirdropInv
  BY AirdropListInit DEF Init
<1>3. AirdropInv /\ [AllNext]_allVars => AirdropInv'
  BY <1>1, AirdropListStep
<1>4. AirdropInv => AirdropListExact
  BY DEF AirdropInv
<1>5. NAVInv /\ [AllNext]_allVars =>
        [ /\ airdropInitialized /\ airdropInitialized' /\ airdropFee' # airdropFee
          /\ positionMultiplier = PreciseUnit
          => \A c \in Component : contains(airdrops, c) =>
               (amountAirdropped(c)' - 1) * PreciseUnit <= totalSupply ]_<<airdropVars, fundVars>>
  <2>1. NAVInv => FundTypeOK /\ airdropFee \in 0 .. PreciseUnit
    BY DEF NAVInv, FundInv, FeeInv
  <2> QED  BY <1>1, <2>1, FeeChangeAction
<1> QED  BY <1>2, <1>3, <1>4, <1>5, NAVInvariant, PTL DEF AllSpec, FeeChangeAbsorbsFirst

-----------------------------------------------------------------------------
(* Supply and multiplier, as the tests compute them *)

\* The floor is the only integer within its bounds.
LEMMA FloorIs ==
    ASSUME NEW a \in Int, NEW b \in Nat \ {0}, NEW q \in Int, b * q <= a, a < b * q + b
    PROVE  a \div b = q
<1> DEFINE x == a \div b
<1>1. x \in Int /\ b * x <= a /\ a < b * x + b
  BY FloorBounds
<1> HIDE DEF x
<1>2. b * x < b * (q + 1) /\ b * q < b * (x + 1)
  BY <1>1
<1>3. x < q + 1 /\ q < x + 1
  BY <1>1, <1>2
<1> QED  BY <1>1, <1>3 DEF x

\* Scaling by a ratio that was rounded first is less by the rounding of the ratio.
LEMMA ScaledInTwoSteps ==
    ASSUME NEW m \in Nat, NEW s \in Nat, NEW t \in Nat \ {0}
    PROVE  LET ratio == (PreciseUnit * s) \div t
           IN  (m * s) \div t - (m * ratio) \div PreciseUnit \in 0 .. m \div PreciseUnit + 1
<1> DEFINE p == PreciseUnit
           u == (p * s) \div t
           a == (m * s) \div t
           e == (m * u) \div p
           k == m \div p
<1>1. p \in Nat \ {0} /\ p * s \in Nat /\ m * s \in Nat
  BY PreciseUnitAssumption
<1>2. /\ u \in Nat /\ t * u <= p * s /\ p * s < t * u + t
      /\ a \in Nat /\ t * a <= m * s
      /\ k \in Nat /\ m < p * k + p
  <2>1. u \in Nat /\ t * u <= p * s /\ p * s < t * u + t
    BY <1>1, FloorNat, FloorBounds
  <2>2. a \in Nat /\ t * a <= m * s
    BY <1>1, FloorNat, FloorBounds
  <2>3. k \in Nat /\ m < p * k + p
    BY <1>1, FloorNat, FloorBounds
  <2> QED  BY <2>1, <2>2, <2>3
<1> HIDE DEF u, k
<1>3. m * u \in Nat
  BY <1>2
<1>4. e \in Nat /\ p * e <= m * u /\ m * u < p * e + p
  BY <1>1, <1>3, FloorNat, FloorBounds
<1> HIDE DEF e, p
<1>5. e <= a
  <2>1. t * (p * e) <= t * (m * u)
    BY <1>1, <1>3, <1>4
  <2>2. m * (t * u) <= m * (p * s)
    BY <1>1, <1>2
  <2>3. /\ t * (m * u) = m * (t * u) /\ m * (p * s) = p * (m * s) /\ t * (p * e) = p * (t * e)
    BY <1>1, <1>2, <1>4
  <2>4. /\ t * (m * u) \in Nat /\ m * (p * s) \in Nat /\ t * e \in Nat
        /\ m * (t * u) \in Nat /\ t * (p * e) \in Nat
    BY <1>1, <1>2, <1>3, <1>4
  <2>5. p * (t * e) <= p * (m * s)
    <3>1. t * (p * e) <= m * (p * s)
      BY <2>1, <2>2, <2>3, <2>4
    <3> QED  BY <2>3, <3>1
  <2>6. t * e <= m * s
    BY <1>1, <2>4, <2>5
  <2>7. m * s \in Int /\ e \in Int
    BY <1>1, <1>4
  <2> QED  BY <2>6, <2>7, FloorIsGreatest
<1> HIDE DEF a
<1>6. a < e + k + 2
  <2>1. p * (t * a) <= p * (m * s) /\ m * (p * s) <= m * (t * u + t)
    BY <1>1, <1>2
  <2>2. /\ p * (m * s) = m * (p * s) /\ m * (t * u + t) = t * (m * u + m)
        /\ p * (t * a) = t * (p * a)
    BY <1>1, <1>2
  <2>3. /\ p * (t * a) \in Nat /\ p * (m * s) \in Nat /\ m * (t * u + t) \in Nat
        /\ p * a \in Nat
    BY <1>1, <1>2
  <2>4. t * (p * a) <= t * (m * u + m)
    BY <2>1, <2>2, <2>3
  <2>5. p * a <= m * u + m
    BY <1>3, <2>3, <2>4
  <2>6. m * u + m < p * (e + k + 2)
    <3>1. p * (e + k + 2) = p * e + p * k + p + p
      BY <1>1, <1>2, <1>4
    <3>2. p * e \in Nat /\ p * k \in Nat
      BY <1>1, <1>2, <1>4
    <3> QED  BY <1>1, <1>2, <1>3, <1>4, <3>1, <3>2
  <2>7. p * a < p * (e + k + 2)
    <3>1. p * (e + k + 2) \in Nat
      BY <1>1, <1>2, <1>4
    <3> QED  BY <1>3, <2>3, <2>5, <2>6, <3>1
  <2> QED  BY <1>1, <1>2, <1>4, <2>7
<1>7. a - e \in 0 .. k + 1
  BY <1>2, <1>4, <1>5, <1>6
<1> QED  BY <1>7 DEF a, e, u, k, p

\* What is left when a part is taken off, rounded up, and what there is with a
\* part added, rounded down.
LEMMA PartsOfOne ==
    ASSUME NEW a \in Nat, NEW b \in Nat \ {0}
    PROVE  /\ a <= b =>
                PreciseUnit - Expected!preciseDivCeil(a, b) = (PreciseUnit * (b - a)) \div b
           /\ PreciseUnit + Expected!preciseDiv(a, b) = (PreciseUnit * (a + b)) \div b
<1> DEFINE p == PreciseUnit
           n == a * p
<1>1. p \in Nat \ {0} /\ n \in Nat
  BY PreciseUnitAssumption
<1>2. ASSUME a <= b
      PROVE  p - Expected!preciseDivCeil(a, b) = (p * (b - a)) \div b
  <2>1. CASE a = 0
    <3>1. Expected!preciseDivCeil(a, b) = 0
      BY <2>1 DEF Expected!preciseDivCeil
    <3>2. p * (b - a) = p * b
      BY <2>1
    <3> HIDE DEF p
    <3>3. p * b \in Int /\ p \in Int /\ b * p <= p * b /\ p * b < b * p + b
      BY <1>1
    <3>4. (p * b) \div b = p
      BY <3>3, FloorIs
    <3> QED  BY <1>1, <3>1, <3>2, <3>4
  <2>2. CASE a # 0
    <3> DEFINE x == (n - 1) \div b
    <3>1. n - 1 \in Nat
      BY <1>1, <2>2
    <3>2. Expected!preciseDivCeil(a, b) = x + 1
      <4>1. \A i \in Nat, j \in Nat \ {0} : Expected!div(i, j) = i \div j
        BY ExpectedNat
      <4> QED  BY <2>2, <3>1, <4>1 DEF Expected!preciseDivCeil
    <3>3. x \in Nat /\ b * x <= n - 1 /\ n - 1 < b * x + b
      BY <3>1, FloorNat, FloorBounds
    <3> HIDE DEF x
    <3> DEFINE y == p - (x + 1)
    <3>4. b * y = p * b - b * x - b /\ p * (b - a) = p * b - n
      BY <1>1, <3>3
    <3>5. p * b \in Nat /\ b * x \in Nat /\ y \in Int /\ p * (b - a) \in Int
      BY <1>1, <3>3
    <3> HIDE DEF y, n
    <3>6. b * y <= p * (b - a) /\ p * (b - a) < b * y + b
      BY <1>1, <3>1, <3>3, <3>4, <3>5
    <3>7. (p * (b - a)) \div b = y
      BY <3>5, <3>6, FloorIs
    <3> QED  BY <3>2, <3>7 DEF y
  <2> QED  BY <2>1, <2>2
<1>3. p + Expected!preciseDiv(a, b) = (p * (a + b)) \div b
  <2> DEFINE x == n \div b
             y == p + x
  <2>1. Expected!preciseDiv(a, b) = x
    BY ExpectedNat
  <2>2. x \in Nat /\ b * x <= n /\ n < b * x + b
    BY <1>1, FloorNat, FloorBounds
  <2> HIDE DEF x
  <2>3. b * y = p * b + b * x /\ p * (a + b) = p * b + n
    BY <1>1, <2>2
  <2>4. p * b \in Nat /\ b * x \in Nat /\ y \in Int /\ p * (a + b) \in Int
    BY <1>1, <2>2
  <2> HIDE DEF y, n
  <2>5. b * y <= p * (a + b) /\ p * (a + b) < b * y + b
    BY <1>1, <2>2, <2>3, <2>4
  <2>6. (p * (a + b)) \div b = y
    BY <2>4, <2>5, FloorIs
  <2> QED  BY <2>1, <2>6 DEF y
<1> QED  BY <1>2, <1>3

LEMMA IssueAsTested ==
    ASSUME NAVInv, NEW reserve \in Component, NEW quantity \in Nat, NAVIssue(reserve, quantity)
    PROVE  positionMultiplier' - Expected!getExpectedIssuePositionMultiplier(
                                   positionMultiplier, totalSupply, totalSupply')
             \in 0 .. positionMultiplier \div PreciseUnit + 1
<1> DEFINE m == positionMultiplier
           s == totalSupply
           t == totalSupply'
           ratio == (PreciseUnit * s) \div t
<1>1. /\ m \in Nat /\ s \in Nat /\ t \in Nat \ {0} /\ t >= s
      /\ positionMultiplier' = (m * s) \div t
  BY NAVIssueStep DEF NAVInv, FundInv, FeeInv, FundTypeOK
<1> HIDE DEF m, s, t
<1>2. t - s \in Nat /\ t - s <= t /\ t - (t - s) = s
  BY <1>1
<1>3. PreciseUnit - Expected!preciseDivCeil(t - s, t) = ratio
  BY <1>1, <1>2, PartsOfOne
<1>4. ratio \in Nat
  <2>1. PreciseUnit * s \in Nat
    BY <1>1, PreciseUnitAssumption
  <2> QED  BY <1>1, <2>1, FloorNat
<1> HIDE DEF ratio
<1>5. Expected!getExpectedIssuePositionMultiplier(m, s, t) = (m * ratio) \div PreciseUnit
  BY <1>1, <1>3, <1>4, ExpectedNat DEF Expected!getExpectedIssuePositionMultiplier
<1>6. (m * s) \div t - (m * ratio) \div PreciseUnit \in 0 .. m \div PreciseUnit + 1
  BY <1>1, ScaledInTwoSteps DEF ratio
<1> QED  BY <1>1, <1>5, <1>6 DEF m, s, t

LEMMA RedeemAsTested ==
    ASSUME NAVInv, NEW reserve \in Component, NEW quantity \in Nat, NAVRedeem(reserve, quantity)
    PROVE  positionMultiplier' - Expected!getExpectedRedeemPositionMultiplier(
                                   positionMultiplier, totalSupply, totalSupply')
             \in 0 .. positionMultiplier \div PreciseUnit + 1
<1> DEFINE m == positionMultiplier
           s == totalSupply
           t == totalSupply'
           ratio == (PreciseUnit * s) \div t
<1>1. /\ m \in Nat /\ s \in Nat /\ t \in Nat \ {0} /\ t <= s
      /\ positionMultiplier' = (m * s) \div t
  BY NAVRedeemStep DEF NAVInv, FundInv, FeeInv, FundTypeOK
<1> HIDE DEF m, s, t
<1>2. s - t \in Nat /\ (s - t) + t = s
  BY <1>1
<1>3. PreciseUnit + Expected!preciseDiv(s - t, t) = ratio
  BY <1>1, <1>2, PartsOfOne
<1>4. ratio \in Nat
  <2>1. PreciseUnit * s \in Nat
    BY <1>1, PreciseUnitAssumption
  <2> QED  BY <1>1, <2>1, FloorNat
<1> HIDE DEF ratio
<1>5. Expected!getExpectedRedeemPositionMultiplier(m, s, t) = (m * ratio) \div PreciseUnit
  BY <1>1, <1>3, <1>4, ExpectedNat DEF Expected!getExpectedRedeemPositionMultiplier
<1>6. (m * s) \div t - (m * ratio) \div PreciseUnit \in 0 .. m \div PreciseUnit + 1
  BY <1>1, ScaledInTwoSteps DEF ratio
<1> QED  BY <1>1, <1>5, <1>6 DEF m, s, t

\* A unit read at the multiplier after a fee, and a unit read before it, less the
\* fee.
LEMMA ScaledUnit ==
    ASSUME NEW v \in Nat, NEW m \in Nat, NEW left \in 0 .. PreciseUnit
    PROVE  LET after == (v * ((m * left) \div PreciseUnit)) \div PreciseUnit
               e     == (((v * m) \div PreciseUnit) * left) \div PreciseUnit
           IN  after - e \in -(v \div PreciseUnit + 1) .. 1
<1> DEFINE p == PreciseUnit
           r == (v * m) \div p
           n == (m * left) \div p
           a == (v * n) \div p
           e == (r * left) \div p
           k == v \div p
<1>1. /\ p \in Nat \ {0} /\ left \in Nat /\ left <= p
      /\ v * m \in Nat /\ m * left \in Nat
  BY PreciseUnitAssumption
<1> HIDE DEF p
<1>2. r \in Nat /\ p * r <= v * m /\ v * m < p * r + p
  BY <1>1, FloorNat, FloorBounds
<1>3. n \in Nat /\ p * n <= m * left /\ m * left < p * n + p
  BY <1>1, FloorNat, FloorBounds
<1>4. k \in Nat /\ v < p * k + p
  BY <1>1, FloorNat, FloorBounds
<1> HIDE DEF r, n, k
<1>5. v * n \in Nat /\ r * left \in Nat
  BY <1>1, <1>2, <1>3
<1>6. a \in Nat /\ p * a <= v * n /\ v * n < p * a + p
  <2>1. a \in Nat
    BY <1>1, <1>5, FloorNat
  <2>2. p * a <= v * n /\ v * n < p * a + p
    <3>1. v * n \in Int
      BY <1>5
    <3> QED  BY <1>1, <3>1, FloorBounds
  <2> QED  BY <2>1, <2>2
<1>7. e \in Nat /\ p * e <= r * left /\ r * left < p * e + p
  <2>1. e \in Nat
    BY <1>1, <1>5, FloorNat
  <2>2. p * e <= r * left /\ r * left < p * e + p
    <3>1. r * left \in Int
      BY <1>5
    <3> QED  BY <1>1, <3>1, FloorBounds
  <2> QED  BY <2>1, <2>2
<1> HIDE DEF a, e
<1> DEFINE whole == v * m * left
<1>8. whole \in Nat /\ whole = v * (m * left) /\ whole = (v * m) * left
  BY <1>1
<1> HIDE DEF whole
<1>9. p * (v * n) <= whole
  <2>1. v * (p * n) <= v * (m * left)
    BY <1>1, <1>3
  <2>2. v * (p * n) = p * (v * n)
    BY <1>1, <1>3
  <2> QED  BY <1>8, <2>1, <2>2
<1>10. whole <= p * (v * n) + v * p
  <2>1. v * (m * left) <= v * (p * n + p)
    BY <1>1, <1>3
  <2>2. v * (p * n + p) = p * (v * n) + v * p
    BY <1>1, <1>3
  <2> QED  BY <1>8, <2>1, <2>2
<1>11. p * (r * left) <= whole
  <2>1. (p * r) * left <= (v * m) * left
    BY <1>1, <1>2
  <2>2. (p * r) * left = p * (r * left)
    BY <1>1, <1>2
  <2> QED  BY <1>8, <2>1, <2>2
<1>12. whole <= p * (r * left) + p * p
  <2>1. (v * m) * left <= (p * r + p) * left
    BY <1>1, <1>2
  <2>2. (p * r + p) * left = p * (r * left) + p * left
    BY <1>1, <1>2
  <2>3. p * left <= p * p /\ p * left \in Nat /\ p * p \in Nat /\ p * (r * left) \in Nat
    BY <1>1, <1>5
  <2> QED  BY <1>8, <2>1, <2>2, <2>3
<1>13. a < e + 2
  <2>1. p * (p * a) <= p * (v * n)
    BY <1>1, <1>5, <1>6
  <2>2. p * (r * left + p) < p * (p * e + p + p)
    BY <1>1, <1>5, <1>7
  <2>3. p * (r * left + p) = p * (r * left) + p * p /\ p * e + p + p = p * (e + 2)
    BY <1>1, <1>5, <1>7
  <2>4. /\ p * (p * a) \in Nat /\ p * (v * n) \in Nat /\ p * (r * left) \in Nat /\ p * p \in Nat
        /\ p * (p * (e + 2)) \in Nat
    BY <1>1, <1>5, <1>6, <1>7
  <2>5. p * (p * a) < p * (p * (e + 2))
    BY <1>8, <1>9, <1>12, <2>1, <2>2, <2>3, <2>4
  <2>6. p * a \in Nat /\ p * (e + 2) \in Nat
    BY <1>1, <1>6, <1>7
  <2>7. p * a < p * (e + 2)
    BY <1>1, <2>5, <2>6
  <2> QED  BY <1>1, <1>6, <1>7, <2>7
<1>14. e < a + k + 2
  <2>1. p * (p * e) <= p * (r * left)
    BY <1>1, <1>5, <1>7
  <2>2. p * (v * n + v) < p * ((p * a + p) + (p * k + p))
    BY <1>1, <1>4, <1>5, <1>6
  <2>3. p * (v * n + v) = p * (v * n) + v * p
        /\ (p * a + p) + (p * k + p) = p * (a + k + 2)
    BY <1>1, <1>4, <1>5, <1>6
  <2>4. /\ p * (p * e) \in Nat /\ p * (v * n) \in Nat /\ p * (r * left) \in Nat /\ v * p \in Nat
        /\ p * (p * (a + k + 2)) \in Nat
    BY <1>1, <1>4, <1>5, <1>6, <1>7
  <2>5. p * (p * e) < p * (p * (a + k + 2))
    BY <1>8, <1>10, <1>11, <2>1, <2>2, <2>3, <2>4
  <2>6. p * e \in Nat /\ p * (a + k + 2) \in Nat
    BY <1>1, <1>4, <1>6, <1>7
  <2>7. p * e < p * (a + k + 2)
    BY <1>1, <2>5, <2>6
  <2> QED  BY <1>1, <1>4, <1>6, <1>7, <2>7
<1>15. a - e \in -(k + 1) .. 1
  BY <1>4, <1>6, <1>7, <1>13, <1>14
<1> QED  BY <1>15 DEF a, e, k, r, n, p

LEMMA AccrualMatches ==
    ASSUME FeeInv, AccrueFee, streamingFeePercentage > 0
    PROVE  LET fee == Expected!getStreamingFee(lastStreamingFeeTimestamp, now, streamingFeePercentage)
           IN  /\ totalSupply' - totalSupply =
                    Expected!getStreamingFeeInflationAmount(fee, totalSupply)
               /\ \A c \in Component :
                    realUnits'[c] - Expected!getPostFeePositionUnits(realUnits, fee)[c]
                      \in -(virtualUnit[c] \div PreciseUnit + 1) .. 1
<1> DEFINE fee  == calculateStreamingFee
           m    == positionMultiplier
           left == PreciseUnit - fee
<1>1. /\ FundTypeOK /\ totalSupply \in Nat /\ m \in Nat /\ virtualUnit \in [Component -> Nat]
      /\ PreciseUnit \in Nat \ {0}
  BY PreciseUnitAssumption DEF FeeInv, FundTypeOK
<1>2. /\ fee < PreciseUnit
      /\ totalSupply' = totalSupply + (fee * totalSupply) \div left
      /\ positionMultiplier' = newMultiplier(fee) /\ virtualUnit' = virtualUnit
  BY DEF AccrueFee, Accrued, calculateStreamingFeeInflation
<1>3. fee \in Nat
  BY FeeBounds
<1>4. Expected!getStreamingFee(lastStreamingFeeTimestamp, now, streamingFeePercentage) = fee
  <2>1. (now - lastStreamingFeeTimestamp) * streamingFeePercentage \in Nat
        /\ OneYear \in Nat \ {0}
    BY OneYearAssumption DEF FeeInv
  <2> QED  BY <2>1, ExpectedNat DEF Expected!getStreamingFee, calculateStreamingFee
<1> HIDE DEF fee
<1>5. left \in Nat \ {0} /\ left \in 0 .. PreciseUnit
  BY <1>1, <1>2, <1>3
<1>6. totalSupply' - totalSupply = Expected!getStreamingFeeInflationAmount(fee, totalSupply)
  <2>1. fee * totalSupply \in Nat
    BY <1>1, <1>3
  <2>2. (fee * totalSupply) \div left \in Nat
    BY <1>5, <2>1, FloorNat
  <2>3. Expected!getStreamingFeeInflationAmount(fee, totalSupply) = (fee * totalSupply) \div left
    BY <1>5, <2>1, ExpectedNat DEF Expected!getStreamingFeeInflationAmount
  <2> HIDE DEF left
  <2> QED  BY <1>1, <1>2, <2>2, <2>3
<1>7. positionMultiplier' = (m * left) \div PreciseUnit /\ positionMultiplier' \in Nat
  <2>1. m * left \in Nat
    BY <1>1, <1>5
  <2> QED  BY <1>1, <1>2, <2>1, FloorNat DEF newMultiplier, preciseMulInt, truncDiv
<1>8. ASSUME NEW c \in Component
      PROVE  realUnits'[c] - Expected!getPostFeePositionUnits(realUnits, fee)[c]
               \in -(virtualUnit[c] \div PreciseUnit + 1) .. 1
  <2> DEFINE v == virtualUnit[c]
  <2>1. v \in Nat /\ v \in Int /\ m \in Int /\ positionMultiplier' \in Int
    BY <1>1, <1>7
  <2>2. realUnits[c] = (v * m) \div PreciseUnit /\ realUnits[c] \in Nat
    BY <1>1, <2>1, RealUnitsNat, ConservativeMul DEF getDefaultPositionRealUnit
  <2>3. realUnits'[c] = (v * positionMultiplier') \div PreciseUnit
    BY <1>2, <2>1, ConservativeMul DEF realUnits, getDefaultPositionRealUnit
  <2>4. Expected!getPostFeePositionUnits(realUnits, fee)[c]
          = (realUnits[c] * left) \div PreciseUnit
    <3>1. DOMAIN realUnits = Component
      BY DEF realUnits
    <3>2. Expected!preciseMul(realUnits[c], left) = (realUnits[c] * left) \div PreciseUnit
      BY <1>5, <2>2, ExpectedNat
    <3>3. Expected!getPostFeePositionUnits(realUnits, fee)[c]
            = Expected!preciseMul(realUnits[c], left)
      BY <2>2, <3>1 DEF Expected!getPostFeePositionUnits
    <3> QED  BY <3>2, <3>3
  <2> HIDE DEF v, m, left
  <2>5. /\ realUnits'[c] = (v * ((m * left) \div PreciseUnit)) \div PreciseUnit
        /\ Expected!getPostFeePositionUnits(realUnits, fee)[c]
             = (((v * m) \div PreciseUnit) * left) \div PreciseUnit
    BY <1>7, <2>2, <2>3, <2>4
  <2>6. (v * ((m * left) \div PreciseUnit)) \div PreciseUnit
          - (((v * m) \div PreciseUnit) * left) \div PreciseUnit
          \in -(v \div PreciseUnit + 1) .. 1
    BY <1>1, <1>5, <2>1, ScaledUnit
  <2> QED  BY <2>5, <2>6 DEF v
<1> QED  BY <1>4, <1>6, <1>8

\* What an issue, a redemption and an accrual do to supply and multiplier is what
\* the tests compute for them, within the rounding of the tests' two steps, so
\* that tests and contracts cannot drift apart over a long sequence of calls.
THEOREM ScalingMatchesTests == AllSpec => ScalingAsTested
<1>1. NAVInv =>
        [ LET excess(expected) == positionMultiplier' - expected
              rounding         == 0 .. positionMultiplier \div PreciseUnit + 1
          IN  \A reserve \in Reserves :
                /\ \A quantity \in NAVQuantities :
                     NAVIssue(reserve, quantity) =>
                       excess(Expected!getExpectedIssuePositionMultiplier(
                                positionMultiplier, totalSupply, totalSupply')) \in rounding
                /\ \A quantity \in Quantities :
                     NAVRedeem(reserve, quantity) =>
                       excess(Expected!getExpectedRedeemPositionMultiplier(
                                positionMultiplier, totalSupply, totalSupply')) \in rounding
        ]_allVars
  <2> SUFFICES ASSUME NAVInv, NEW reserve \in Reserves
               PROVE  /\ \A quantity \in NAVQuantities :
                           NAVIssue(reserve, quantity) =>
                             positionMultiplier' - Expected!getExpectedIssuePositionMultiplier(
                                  positionMultiplier, totalSupply, totalSupply')
                               \in 0 .. positionMultiplier \div PreciseUnit + 1
                      /\ \A quantity \in Quantities :
                           NAVRedeem(reserve, quantity) =>
                             positionMultiplier' - Expected!getExpectedRedeemPositionMultiplier(
                                  positionMultiplier, totalSupply, totalSupply')
                               \in 0 .. positionMultiplier \div PreciseUnit + 1
    OBVIOUS
  <2>1. /\ reserve \in Component
        /\ \A quantity \in NAVQuantities : quantity \in Nat
        /\ \A quantity \in Quantities : quantity \in Nat
    BY NAVPortfolioAssumption, PortfolioAssumption
  <2> QED  BY <2>1, IssueAsTested, RedeemAsTested
<1>2. NAVInv =>
        [ AccrueFee /\ streamingFeePercentage > 0 =>
            LET fee == Expected!getStreamingFee(lastStreamingFeeTimestamp, now,
                                                streamingFeePercentage)
            IN  /\ totalSupply' - totalSupply =
                     Expected!getStreamingFeeInflationAmount(fee, totalSupply)
                /\ \A c \in Component :
                     realUnits'[c] - Expected!getPostFeePositionUnits(realUnits, fee)[c]
                       \in -(virtualUnit[c] \div PreciseUnit + 1) .. 1 ]_allVars
  BY AccrualMatches DEF NAVInv, FundInv
<1> QED  BY <1>1, <1>2, NAVInvariant, PTL
         DEF AllSpec, ScalingAsTested, MultiplierAsTested, AccrualAsTested

-----------------------------------------------------------------------------
(* What a caller pays and gets, as the tests compute it *)

\* A quantity without two parts of it, each rounded down.
LEMMA WithoutParts ==
    ASSUME NEW q \in Nat, NEW i \in Nat, NEW j \in Nat, i + j <= PreciseUnit
    PROVE  LET rest == q - (i * q) \div PreciseUnit - (j * q) \div PreciseUnit
           IN  /\ rest \in Nat
               /\ q * (PreciseUnit - (i + j)) <= PreciseUnit * rest
               /\ PreciseUnit * rest < q * (PreciseUnit - (i + j)) + 2 * PreciseUnit
<1> DEFINE p == PreciseUnit
           x == (i * q) \div p
           y == (j * q) \div p
           rest == q - x - y
<1>1. p \in Nat \ {0} /\ i * q \in Nat /\ j * q \in Nat
  BY PreciseUnitAssumption
<1>2. x \in Nat /\ p * x <= i * q /\ i * q < p * x + p
  BY <1>1, FloorNat, FloorBounds
<1>3. y \in Nat /\ p * y <= j * q /\ j * q < p * y + p
  BY <1>1, FloorNat, FloorBounds
<1> HIDE DEF x, y
<1>4. /\ p * rest = p * q - p * x - p * y /\ rest \in Int
      /\ q * (p - (i + j)) = p * q - i * q - j * q
  BY <1>1, <1>2, <1>3
<1>5. p * q \in Nat /\ p * x \in Nat /\ p * y \in Nat /\ q * (p - (i + j)) \in Int
  BY <1>1, <1>2, <1>3
<1> HIDE DEF rest
<1>6. q * (p - (i + j)) <= p * rest /\ p * rest < q * (p - (i + j)) + 2 * p
  BY <1>1, <1>2, <1>3, <1>4, <1>5
<1>7. rest \in Nat
  <2>1. p - (i + j) \in Nat
    BY <1>1
  <2>2. q * (p - (i + j)) \in Nat
    BY <2>1
  <2>3. p * rest \in Int /\ rest \in Int
    BY <1>1, <1>4
  <2> DEFINE left == q * (p - (i + j))
  <2>4. left \in Nat /\ left <= p * rest
    BY <1>6, <2>2
  <2> HIDE DEF left, p
  <2>5. p * rest >= 0
    BY <2>3, <2>4
  <2> QED  BY <1>1, <2>3, <2>5
<1> QED  BY <1>6, <1>7 DEF rest, x, y, p

LEMMA PostFeeIs ==
    ASSUME NEW q \in Nat, NEW f \in Nat
    PROVE  Expected!getExpectedPostFeeQuantity(q, f, DirectFee)
             = q - (f * q) \div PreciseUnit - (DirectFee * q) \div PreciseUnit
<1>1. DirectFee \in Nat
  BY NAVAssumption
<1>2. q * f = f * q /\ q * DirectFee = DirectFee * q
  BY <1>1
<1> QED  BY <1>1, <1>2, ExpectedNat DEF Expected!getExpectedPostFeeQuantity

LEMMA NetFlowIs ==
    ASSUME NAVInv, NEW side \in Side, NEW q \in Nat
    PROVE  LET rs == protocolRevenueShare(side)
           IN  netFlow(side, q) = q - ((rs + DirectFee) * q) \div PreciseUnit
                                    - ((managerFees[side] - rs) * q) \div PreciseUnit
BY DEF netFlow, protocolFees, managerFee, preciseMul

LEMMA FlowMatches ==
    ASSUME NAVInv
    PROVE  FlowAsTested
<1> SUFFICES ASSUME NEW side \in Side, NEW q \in 0 .. MaxBalance
             PROVE  netFlow(side, q)
                      - Expected!getExpectedPostFeeQuantity(q, managerFees[side], DirectFee)
                      \in -1 .. 1
  BY DEF FlowAsTested
<1> DEFINE p  == PreciseUnit
           f  == managerFees[side]
           rs == protocolRevenueShare(side)
           a  == (rs + DirectFee) * q
           b  == (f - rs) * q
           c  == f * q
           d  == DirectFee * q
<1>1. /\ q \in Nat /\ f \in Nat /\ rs \in 0 .. f /\ DirectFee \in Nat /\ p \in Nat \ {0}
  BY FeesLeave, PortfolioAssumption, NAVAssumption, PreciseUnitAssumption DEF NAVInv
<1>2. /\ netFlow(side, q) = q - a \div p - b \div p
      /\ Expected!getExpectedPostFeeQuantity(q, f, DirectFee) = q - c \div p - d \div p
  BY <1>1, NetFlowIs, PostFeeIs
<1> HIDE DEF f, rs, p
<1>3. a \in Nat /\ b \in Nat /\ c \in Nat /\ d \in Nat /\ a + b = c + d
  BY <1>1
<1> HIDE DEF a, b, c, d
<1>4. /\ (a + b) \div p - a \div p - b \div p \in 0 .. 1
      /\ (c + d) \div p - c \div p - d \div p \in 0 .. 1
  BY <1>1, <1>3, FloorsAdd
<1>5. /\ a \div p \in Nat /\ b \div p \in Nat /\ c \div p \in Nat /\ d \div p \in Nat
      /\ (c + d) \div p \in Nat
  BY <1>1, <1>3, FloorNat
<1> DEFINE i == a \div p
           j == b \div p
           k == c \div p
           l == d \div p
           n == (c + d) \div p
<1>6. n - i - j \in 0 .. 1 /\ n - k - l \in 0 .. 1
  BY <1>3, <1>4
<1>7. i \in Nat /\ j \in Nat /\ k \in Nat /\ l \in Nat /\ n \in Nat
  BY <1>5
<1> HIDE DEF i, j, k, l, n
<1>8. (q - i - j) - (q - k - l) \in -1 .. 1
  BY <1>1, <1>6, <1>7
<1> QED  BY <1>2, <1>8 DEF i, j, k, l, f

\* A chain of roundings, each of a product with a part of the precise unit: the
\* contract's, of a quantity x through the base unit, the premium and the fees, and
\* the tests', through the premium, the fees and the base unit.
LEMMA BothOrders ==
    ASSUME NEW p \in Nat \ {0}, NEW x \in Nat, NEW base \in Nat \ {0},
           NEW k \in 0 .. p, NEW l \in 0 .. p,
           NEW pre \in Nat, p * pre <= x * base, x * base < p * pre + p,
           NEW out \in Nat, p * out <= pre * l, pre * l < p * out + p,
           NEW net \in Nat, out * k <= p * net, p * net < out * k + 2 * p,
           NEW y \in Nat, p * y <= x * l, x * l < p * y + p,
           NEW inner \in Nat, y * k <= p * inner, p * inner < y * k + 2 * p,
           NEW e \in Nat, p * e <= inner * base, inner * base < p * e + p
    PROVE  /\ p * (net - e) < 3 * p + base
           /\ p * (e - net) < 2 * p + 2 * base
<1> DEFINE whole == (k * l) * (x * base)
<1>1. k \in Nat /\ l \in Nat /\ k * l \in Nat /\ x * base \in Nat /\ whole \in Nat
      /\ k <= p /\ l <= p /\ p * p \in Nat /\ base * p \in Nat /\ k * l <= p * p
  OBVIOUS
<1> HIDE DEF whole
\* The contract's, from above.
<1>2. p * (p * (p * net)) < whole + 2 * (p * (p * p))
  <2>1. p * (out * k) <= k * (pre * l)
    <3>1. k * (p * out) <= k * (pre * l)
      BY <1>1
    <3> QED  BY <1>1, <3>1, p * (out * k) = k * (p * out)
  <2>2. p * (k * (pre * l)) <= whole
    <3>1. (k * l) * (p * pre) <= (k * l) * (x * base)
      BY <1>1
    <3> QED  BY <1>1, <3>1, p * (k * (pre * l)) = (k * l) * (p * pre) DEF whole
  <2>3. p * (p * net) < k * (pre * l) + 2 * (p * p)
    <3>1. p * (p * net) < p * (out * k + 2 * p)
      BY <1>1
    <3>2. p * (out * k + 2 * p) = p * (out * k) + 2 * (p * p)
      BY <1>1
    <3>3. p * (out * k) \in Nat /\ k * (pre * l) \in Nat /\ p * (p * net) \in Nat
      BY <1>1
    <3> QED  BY <1>1, <2>1, <3>1, <3>2, <3>3
  <2>4. p * (p * (p * net)) < p * (k * (pre * l) + 2 * (p * p))
    <3>1. k * (pre * l) \in Nat /\ p * (p * net) \in Nat
      BY <1>1
    <3> QED  BY <1>1, <2>3, <3>1
  <2>5. p * (k * (pre * l) + 2 * (p * p)) = p * (k * (pre * l)) + 2 * (p * (p * p))
    BY <1>1
  <2>6. /\ p * (k * (pre * l)) \in Nat /\ p * (p * p) \in Nat /\ p * (p * (p * net)) \in Nat
    BY <1>1
  <2> QED  BY <1>1, <2>2, <2>4, <2>5, <2>6
\* The contract's, from below.
<1>3. whole <= p * (p * (p * net)) + 2 * (p * (p * p))
  <2>1. whole <= p * (k * (pre * l)) + p * (p * p)
    <3>1. (k * l) * (x * base) <= (k * l) * (p * pre + p)
      BY <1>1
    <3>2. (k * l) * (p * pre + p) = p * (k * (pre * l)) + p * (k * l)
      BY <1>1
    <3>3. p * (k * l) <= p * (p * p)
      BY <1>1
    <3>4. p * (k * (pre * l)) \in Nat /\ p * (k * l) \in Nat /\ p * (p * p) \in Nat
      BY <1>1
    <3> QED  BY <1>1, <3>1, <3>2, <3>3, <3>4 DEF whole
  <2>2. k * (pre * l) <= p * (out * k) + p * p
    <3>1. k * (pre * l) <= k * (p * out + p)
      BY <1>1
    <3>2. k * (p * out + p) = p * (out * k) + p * k
      BY <1>1
    <3>3. p * k <= p * p
      BY <1>1
    <3>4. k * (pre * l) \in Nat /\ p * (out * k) \in Nat /\ p * k \in Nat
      BY <1>1
    <3> QED  BY <1>1, <3>1, <3>2, <3>3, <3>4
  <2>3. p * (out * k) <= p * (p * net)
    BY <1>1
  <2>4. /\ k * (pre * l) \in Nat /\ p * (out * k) \in Nat /\ p * (p * net) \in Nat
    BY <1>1
  <2>5. k * (pre * l) <= p * (p * net) + p * p
    BY <1>1, <2>2, <2>3, <2>4
  <2>6. p * (k * (pre * l)) <= p * (p * (p * net) + p * p)
    BY <1>1, <2>4, <2>5
  <2>7. p * (p * (p * net) + p * p) = p * (p * (p * net)) + p * (p * p)
    BY <1>1
  <2>8. /\ p * (k * (pre * l)) \in Nat /\ p * (p * p) \in Nat /\ p * (p * (p * net)) \in Nat
    BY <1>1
  <2> QED  BY <1>1, <2>1, <2>6, <2>7, <2>8
\* The tests', from above.
<1>4. p * (p * (p * e)) < whole + 2 * (p * (p * base))
  <2>1. p * (p * e) <= base * (p * inner)
    <3>1. p * (p * e) <= p * (inner * base)
      BY <1>1
    <3> QED  BY <1>1, <3>1, p * (inner * base) = base * (p * inner)
  <2>2. base * (p * inner) < base * (y * k) + 2 * (p * base)
    <3>1. base * (p * inner) < base * (y * k + 2 * p)
      <4>1. p * inner \in Nat /\ y * k + 2 * p \in Nat
        BY <1>1
      <4> QED  BY <4>1
    <3>2. base * (y * k + 2 * p) = base * (y * k) + 2 * (p * base)
      BY <1>1
    <3> QED  BY <3>1, <3>2
  <2>3. p * (base * (y * k)) <= whole
    <3>1. (base * k) * (p * y) <= (base * k) * (x * l)
      <4>1. base * k \in Nat /\ p * y \in Nat /\ x * l \in Nat
        BY <1>1
      <4> QED  BY <4>1
    <3>2. (base * k) * (p * y) = p * (base * (y * k)) /\ (base * k) * (x * l) = whole
      BY <1>1 DEF whole
    <3> QED  BY <3>1, <3>2
  <2>4. /\ p * (p * e) \in Nat /\ base * (y * k) \in Nat /\ p * base \in Nat
        /\ base * (p * inner) \in Nat
    BY <1>1
  <2>5. p * (p * (p * e)) < p * (base * (y * k) + 2 * (p * base))
    BY <1>1, <2>1, <2>2, <2>4
  <2>6. p * (base * (y * k) + 2 * (p * base)) = p * (base * (y * k)) + 2 * (p * (p * base))
    BY <1>1
  <2>7. /\ p * (base * (y * k)) \in Nat /\ p * (p * base) \in Nat /\ p * (p * (p * e)) \in Nat
    BY <1>1
  <2> QED  BY <1>1, <2>3, <2>5, <2>6, <2>7
\* The tests', from below.
<1>5. whole < p * (p * (p * e)) + p * (p * p) + p * (p * base)
  <2>1. whole <= p * (base * (y * k)) + p * (p * base)
    <3>1. (base * k) * (x * l) <= (base * k) * (p * y + p)
      <4>1. base * k \in Nat /\ p * y + p \in Nat /\ x * l \in Nat
        BY <1>1
      <4> QED  BY <4>1
    <3>2. /\ (base * k) * (p * y + p) = p * (base * (y * k)) + p * (base * k)
          /\ (base * k) * (x * l) = whole
      BY <1>1 DEF whole
    <3>3. p * (base * k) <= p * (p * base)
      BY <1>1
    <3>4. p * (base * (y * k)) \in Nat /\ p * (base * k) \in Nat /\ p * (p * base) \in Nat
      BY <1>1
    <3> QED  BY <1>1, <3>1, <3>2, <3>3, <3>4
  <2>2. base * (y * k) < p * (p * e) + p * p
    <3>1. base * (y * k) <= base * (p * inner)
      <4>1. y * k \in Nat /\ p * inner \in Nat
        BY <1>1
      <4> QED  BY <4>1
    <3>2. p * (inner * base) < p * (p * e + p)
      <4>1. inner * base \in Nat /\ p * e + p \in Nat
        BY <1>1
      <4> QED  BY <4>1
    <3>3. base * (p * inner) = p * (inner * base) /\ p * (p * e + p) = p * (p * e) + p * p
      BY <1>1
    <3>4. base * (y * k) \in Nat /\ p * (inner * base) \in Nat /\ p * (p * e) \in Nat
      BY <1>1
    <3> QED  BY <1>1, <3>1, <3>2, <3>3, <3>4
  <2>3. base * (y * k) \in Nat /\ p * (p * e) \in Nat
    BY <1>1
  <2>4. p * (base * (y * k)) < p * (p * (p * e) + p * p)
    BY <1>1, <2>2, <2>3
  <2>5. p * (p * (p * e) + p * p) = p * (p * (p * e)) + p * (p * p)
    BY <1>1
  <2>6. /\ p * (base * (y * k)) \in Nat /\ p * (p * p) \in Nat /\ p * (p * (p * e)) \in Nat
        /\ p * (p * base) \in Nat
    BY <1>1
  <2> QED  BY <1>1, <2>1, <2>4, <2>5, <2>6
<1> DEFINE N == p * net
           E == p * e
<1>6. N \in Nat /\ E \in Nat /\ p * (net - e) = N - E /\ p * (e - net) = E - N
  OBVIOUS
<1>7. /\ p * (p * N) < whole + 2 * (p * (p * p)) /\ whole <= p * (p * N) + 2 * (p * (p * p))
      /\ p * (p * E) < whole + 2 * (p * (p * base))
      /\ whole < p * (p * E) + p * (p * p) + p * (p * base)
  BY <1>2, <1>3, <1>4, <1>5
<1> HIDE DEF N, E
<1>8. /\ p * (p * N) \in Nat /\ p * (p * E) \in Nat /\ p * (p * p) \in Nat /\ p * (p * base) \in Nat
  BY <1>1, <1>6
<1>9. /\ p * (p * N) < p * (p * E) + 3 * (p * (p * p)) + p * (p * base)
      /\ p * (p * E) < p * (p * N) + 2 * (p * (p * p)) + 2 * (p * (p * base))
  BY <1>1, <1>7, <1>8
<1>10. /\ p * (p * E) + 3 * (p * (p * p)) + p * (p * base) = p * (p * (E + 3 * p + base))
       /\ p * (p * N) + 2 * (p * (p * p)) + 2 * (p * (p * base)) = p * (p * (N + 2 * p + 2 * base))
  BY <1>6
<1>11. p * (p * N) < p * (p * (E + 3 * p + base)) /\ p * (p * E) < p * (p * (N + 2 * p + 2 * base))
  BY <1>9, <1>10
<1>12. /\ p * N \in Nat /\ p * E \in Nat /\ p * (E + 3 * p + base) \in Nat
       /\ p * (N + 2 * p + 2 * base) \in Nat
  BY <1>6
<1>13. p * N < p * (E + 3 * p + base) /\ p * E < p * (N + 2 * p + 2 * base)
  BY <1>11, <1>12
<1>14. N < E + 3 * p + base /\ E < N + 2 * p + 2 * base
  BY <1>6, <1>13
<1> QED  BY <1>6, <1>14

LEMMA RedemptionMatches ==
    ASSUME NAVInv, \A side \in Side : managerFees[side] + DirectFee <= PreciseUnit,
           NEW reserve \in Component, NEW quantity \in Nat
    PROVE  netFlow("redeem", getRedeemReserveQuantity(reserve, quantity))
             - Expected!getExpectedReserveRedeemQuantity(
                 quantity, calculateCKTokenValuation(reserve), BaseUnit[reserve],
                 managerFees["redeem"], DirectFee, premiumPercentage)
             \in -redemptionError(reserve) .. redemptionError(reserve)
<1> DEFINE p     == PreciseUnit
           b     == BaseUnit[reserve]
           v     == calculateCKTokenValuation(reserve)
           f     == managerFees["redeem"]
           rs    == protocolRevenueShare("redeem")
           k     == p - (f + DirectFee)
           l     == p - premiumPercentage
           x     == (quantity * v) \div p
           pre   == (x * b) \div p
           out   == pre - preciseMulCeil(pre, premiumPercentage)
           net   == out - ((rs + DirectFee) * out) \div p - ((f - rs) * out) \div p
           y     == x - preciseMulCeil(x, premiumPercentage)
           inner == y - (f * y) \div p - (DirectFee * y) \div p
           e     == (inner * b) \div p
<1>1. /\ p \in Nat \ {0} /\ b \in Nat \ {0} /\ DirectFee \in Nat
      /\ premiumPercentage \in 0 .. p
      /\ f \in Nat /\ rs \in 0 .. f /\ f + DirectFee <= p
  BY FeesLeave, PreciseUnitAssumption, NAVAssumption DEF NAVInv, Side
<1>2. v \in Nat
  BY RealUnitsNat, ValuationNat, ValuationIs DEF NAVInv, FundInv, FeeInv
<1> HIDE DEF v, b, f, rs
<1>3. k \in 0 .. p /\ l \in 0 .. p /\ premiumPercentage \in Nat
  BY <1>1
<1>4. x \in Nat
  <2>1. quantity * v \in Nat
    BY <1>2
  <2> QED  BY <1>1, <2>1, FloorNat
<1> HIDE DEF x
<1>5. pre \in Nat /\ p * pre <= x * b /\ x * b < p * pre + p
  <2>1. x * b \in Nat /\ x * b \in Int
    BY <1>1, <1>4
  <2>2. pre \in Nat
    BY <1>1, <2>1, FloorNat
  <2> DEFINE n == x * b
  <2> HIDE DEF n, p
  <2>3. p * (n \div p) <= n /\ n < p * (n \div p) + p
    BY <1>1, <2>1, FloorBounds DEF n
  <2> QED  BY <2>2, <2>3 DEF n
<1> HIDE DEF pre
\* A quantity without its premium.
<1>6. ASSUME NEW q \in Nat
      PROVE  LET rest == q - preciseMulCeil(q, premiumPercentage)
             IN  rest \in Nat /\ p * rest <= q * l /\ q * l < p * rest + p
  <2> DEFINE c == preciseMulCeil(q, premiumPercentage)
             rest == q - c
  <2>1. /\ c \in Nat /\ rest \in Nat
        /\ q * premiumPercentage <= p * c /\ p * c < q * premiumPercentage + p
    BY <1>1, <1>3, CeilBounds, PartOfQuantity
  <2> HIDE DEF c, p
  <2>2. p * rest = p * q - p * c /\ q * (p - premiumPercentage) = p * q - q * premiumPercentage
    BY <1>1, <1>3, <2>1
  <2>3. /\ p * q \in Nat /\ p * c \in Nat /\ q * premiumPercentage \in Nat
        /\ p * rest \in Int
    BY <1>1, <1>3, <2>1
  <2> HIDE DEF rest
  <2>4. /\ p * rest <= q * (p - premiumPercentage)
        /\ q * (p - premiumPercentage) < p * rest + p
    BY <1>1, <2>1, <2>2, <2>3
  <2> QED  BY <2>1, <2>4 DEF rest, c
<1>7. out \in Nat /\ p * out <= pre * l /\ pre * l < p * out + p
  BY <1>5, <1>6
<1>8. y \in Nat /\ p * y <= x * l /\ x * l < p * y + p
  BY <1>4, <1>6
<1> HIDE DEF out, y
<1>9. net \in Nat /\ out * k <= p * net /\ p * net < out * k + 2 * p
  <2>1. rs + DirectFee \in Nat /\ f - rs \in Nat /\ (rs + DirectFee) + (f - rs) = f + DirectFee
    BY <1>1
  <2> DEFINE i == rs + DirectFee
             j == f - rs
  <2>2. i \in Nat /\ j \in Nat /\ i + j <= p /\ i + j = f + DirectFee
    BY <1>1, <2>1
  <2> HIDE DEF i, j
  <2> DEFINE rest == out - (i * out) \div p - (j * out) \div p
  <2>3. rest \in Nat /\ out * (p - (i + j)) <= p * rest /\ p * rest < out * (p - (i + j)) + 2 * p
    BY <1>7, <2>2, WithoutParts
  <2>4. p - (i + j) = k
    BY <2>2
  <2>5. rest = net
    BY DEF i, j
  <2> HIDE DEF rest, net, k, p
  <2> QED  BY <2>3, <2>4, <2>5
<1>10. inner \in Nat /\ y * k <= p * inner /\ p * inner < y * k + 2 * p
  BY <1>1, <1>8, WithoutParts
<1> HIDE DEF inner, k, l, net
<1>11. e \in Nat /\ p * e <= inner * b /\ inner * b < p * e + p
  <2>1. inner * b \in Nat /\ inner * b \in Int
    BY <1>1, <1>10
  <2>2. e \in Nat
    BY <1>1, <2>1, FloorNat
  <2> DEFINE n == inner * b
  <2> HIDE DEF n, p
  <2>3. p * (n \div p) <= n /\ n < p * (n \div p) + p
    BY <1>1, <2>1, FloorBounds DEF n
  <2> QED  BY <2>2, <2>3 DEF n
<1> HIDE DEF e
<1>12. p * (net - e) < 3 * p + b /\ p * (e - net) < 2 * p + 2 * b
  BY <1>1, <1>3, <1>4, <1>5, <1>7, <1>8, <1>9, <1>10, <1>11, BothOrders
<1>13. netFlow("redeem", getRedeemReserveQuantity(reserve, quantity)) = net
  <2>1. getRedeemReserveQuantity(reserve, quantity) = out
    BY DEF getRedeemReserveQuantity, preciseMul, out, pre, x, v, b
  <2>2. netFlow("redeem", out) = net
    BY <1>7, NetFlowIs DEF net, f, rs, Side
  <2> QED  BY <2>1, <2>2
<1>14. Expected!getExpectedReserveRedeemQuantity(
           quantity, v, b, f, DirectFee, premiumPercentage) = e
  <2>1. Expected!preciseMul(v, quantity) = x
    <3>1. v * quantity = quantity * v
      BY <1>2
    <3> QED  BY <1>2, <3>1, ExpectedNat DEF x
  <2>2. Expected!preciseMulCeil(x, premiumPercentage) = preciseMulCeil(x, premiumPercentage)
    <3>1. CASE x = 0 \/ premiumPercentage = 0
      BY <3>1 DEF Expected!preciseMulCeil, preciseMulCeil
    <3>2. CASE x # 0 /\ premiumPercentage # 0
      <4>1. x * premiumPercentage - 1 \in Nat
        BY <1>3, <1>4, <3>2
      <4>2. Expected!div(x * premiumPercentage - 1, p) = (x * premiumPercentage - 1) \div p
        BY <1>1, <4>1, ExpectedNat
      <4> QED  BY <3>2, <4>2 DEF Expected!preciseMulCeil, preciseMulCeil
    <3> QED  BY <3>1, <3>2
  <2>3. Expected!postPremium(quantity, v, premiumPercentage) = y
    BY <2>1, <2>2 DEF Expected!postPremium, y
  <2>4. Expected!getExpectedPostFeeQuantity(y, f, DirectFee) = inner
    BY <1>1, <1>8, PostFeeIs DEF inner
  <2>5. Expected!preciseMul(inner, b) = e
    BY <1>1, <1>10, ExpectedNat DEF e
  <2> QED  BY <2>3, <2>4, <2>5 DEF Expected!getExpectedReserveRedeemQuantity
<1> DEFINE d == net - e
<1>15. d \in -redemptionError(reserve) .. redemptionError(reserve)
  <2>1. CASE b = p
    <3>1. x * b = p * x /\ x * b \in Nat
      BY <1>1, <1>4, <2>1
    <3>2. pre = x
      <4>1. p * x < p * (pre + 1) /\ p * pre <= p * x
        <5>1. p * (pre + 1) = p * pre + p
          BY <1>1, <1>5
        <5> QED  BY <1>5, <3>1, <5>1
      <4> QED  BY <1>1, <1>4, <1>5, <4>1
    <3>3. out = y
      BY <3>2 DEF out, y
    <3>4. e = inner
      <4>1. p * e <= p * inner /\ p * inner < p * (e + 1)
        <5>1. p * (e + 1) = p * e + p /\ inner * b = p * inner
          BY <1>1, <1>10, <1>11, <2>1
        <5> QED  BY <1>11, <5>1
      <4> QED  BY <1>1, <1>10, <1>11, <4>1
    <3>5. p * net < p * inner + 2 * p /\ p * inner < p * net + 2 * p
      <4>1. p * net \in Nat /\ p * inner \in Nat /\ y * k \in Nat
        BY <1>1, <1>3, <1>8, <1>9, <1>10
      <4> QED  BY <1>1, <1>9, <1>10, <3>3, <4>1
    <3>6. p * net < p * (inner + 2) /\ p * inner < p * (net + 2)
      <4>1. p * (inner + 2) = p * inner + 2 * p /\ p * (net + 2) = p * net + 2 * p
        BY <1>1, <1>9, <1>10
      <4> QED  BY <3>5, <4>1
    <3>7. net < inner + 2 /\ inner < net + 2
      BY <1>1, <1>9, <1>10, <3>6
    <3>8. d \in -1 .. 1
      BY <1>9, <1>10, <3>4, <3>7
    <3>9. redemptionError(reserve) = 1
      BY <2>1 DEF redemptionError, b, p
    <3> QED  BY <3>8, <3>9
  <2>2. CASE b # p
    <3> DEFINE n == b \div p
    <3>1. n \in Nat /\ b < p * n + p
      BY <1>1, FloorNat, FloorBounds
    <3>2. redemptionError(reserve) = 3 * (n + 1)
      BY <2>2 DEF redemptionError, b, p
    <3> HIDE DEF n, p
    <3>3. d \in Int /\ net - e = d /\ e - net = -d
      BY <1>9, <1>11
    <3> HIDE DEF d
    <3>4. p * d < p * (n + 4) /\ p * (-d) < p * (2 * n + 4)
      <4>1. p * (n + 4) = p * n + 4 * p /\ p * (2 * n + 4) = 2 * (p * n) + 4 * p
        BY <1>1, <3>1
      <4>2. p * d \in Int /\ p * (-d) \in Int /\ p * n \in Nat
        BY <1>1, <3>1, <3>3
      <4>3. p * d < 3 * p + b /\ p * (-d) < 2 * p + 2 * b
        BY <1>12, <3>3
      <4> QED  BY <1>1, <3>1, <4>1, <4>2, <4>3
    <3>5. d < n + 4 /\ -d < 2 * n + 4
      BY <1>1, <3>1, <3>3, <3>4
    <3> QED  BY <3>1, <3>2, <3>3, <3>5
  <2> QED  BY <2>1, <2>2
<1> QED  BY <1>13, <1>14, <1>15 DEF v, b, f

\* An issuer is minted what the tests compute: the fees leave a quantity, of which
\* both take the premium.
LEMMA IssueMatches ==
    ASSUME NAVInv, \A side \in Side : managerFees[side] + DirectFee <= PreciseUnit,
           NEW reserve \in Component, NEW quantity \in Nat
    PROVE  LET net == Expected!getExpectedPostFeeQuantity(
                        quantity, managerFees["issue"], DirectFee)
           IN  mintDenominator(reserve, net) > 0 =>
                 Expected!getExpectedCKTokenIssueQuantity(
                     totalSupply, calculateCKTokenValuation(reserve), BaseUnit[reserve], quantity,
                     managerFees["issue"], DirectFee, premiumPercentage)
                 = getCKTokenMintQuantity(reserve, net)
<1> DEFINE p   == PreciseUnit
           b   == BaseUnit[reserve]
           v   == calculateCKTokenValuation(reserve)
           f   == managerFees["issue"]
           net == Expected!getExpectedPostFeeQuantity(quantity, f, DirectFee)
           s   == subPremium(net)
           x   == (s * p) \div b
           y   == (x * totalSupply) \div p
           d   == mintDenominator(reserve, net)
<1>1. SUFFICES ASSUME d > 0
               PROVE  Expected!getExpectedCKTokenIssueQuantity(
                          totalSupply, v, b, quantity, f, DirectFee, premiumPercentage)
                      = getCKTokenMintQuantity(reserve, net)
  OBVIOUS
<1>2. /\ p \in Nat \ {0} /\ b \in Nat \ {0} /\ DirectFee \in Nat /\ totalSupply \in Nat
      /\ premiumPercentage \in Nat /\ f \in Nat /\ f + DirectFee <= p
  BY PreciseUnitAssumption, NAVAssumption DEF NAVInv, FundInv, FeeInv, FundTypeOK, Side
<1>3. v \in Nat
  BY RealUnitsNat, ValuationNat, ValuationIs DEF NAVInv, FundInv, FeeInv
<1>4. net \in Nat
  <2> HIDE DEF f
  <2>1. quantity - (f * quantity) \div p - (DirectFee * quantity) \div p \in Nat
    BY <1>2, WithoutParts
  <2> QED  BY <1>2, <2>1, PostFeeIs DEF net
<1>5. s \in Nat /\ d \in Nat \ {0}
  BY <1>1, <1>4, MintIs
<1>6. d = (totalSupply * v) \div p + (net * p) \div b - x
  BY DEF mintDenominator, preciseMul, preciseDiv
<1>7. getCKTokenMintQuantity(reserve, net) = (y * p) \div d
  BY DEF getCKTokenMintQuantity, preciseMul, preciseDiv
<1>8. net - Expected!preciseMul(net, premiumPercentage) = s
  BY <1>2, <1>4, ExpectedNat DEF subPremium, preciseMul
<1> HIDE DEF s, d, net, v, f, b, p
<1>9. x \in Nat
  <2>1. s * p \in Nat
    BY <1>2, <1>5
  <2> QED  BY <1>2, <2>1, FloorNat
<1>10. Expected!preciseDiv(s, b) = x /\ Expected!preciseDiv(net, b) = (net * p) \div b
  BY <1>2, <1>4, <1>5, ExpectedNat DEF p
<1> HIDE DEF x
<1>11. y \in Nat
  <2>1. x * totalSupply \in Nat
    BY <1>2, <1>9
  <2> QED  BY <1>2, <2>1, FloorNat
<1>12. /\ Expected!preciseMul(x, totalSupply) = y
       /\ Expected!preciseMul(totalSupply, v) = (totalSupply * v) \div p
  BY <1>2, <1>3, <1>9, ExpectedNat DEF p
<1> HIDE DEF y
<1>13. Expected!preciseDiv(y, d) = (y * p) \div d
  BY <1>5, <1>11, ExpectedNat DEF p
<1> QED
  BY <1>6, <1>7, <1>8, <1>10, <1>12, <1>13
    DEF Expected!getExpectedCKTokenIssueQuantity, net

\* For every price, base unit, premium and fee: what a caller pays and gets is
\* what the tests of the module compute, within the rounding stated.
THEOREM QuotesMatchTests == AllSpec => []QuotesAsTested
<1>1. NAVInv => QuotesAsTested
  <2>1. ASSUME NAVInv
        PROVE  QuantitiesAsTested
    <3>1. Reserves \subseteq Component /\ NAVQuantities \subseteq Nat /\ Quantities \subseteq Nat
      BY NAVPortfolioAssumption, PortfolioAssumption
    <3> QED  BY <2>1, <3>1, RedemptionMatches, IssueMatches DEF QuantitiesAsTested
  <2> QED  BY <2>1, FlowMatches DEF QuotesAsTested
<1> QED  BY <1>1, NAVInvariant, PTL

-----------------------------------------------------------------------------
(* A round trip *)

\* What a unit of a component is worth, in precise units of the master quote asset.
worthOf(c) == (PreciseUnit * Price[c]) \div BaseUnit[c]

\* A base unit that divides the precise unit scales exactly.
LEMMA DividedBaseUnit ==
    ASSUME NEW c \in Component, PreciseUnit % BaseUnit[c] = 0
    PROVE  LET k == PreciseUnit \div BaseUnit[c]
           IN  /\ k \in Nat \ {0} /\ BaseUnit[c] * k = PreciseUnit
               /\ \A q \in Nat : (q * PreciseUnit) \div BaseUnit[c] = q * k
               /\ worthOf(c) = k * Price[c]
<1> DEFINE b == BaseUnit[c]
           k == PreciseUnit \div b
<1>1. b \in Nat \ {0} /\ PreciseUnit \in Nat \ {0} /\ Price[c] \in Nat \ {0}
  BY PreciseUnitAssumption, NAVAssumption
<1>2. k \in Nat /\ PreciseUnit % b = 0
  BY <1>1, FloorNat
<1>3. b * k = PreciseUnit
  <2>1. b \in Nat /\ b > 0 /\ PreciseUnit \in Nat
    BY <1>1
  <2> HIDE DEF b
  <2>2. PreciseUnit = b * (PreciseUnit \div b)
    BY <1>2, <2>1
  <2> QED  BY <2>2
<1> HIDE DEF k, b
<1>4. k # 0
  BY <1>1, <1>3
<1>5. ASSUME NEW q \in Nat
      PROVE  (q * PreciseUnit) \div b = q * k
  <2>1. q * k \in Nat /\ q * PreciseUnit = b * (q * k)
    BY <1>1, <1>2, <1>3
  <2> DEFINE x == q * k
  <2> HIDE DEF x
  <2>2. x \in Int /\ b * x \in Int /\ b * x < b * x + b
    BY <1>1, <2>1 DEF x
  <2>3. (b * x) \div b = x
    BY <1>1, <2>2, FloorIs
  <2> QED  BY <2>1, <2>3 DEF x
<1>6. worthOf(c) = k * Price[c]
  <2>1. (Price[c] * PreciseUnit) \div b = Price[c] * k
    BY <1>1, <1>5
  <2>2. PreciseUnit * Price[c] = Price[c] * PreciseUnit /\ Price[c] * k = k * Price[c]
    BY <1>1, <1>2
  <2> QED  BY <2>1, <2>2 DEF worthOf, b
<1> QED  BY <1>2, <1>3, <1>4, <1>5, <1>6 DEF k, b

\* Then a component's part is what its units are worth, rounded once.
LEMMA PartIs ==
    ASSUME NEW units \in [Component -> Nat], NEW c \in Component,
           PreciseUnit % BaseUnit[c] = 0
    PROVE  LET part == PartsOf(units)[c]
           IN  /\ worthOf(c) \in Nat /\ part \in Nat
               /\ PreciseUnit * part <= units[c] * worthOf(c)
               /\ units[c] * worthOf(c) < PreciseUnit * part + PreciseUnit
               /\ c = MasterQuoteAsset => PreciseUnit * part = units[c] * worthOf(c)
<1> DEFINE u    == units[c]
           k    == PreciseUnit \div BaseUnit[c]
           n    == u * worthOf(c)
           part == PartsOf(units)[c]
<1>1. /\ u \in Nat /\ k \in Nat \ {0} /\ PreciseUnit \in Nat \ {0} /\ Price[c] \in Nat \ {0}
      /\ worthOf(c) = k * Price[c]
  BY PreciseUnitAssumption, NAVAssumption, DividedBaseUnit
<1>2. part = ((u * k) * Price[c]) \div PreciseUnit
  BY PartsAre, DividedBaseUnit
<1> HIDE DEF u, k
<1>3. worthOf(c) \in Nat /\ n \in Nat /\ (u * k) * Price[c] = n
  BY <1>1
<1>4. part = n \div PreciseUnit
  BY <1>2, <1>3
<1> HIDE DEF n, part
<1>5. part \in Nat /\ PreciseUnit * part <= n /\ n < PreciseUnit * part + PreciseUnit
  BY <1>1, <1>3, <1>4, FloorNat, FloorBounds
<1>6. ASSUME c = MasterQuoteAsset
      PROVE  PreciseUnit * part = n
  <2> DEFINE x == u * k
  <2>1. Price[c] = PreciseUnit
    BY <1>6, NAVAssumption
  <2>2. x \in Nat
    BY <1>1
  <2>3. n = PreciseUnit * x
    BY <1>1, <2>1 DEF n
  <2> HIDE DEF x
  <2>4. PreciseUnit * part < PreciseUnit * (x + 1) /\ PreciseUnit * x < PreciseUnit * (part + 1)
    <3>1. /\ PreciseUnit * (x + 1) = PreciseUnit * x + PreciseUnit
          /\ PreciseUnit * (part + 1) = PreciseUnit * part + PreciseUnit
          /\ PreciseUnit * x \in Nat /\ PreciseUnit * part \in Nat
      BY <1>1, <1>5, <2>2
    <3> QED  BY <1>1, <1>5, <2>3, <3>1
  <2>5. part < x + 1 /\ x < part + 1
    BY <1>1, <1>5, <2>2, <2>4
  <2> QED  BY <1>5, <2>2, <2>3, <2>5
<1> QED  BY <1>3, <1>5, <1>6 DEF n, part, u

\* A unit that only the multiplier moves is scaled as the supply is, within one.
LEMMA UnitScales ==
    ASSUME NEW virtual \in Nat, NEW m \in Nat, NEW s \in Nat \ {0}, NEW t \in Nat \ {0}
    PROVE  t * conservativePreciseMul(virtual, (m * s) \div t)
             <= s * conservativePreciseMul(virtual, m) + s
<1> DEFINE p  == PreciseUnit
           m2 == (m * s) \div t
           u  == conservativePreciseMul(virtual, m)
           u2 == conservativePreciseMul(virtual, m2)
<1>1. p \in Nat \ {0}
  BY PreciseUnitAssumption
<1>2. m2 \in Nat /\ t * m2 <= m * s
  <2>1. m * s \in Nat
    OBVIOUS
  <2> QED  BY <2>1, FloorNat, FloorBounds
<1> HIDE DEF m2
<1>3. u \in Int /\ virtual * m < p * u + p
  <2>1. virtual * m \in Int
    OBVIOUS
  <2>2. u \in Int /\ u = (virtual * m) \div p
    BY ConservativeMul
  <2> HIDE DEF u, p
  <2> QED  BY <1>1, <2>1, <2>2, FloorBounds
<1>4. u2 \in Int /\ p * u2 <= virtual * m2
  <2>1. virtual * m2 \in Int /\ m2 \in Int
    BY <1>2
  <2>2. u2 \in Int /\ u2 = (virtual * m2) \div p
    BY <2>1, ConservativeMul
  <2> HIDE DEF u2, p
  <2> QED  BY <1>1, <2>1, <2>2, FloorBounds
<1> HIDE DEF u, u2, p
<1>5. p * (t * u2) <= p * (s * u + s)
  <2>1. t * (p * u2) <= t * (virtual * m2)
    BY <1>1, <1>2, <1>4
  <2>2. virtual * (t * m2) <= virtual * (m * s)
    BY <1>2
  <2>3. s * (virtual * m) <= s * (p * u + p)
    <3>1. virtual * m \in Int /\ p * u + p \in Int
      BY <1>1, <1>3
    <3> QED  BY <1>3, <3>1
  <2>4. /\ t * (virtual * m2) = virtual * (t * m2) /\ virtual * (m * s) = s * (virtual * m)
        /\ s * (p * u + p) = p * (s * u + s) /\ t * (p * u2) = p * (t * u2)
    BY <1>1, <1>2, <1>3, <1>4
  <2>5. /\ virtual * (t * m2) \in Int /\ s * (virtual * m) \in Int /\ p * (s * u + s) \in Int
        /\ p * (t * u2) \in Int
    BY <1>1, <1>2, <1>3, <1>4
  <2> QED  BY <2>1, <2>2, <2>3, <2>4, <2>5
<1>6. t * u2 <= s * u + s
  <2>1. t * u2 \in Int /\ s * u + s \in Int
    BY <1>3, <1>4
  <2> QED  BY <1>1, <1>5, <2>1
<1> QED  BY <1>6 DEF u, u2, m2

\* What a component's part of the value of the whole supply rises by, when its
\* units rise by `more'.
LEMMA PartRises ==
    ASSUME NEW units \in [Component -> Nat], NEW after \in [Component -> Nat],
           NEW c \in Component, PreciseUnit % BaseUnit[c] = 0,
           NEW s \in Nat, NEW t \in Nat, NEW more \in Nat,
           t * after[c] <= s * units[c] + more
    PROVE  (t * PreciseUnit) * PartsOf(after)[c]
             <= (s * PreciseUnit) * PartsOf(units)[c]
                  + s * (IF c = MasterQuoteAsset THEN 0 ELSE PreciseUnit) + more * worthOf(c)
<1> DEFINE p  == PreciseUnit
           w  == worthOf(c)
           u  == units[c]
           u2 == after[c]
           x  == PartsOf(units)[c]
           x2 == PartsOf(after)[c]
           e  == IF c = MasterQuoteAsset THEN 0 ELSE p
<1>1. /\ p \in Nat \ {0} /\ u \in Nat /\ u2 \in Nat /\ e \in Nat
      /\ t * u2 <= s * u + more
  BY PreciseUnitAssumption
<1>2. /\ w \in Nat /\ x \in Nat /\ x2 \in Nat
      /\ p * x2 <= u2 * w /\ u * w <= p * x + e
  <2>1. /\ w \in Nat /\ x \in Nat /\ u * w < p * x + p
        /\ c = MasterQuoteAsset => p * x = u * w
    BY PartIs
  <2>2. x2 \in Nat /\ p * x2 <= u2 * w
    BY PartIs
  <2>3. u * w <= p * x + e
    BY <1>1, <2>1
  <2> QED  BY <2>1, <2>2, <2>3
<1> HIDE DEF p, w, u, u2, x, x2, e
<1>3. t * (p * x2) <= t * (u2 * w)
  <2>1. p * x2 \in Nat /\ u2 * w \in Nat
    BY <1>1, <1>2
  <2> QED  BY <1>2, <2>1
<1>4. (t * u2) * w <= (s * u + more) * w
  <2>1. t * u2 \in Nat /\ s * u + more \in Nat
    BY <1>1
  <2> QED  BY <1>1, <1>2, <2>1
<1>5. s * (u * w) <= s * (p * x + e)
  <2>1. u * w \in Nat /\ p * x + e \in Nat
    BY <1>1, <1>2
  <2> QED  BY <1>2, <2>1
<1>6. /\ t * (p * x2) = (t * p) * x2 /\ t * (u2 * w) = (t * u2) * w
      /\ (s * u + more) * w = s * (u * w) + more * w
      /\ s * (p * x + e) = (s * p) * x + s * e
  BY <1>1, <1>2
<1>7. /\ (t * p) * x2 \in Nat /\ (t * u2) * w \in Nat /\ s * (u * w) \in Nat
      /\ more * w \in Nat /\ (s * p) * x \in Nat /\ s * e \in Nat
  BY <1>1, <1>2
<1>8. (t * p) * x2 <= (s * p) * x + s * e + more * w
  BY <1>3, <1>4, <1>5, <1>6, <1>7
<1> QED  BY <1>8 DEF p, w, x, x2, e

\* What the value of the whole supply rises by: a unit of every other component
\* and its rounding, and what the reserve's units rise by.
LEMMA ValueRises ==
    ASSUME DivideThePreciseUnit, NEW reserve \in Component,
           NEW units \in [Component -> Nat], NEW after \in [Component -> Nat],
           NEW s \in Nat, NEW t \in Nat, NEW more \in Nat,
           t * after[reserve] <= s * units[reserve] + more,
           \A c \in Component \ {reserve} : t * after[c] <= s * units[c] + s
    PROVE  LET others   == Component \ {reserve}
               worth    == SumFunctionOnSet([c \in others |-> worthOf(c)], others)
               rounding == IF reserve = MasterQuoteAsset THEN 0 ELSE PreciseUnit
           IN  /\ worth \in Nat
               /\ (t * PreciseUnit) * ValueOf(after)
                    <= (s * PreciseUnit) * ValueOf(units)
                         + s * (worth + Cardinality(others) * PreciseUnit + rounding)
                         + more * worthOf(reserve)
<1> DEFINE p        == PreciseUnit
           others   == Component \ {reserve}
           w        == [c \in others |-> worthOf(c)]
           worth    == SumFunctionOnSet(w, others)
           rounding == IF reserve = MasterQuoteAsset THEN 0 ELSE p
           f        == PartsOf(units)
           f2       == PartsOf(after)
           n        == Cardinality(others)
<1>1. /\ p \in Nat \ {0} /\ rounding \in Nat
      /\ f \in [Component -> Nat] /\ f2 \in [Component -> Nat]
      /\ \A c \in Component : worthOf(c) \in Nat
  <2>1. \A c \in Component : worthOf(c) \in Nat
    BY PartIs DEF DivideThePreciseUnit
  <2> QED  BY <2>1, PreciseUnitAssumption, PartsAre
<1>2. IsFiniteSet(Component) /\ IsFiniteSet(others) /\ n \in Nat
  BY NAVAssumption, FS_Subset, FS_CardinalityType
<1>3. /\ w \in [others -> Nat]
      /\ worth \in Int /\ worth >= 0
  <2>1. w \in [others -> Nat]
    BY <1>1
  <2> HIDE DEF w, others
  <2> QED  BY <1>2, <2>1, SumType
<1> DEFINE x  == SumFunctionOnSet(f, others)
           x2 == SumFunctionOnSet(f2, others)
<1>4. /\ ValueOf(units) = f[reserve] + x /\ ValueOf(after) = f2[reserve] + x2
      /\ x \in Int /\ x2 \in Int
  <2> HIDE DEF f, f2
  <2>1. \A c \in Component : f[c] \in Int /\ f2[c] \in Int
    BY <1>1
  <2>2. /\ SumFunctionOnSet(f, Component) = f[reserve] + x
        /\ SumFunctionOnSet(f2, Component) = f2[reserve] + x2
    BY <1>2, <2>1, SumTakeOut
  <2>3. x \in Int /\ x2 \in Int
    BY <1>2, <2>1, SumType
  <2> QED  BY <2>2, <2>3 DEF ValueOf, f, f2
<1>5. (t * p) * x2 <= (s * p) * x + s * worth + (s * p) * n
  <2>1. ASSUME NEW c \in others
        PROVE  (t * p) * f2[c] <= (s * p) * f[c] + s * w[c] + s * p
    <3>1. (t * p) * f2[c]
            <= (s * p) * f[c] + s * (IF c = MasterQuoteAsset THEN 0 ELSE p) + s * worthOf(c)
      BY PartRises DEF DivideThePreciseUnit
    <3> DEFINE e == IF c = MasterQuoteAsset THEN 0 ELSE p
    <3>2. e \in Nat /\ e <= p /\ w[c] = worthOf(c) /\ w[c] \in Nat
          /\ f[c] \in Nat /\ f2[c] \in Nat
      BY <1>1
    <3>3. (t * p) * f2[c] <= (s * p) * f[c] + s * e + s * w[c]
      BY <3>1, <3>2
    <3> HIDE DEF e, w, f, f2, p
    <3>4. s * e <= s * p /\ s * e \in Nat /\ s * p \in Nat
      BY <1>1, <3>2
    <3>5. (t * p) * f2[c] \in Nat /\ (s * p) * f[c] \in Nat /\ s * w[c] \in Nat
      BY <1>1, <3>2
    <3> QED  BY <3>3, <3>4, <3>5
  <2>2. /\ \A c \in others : f2[c] \in Int /\ f[c] \in Int /\ w[c] \in Int
        /\ t * p \in Int /\ s * p \in Int /\ s \in Int
    BY <1>1, <1>3
  <2> HIDE DEF w, f, f2, p, others
  <2> DEFINE a == t * p
             b == s * p
  <2>3. /\ a \in Int /\ b \in Int
        /\ \A c \in others : a * f2[c] <= b * f[c] + s * w[c] + b
    BY <2>1, <2>2
  <2> HIDE DEF a, b
  <2>4. a * x2 <= b * x + s * worth + b * n
    BY <1>2, <2>2, <2>3, SumLinearBound
  <2> QED  BY <2>4 DEF a, b
<1>6. (t * p) * f2[reserve] <= (s * p) * f[reserve] + s * rounding + more * worthOf(reserve)
  BY PartRises DEF DivideThePreciseUnit
<1> DEFINE y  == f[reserve]
           y2 == f2[reserve]
           v  == worthOf(reserve)
<1>7. y \in Nat /\ y2 \in Nat /\ v \in Nat /\ worth \in Nat
  BY <1>1, <1>3
<1>8. (t * p) * (y2 + x2) <= (s * p) * (y + x) + s * (worth + n * p + rounding) + more * v
  <2>1. (t * p) * y2 <= (s * p) * y + s * rounding + more * v
    BY <1>6
  <2> HIDE DEF p, rounding, worth, x, x2, y, y2, v, n
  <2>2. /\ (t * p) * (y2 + x2) = (t * p) * y2 + (t * p) * x2
        /\ (s * p) * (y + x) = (s * p) * y + (s * p) * x
        /\ s * (worth + n * p + rounding) = s * worth + (s * p) * n + s * rounding
    BY <1>1, <1>2, <1>4, <1>7
  <2>3. /\ (t * p) * y2 \in Int /\ (t * p) * x2 \in Int /\ (s * p) * y \in Int
        /\ (s * p) * x \in Int /\ s * worth \in Int /\ (s * p) * n \in Int
        /\ s * rounding \in Int /\ more * v \in Int
    BY <1>1, <1>2, <1>4, <1>7
  <2> QED  BY <1>5, <2>1, <2>2, <2>3
<1> QED  BY <1>4, <1>7, <1>8

\* What the valuation in the reserve asset rises by, when its units rise by what
\* some quantity of the reserve is worth.
LEMMA ValuationRises ==
    ASSUME DivideThePreciseUnit, NEW reserve \in Component,
           NEW units \in [Component -> Nat], NEW after \in [Component -> Nat],
           NEW s \in Nat \ {0}, NEW t \in Nat, NEW net \in Nat,
           t * after[reserve] <= s * units[reserve] + net * PreciseUnit,
           \A c \in Component \ {reserve} : t * after[c] <= s * units[c] + s
    PROVE  LET k == PreciseUnit \div BaseUnit[reserve]
           IN  /\ valuationError(reserve) \in Nat
               /\ t * ValuationOf(after, reserve)
                    < s * ValuationOf(units, reserve) + s * valuationError(reserve)
                        + PreciseUnit * (net * k)
<1> DEFINE p        == PreciseUnit
           r        == Price[reserve]
           k        == p \div BaseUnit[reserve]
           others   == Component \ {reserve}
           worth    == SumFunctionOnSet([c \in others |-> worthOf(c)], others)
           n        == Cardinality(others)
           e1       == IF reserve = MasterQuoteAsset THEN 0 ELSE p
           e2       == IF reserve = MasterQuoteAsset THEN 0 ELSE r
           requoted == IF reserve = MasterQuoteAsset THEN 0 ELSE p + r
           e        == worth + n * p + requoted
           err      == valuationError(reserve)
           w        == ValueOf(units)
           w2       == ValueOf(after)
           v        == ValuationOf(units, reserve)
           v2       == ValuationOf(after, reserve)
<1>1. /\ p \in Nat \ {0} /\ r \in Nat \ {0} /\ k \in Nat /\ n \in Nat
      /\ e1 \in Nat /\ e2 \in Nat /\ requoted = e1 + e2
      /\ worthOf(reserve) = k * r
  <2>1. p \in Nat \ {0} /\ r \in Nat \ {0}
    BY PreciseUnitAssumption, NAVAssumption
  <2>2. IsFiniteSet(others)
    BY NAVAssumption, FS_Subset
  <2>3. k \in Nat /\ worthOf(reserve) = k * r
    BY DividedBaseUnit DEF DivideThePreciseUnit
  <2> QED  BY <2>1, <2>2, <2>3, FS_CardinalityType
<1>2. /\ w \in Nat /\ w2 \in Nat /\ v \in Nat /\ v2 \in Nat
      /\ r * v2 <= w2 * p /\ w * p <= r * v + e2
  <2>1. /\ w \in Nat /\ v \in Nat /\ v = (w * p) \div r
        /\ w2 \in Nat /\ v2 \in Nat /\ v2 = (w2 * p) \div r
    BY ValuationNat
  <2>2. reserve = MasterQuoteAsset => r = p
    BY NAVAssumption
  <2>3. reserve = MasterQuoteAsset => v = w
    BY DEF ValuationOf
  <2> HIDE DEF w, w2, v, v2, r, p
  <2>4. w * p \in Int /\ w2 * p \in Int
    BY <1>1, <2>1
  <2>5. w * p < r * v + r
    BY <1>1, <2>1, <2>4, FloorBounds
  <2>6. r * v2 <= w2 * p
    BY <1>1, <2>1, <2>4, FloorBounds
  <2>7. CASE reserve = MasterQuoteAsset
    <3>1. w * p = r * v
      BY <1>1, <2>1, <2>2, <2>3, <2>7
    <3> QED  BY <1>1, <2>1, <2>6, <2>7, <3>1
  <2>8. CASE reserve # MasterQuoteAsset
    <3>1. r * v \in Nat
      BY <1>1, <2>1
    <3> QED  BY <1>1, <2>1, <2>4, <2>5, <2>6, <2>8, <3>1
  <2> QED  BY <2>7, <2>8
<1>3. /\ worth \in Nat
      /\ (t * p) * w2 <= (s * p) * w + s * (worth + n * p + e1) + (net * p) * worthOf(reserve)
  <2>1. net * p \in Nat /\ s \in Nat
    BY <1>1
  <2> QED  BY <2>1, ValueRises
<1>4. e \in Nat /\ err \in Nat /\ e < r * err
  <2>1. err = e \div r + 1
    BY DEF valuationError, worthOf, SumFunction
  <2>2. e \in Nat
    BY <1>1, <1>3
  <2> HIDE DEF e, r, err
  <2>3. e \div r \in Nat /\ e < r * (e \div r) + r
    <3>1. e \in Int
      BY <2>2
    <3>2. e < r * (e \div r) + r
      BY <1>1, <3>1, FloorBounds
    <3> QED  BY <1>1, <2>2, <3>2, FloorNat
  <2> DEFINE q == e \div r
  <2> HIDE DEF q
  <2>4. q \in Nat /\ e < r * q + r /\ err = q + 1
    BY <2>1, <2>3 DEF q
  <2>5. r * (q + 1) = r * q + r
    BY <1>1, <2>4
  <2> QED  BY <1>1, <2>2, <2>4, <2>5
<1>5. e = worth + n * p + e1 + e2
  BY <1>1, <1>3
<1> DEFINE x == net * k
           d == worth + n * p + e1
<1>6. /\ d \in Nat /\ e = d + e2 /\ x \in Nat
      /\ (net * p) * worthOf(reserve) = r * (p * x)
  BY <1>1, <1>3, <1>5
<1>7. (t * p) * w2 <= (s * p) * w + s * d + r * (p * x)
  BY <1>3, <1>6
<1> HIDE DEF p, r, k, others, worth, n, e1, e2, requoted, e, err, w, w2, v, v2, x, d
<1>8. t * (r * v2) <= t * (w2 * p) /\ s * (w * p) <= s * (r * v + e2) /\ s * e < s * (r * err)
  <2>1. r * v2 \in Nat /\ w2 * p \in Nat
    BY <1>1, <1>2
  <2>2. t * (r * v2) <= t * (w2 * p)
    BY <1>2, <2>1
  <2>3. w * p \in Nat /\ r * v + e2 \in Nat
    BY <1>1, <1>2
  <2>4. s * (w * p) <= s * (r * v + e2)
    BY <1>2, <2>3
  <2>5. r * err \in Nat
    BY <1>1, <1>4
  <2>6. s * e < s * (r * err)
    BY <1>4, <2>5
  <2> QED  BY <2>2, <2>4, <2>6
<1>9. /\ t * (w2 * p) = (t * p) * w2 /\ s * (w * p) = (s * p) * w
      /\ t * (r * v2) = r * (t * v2) /\ s * (r * err) = r * (s * err)
      /\ s * (r * v + e2) = r * (s * v) + s * e2 /\ s * e = s * d + s * e2
  BY <1>1, <1>2, <1>4, <1>6
<1>10. /\ (t * p) * w2 \in Nat /\ (s * p) * w \in Nat /\ r * (t * v2) \in Nat
       /\ r * (s * err) \in Nat /\ r * (s * v) \in Nat /\ s * e2 \in Nat /\ s * d \in Nat
       /\ r * (p * x) \in Nat
  BY <1>1, <1>2, <1>4, <1>6
<1>11. r * (t * v2) < r * (s * v) + r * (s * err) + r * (p * x)
  BY <1>7, <1>8, <1>9, <1>10
<1>12. t * v2 < s * v + s * err + p * x
  <2>1. t * v2 \in Nat /\ s * v + s * err + p * x \in Nat
    BY <1>1, <1>2, <1>4, <1>6
  <2>2. r * (s * v) + r * (s * err) + r * (p * x) = r * (s * v + s * err + p * x)
    BY <1>1, <1>2, <1>4, <1>6
  <2> QED  BY <1>1, <1>11, <2>1, <2>2
<1> QED  BY <1>4, <1>12 DEF err, v, v2, x, k, p

\* The minted CKTokens are worth no more than what came in, at the valuation before.
LEMMA MintedWorth ==
    ASSUME NAVInv, NEW reserve \in Component, PreciseUnit % BaseUnit[reserve] = 0,
           NEW net \in Nat, mintDenominator(reserve, net) > 0, totalSupply > 0
    PROVE  LET m == getCKTokenMintQuantity(reserve, net)
               k == PreciseUnit \div BaseUnit[reserve]
           IN  m * (totalSupply * calculateCKTokenValuation(reserve))
                 <= PreciseUnit * (totalSupply * (net * k)) + m * PreciseUnit
<1> DEFINE p == PreciseUnit
           b == BaseUnit[reserve]
           k == p \div b
           v == calculateCKTokenValuation(reserve)
           s == totalSupply
           x == net * k
           u == subPremium(net)
           y == u * k
           z == (y * s) \div p
           o == (s * v) \div p
           d == mintDenominator(reserve, net)
           m == getCKTokenMintQuantity(reserve, net)
<1>1. /\ p \in Nat \ {0} /\ s \in Nat /\ k \in Nat /\ v \in Nat
      /\ premiumPercentage \in 0 .. p
  <2>1. p \in Nat \ {0} /\ s \in Nat /\ premiumPercentage \in 0 .. p
    BY PreciseUnitAssumption DEF NAVInv, FundInv, FeeInv, FundTypeOK
  <2>2. v \in Nat
    BY RealUnitsNat, ValuationNat, ValuationIs DEF NAVInv, FundInv, FeeInv
  <2>3. k \in Nat
    BY DividedBaseUnit
  <2> QED  BY <2>1, <2>2, <2>3
<1>2. u \in Nat /\ d \in Nat \ {0} /\ m \in Nat
  BY MintIs
<1>3. u <= net
  <2>1. preciseMul(net, premiumPercentage) \in Nat
    BY <1>1, PartOfQuantity
  <2> QED  BY <2>1 DEF subPremium
<1>4. (u * p) \div b = y /\ (net * p) \div b = x
  BY <1>2, DividedBaseUnit
<1>5. d = o + x - y
  BY <1>4 DEF mintDenominator, preciseMul, preciseDiv
<1>6. m = (z * p) \div d
  BY <1>4 DEF getCKTokenMintQuantity, preciseMul, preciseDiv
<1> HIDE DEF u, d, m, v, k, s, b, p
<1>7. y \in Nat /\ x \in Nat /\ y <= x
  BY <1>1, <1>2, <1>3
<1> HIDE DEF x, y
<1>8. z \in Nat /\ p * z <= y * s
  <2>1. y * s \in Nat
    BY <1>1, <1>7
  <2> QED  BY <1>1, <2>1, FloorNat, FloorBounds
<1>9. o \in Nat /\ s * v < p * o + p
  <2>1. s * v \in Nat
    BY <1>1
  <2> QED  BY <1>1, <2>1, FloorNat, FloorBounds
<1> HIDE DEF z, o
<1>10. d * m <= z * p
  <2>1. z * p \in Int
    BY <1>1, <1>8
  <2> QED  BY <1>2, <1>6, <2>1, FloorBounds
<1>11. m * o <= x * s
  <2>1. m * (o + (x - y)) = m * o + m * (x - y) /\ d * m = m * (o + (x - y))
    BY <1>2, <1>5, <1>7, <1>9
  <2>2. m * (x - y) \in Nat /\ m * o \in Nat /\ z * p \in Nat /\ y * s \in Nat /\ x * s \in Nat
    BY <1>1, <1>2, <1>7, <1>8, <1>9
  <2>3. y * s <= x * s /\ z * p = p * z
    BY <1>1, <1>7, <1>8
  <2> QED  BY <1>8, <1>10, <2>1, <2>2, <2>3
<1>12. m * (s * v) <= p * (s * x) + m * p
  <2>1. m * (s * v) <= m * (p * o + p)
    <3>1. s * v \in Nat /\ p * o + p \in Nat
      BY <1>1, <1>9
    <3> QED  BY <1>2, <1>9, <3>1
  <2>2. p * (m * o) <= p * (x * s)
    <3>1. m * o \in Nat /\ x * s \in Nat
      BY <1>1, <1>2, <1>7, <1>9
    <3> QED  BY <1>1, <1>11, <3>1
  <2>3. m * (p * o + p) = p * (m * o) + m * p /\ p * (x * s) = p * (s * x)
    BY <1>1, <1>2, <1>7, <1>9
  <2>4. /\ m * (s * v) \in Nat /\ p * (m * o) \in Nat /\ m * p \in Nat /\ p * (s * x) \in Nat
    BY <1>1, <1>2, <1>7, <1>9
  <2> QED  BY <2>1, <2>2, <2>3, <2>4
<1> QED  BY <1>12 DEF m, s, v, x, k, p, b

\* The two together: what a redeemer's share is worth, as a quantity of precise units.
LEMMA ShareOfNewSupply ==
    ASSUME NEW p \in Nat \ {0}, NEW s \in Nat \ {0}, NEW m \in Nat \ {0},
           NEW v \in Nat, NEW v2 \in Nat, NEW err \in Nat, NEW x \in Nat,
           (s + m) * v2 < s * v + s * err + p * x,
           m * (s * v) <= p * (s * x) + m * p
    PROVE  (m * v2) \div p <= x + (m * err) \div p
<1> DEFINE t == s + m
           j == (m * v2) \div p
           g == (m * err) \div p
<1>1. t \in Nat \ {0} /\ t = s + m /\ t * v2 < s * v + s * err + p * x
  OBVIOUS
<1> HIDE DEF t
<1>2. j \in Nat /\ p * j <= m * v2
  <2>1. m * v2 \in Nat
    OBVIOUS
  <2> QED  BY <2>1, FloorNat, FloorBounds
<1>3. g \in Nat /\ m * err < p * g + p
  <2>1. m * err \in Nat
    OBVIOUS
  <2> QED  BY <2>1, FloorNat, FloorBounds
<1> HIDE DEF j, g
<1>4. m * (t * v2) < m * (s * v + s * err + p * x)
  <2>1. t * v2 \in Nat /\ s * v + s * err + p * x \in Nat
    BY <1>1
  <2> QED  BY <1>1, <2>1
<1>5. m * (s * v + s * err + p * x) = m * (s * v) + m * (s * err) + m * (p * x)
  OBVIOUS
<1>6. /\ m * (s * v) \in Nat /\ m * (s * err) \in Nat /\ m * (p * x) \in Nat
      /\ p * (s * x) \in Nat /\ m * p \in Nat /\ m * (t * v2) \in Nat
  BY <1>1
<1>7. m * (t * v2) < p * (s * x) + m * p + m * (s * err) + m * (p * x)
  BY <1>4, <1>5, <1>6
<1>8. p * (s * x) + m * (p * x) = t * (p * x)
  BY <1>1
<1>9. m * (t * v2) = t * (m * v2) /\ m * (s * err) = s * (m * err)
  BY <1>1
<1>10. t * (p * j) <= t * (m * v2)
  <2>1. p * j \in Nat /\ m * v2 \in Nat
    BY <1>2
  <2> QED  BY <1>1, <1>2, <2>1
<1>11. s * (m * err) <= s * (p * g + p)
  <2>1. m * err \in Nat /\ p * g + p \in Nat
    BY <1>3
  <2> QED  BY <1>3, <2>1
<1>12. t * (p * j) < t * (p * x) + s * (p * g + p) + m * p
  <2>1. t * (p * j) \in Nat /\ t * (p * x) \in Nat /\ s * (p * g + p) \in Nat
        /\ t * (m * v2) \in Nat /\ s * (m * err) \in Nat
    BY <1>1, <1>2, <1>3
  <2> QED  BY <1>6, <1>7, <1>8, <1>9, <1>10, <1>11, <2>1
<1>13. s * (p * g + p) + m * p <= t * (p * g + p)
  <2>1. t * (p * g + p) = s * (p * g + p) + m * p + m * (p * g)
    BY <1>1, <1>3
  <2>2. m * (p * g) \in Nat /\ s * (p * g + p) \in Nat
    BY <1>3
  <2> QED  BY <1>6, <2>1, <2>2
<1>14. t * (p * j) < t * (p * (x + g + 1))
  <2>1. t * (p * (x + g + 1)) = t * (p * x) + t * (p * g + p)
    BY <1>1, <1>3
  <2>2. t * (p * x) \in Nat /\ t * (p * g + p) \in Nat /\ t * (p * j) \in Nat
        /\ s * (p * g + p) \in Nat
    BY <1>1, <1>2, <1>3
  <2> QED  BY <1>6, <1>12, <1>13, <2>1, <2>2
<1>15. p * j < p * (x + g + 1)
  <2>1. p * j \in Nat /\ p * (x + g + 1) \in Nat
    BY <1>2, <1>3
  <2> QED  BY <1>1, <1>14, <2>1
<1>16. j < x + g + 1
  BY <1>2, <1>3, <1>15
<1> QED  BY <1>2, <1>3, <1>16 DEF j, g

\* Back to a quantity of the reserve: the base unit divides the precise unit.
LEMMA BackToReserve ==
    ASSUME NEW reserve \in Component, PreciseUnit % BaseUnit[reserve] = 0,
           NEW j \in Nat, NEW net \in Nat, NEW g \in Nat,
           j <= net * (PreciseUnit \div BaseUnit[reserve]) + g
    PROVE  preciseMul(j, BaseUnit[reserve]) <= net + preciseMul(g, BaseUnit[reserve])
<1> DEFINE p == PreciseUnit
           b == BaseUnit[reserve]
           k == p \div b
           x == preciseMul(j, b)
           y == preciseMul(g, b)
<1>1. p \in Nat \ {0} /\ b \in Nat \ {0} /\ k \in Nat /\ b * k = p
  BY PreciseUnitAssumption, NAVAssumption, DividedBaseUnit
<1>2. j <= net * k + g
  OBVIOUS
<1> HIDE DEF k
<1>3. x \in Nat /\ p * x <= j * b
  <2>1. j * b \in Nat /\ j * b \in Int
    BY <1>1
  <2>2. x = (j * b) \div p
    BY DEF preciseMul
  <2> HIDE DEF x, p, b
  <2>3. x \in Nat
    BY <1>1, <2>1, <2>2, FloorNat
  <2> QED  BY <1>1, <2>1, <2>2, <2>3, FloorBounds
<1>4. y \in Nat /\ g * b < p * y + p
  <2>1. g * b \in Nat /\ g * b \in Int
    BY <1>1
  <2>2. y = (g * b) \div p
    BY DEF preciseMul
  <2> HIDE DEF y, p, b
  <2>3. y \in Nat
    BY <1>1, <2>1, <2>2, FloorNat
  <2> QED  BY <1>1, <2>1, <2>2, <2>3, FloorBounds
<1> HIDE DEF x, y, p, b
<1>5. j * b <= (net * k + g) * b
  <2>1. net * k + g \in Nat
    BY <1>1
  <2> QED  BY <1>1, <1>2, <2>1
<1>6. (net * k + g) * b = p * net + g * b
  <2>1. (net * k + g) * b = net * (b * k) + g * b
    BY <1>1
  <2> QED  BY <1>1, <2>1
<1>7. p * x < p * (net + y + 1)
  <2>1. p * (net + y + 1) = p * net + p * y + p
    BY <1>1, <1>4
  <2>2. p * x \in Nat /\ j * b \in Nat /\ g * b \in Nat /\ p * net \in Nat /\ p * y \in Nat
    BY <1>1, <1>3, <1>4
  <2> QED  BY <1>1, <1>3, <1>4, <1>5, <1>6, <2>1, <2>2
<1>8. x < net + y + 1
  <2>1. net + y + 1 \in Nat
    BY <1>4
  <2> QED  BY <1>1, <1>3, <1>7, <2>1
<1> QED  BY <1>3, <1>4, <1>8 DEF x, y, b

LEMMA RoundTripStep ==
    ASSUME NAVInv, DivideThePreciseUnit, NEW reserve \in Component, NEW quantity \in Nat,
           NEW minted \in Nat \ {0}, totalSupply' = totalSupply + minted,
           NAVIssue(reserve, quantity)
    PROVE  getRedeemReserveQuantity(reserve, minted)'
             <= quantity + preciseMul(preciseMul(minted, valuationError(reserve)),
                                      BaseUnit[reserve])
<1> DEFINE p   == PreciseUnit
           b   == BaseUnit[reserve]
           k   == p \div b
           s   == totalSupply
           t   == s + minted
           net == netFlow("issue", quantity)
           x   == net * k
           v   == ValuationOf(realUnits, reserve)
           v2  == ValuationOf(realUnits', reserve)
           err == valuationError(reserve)
           j   == (minted * v2) \div p
           g   == (minted * err) \div p
           pre == preciseMul(j, b)
<1>1. /\ p \in Nat \ {0} /\ b \in Nat \ {0} /\ k \in Nat /\ s \in Nat \ {0} /\ net \in Nat
      /\ net <= quantity /\ premiumPercentage' \in 0 .. p
  <2>1. p \in Nat \ {0} /\ b \in Nat \ {0}
    BY PreciseUnitAssumption, NAVAssumption
  <2>2. s \in Nat \ {0} /\ net \in Nat /\ premiumPercentage' = premiumPercentage
    <3>1. totalSupply > 0 /\ net \in Nat /\ UNCHANGED navVars
      BY NAVIssueStep
    <3>2. totalSupply \in Nat
      BY DEF NAVInv, FundInv, FeeInv, FundTypeOK
    <3> QED  BY <3>1, <3>2 DEF navVars
  <2>3. net <= quantity
    BY FeesLeave DEF Side
  <2>4. premiumPercentage \in 0 .. p
    BY <2>1 DEF NAVInv
  <2>5. k \in Nat
    BY DividedBaseUnit DEF DivideThePreciseUnit
  <2> QED  BY <2>1, <2>2, <2>3, <2>4, <2>5
\* The units before and after.
<1>2. /\ realUnits \in [Component -> Nat] /\ realUnits' \in [Component -> Nat]
      /\ t * realUnits'[reserve] <= s * realUnits[reserve] + net * p
      /\ \A c \in Component \ {reserve} : t * realUnits'[c] <= s * realUnits[c] + s
  <2>1. /\ FundTypeOK' /\ totalSupply' = t
        /\ positionMultiplier' = (positionMultiplier * s) \div t
        /\ \A c \in Component \ {reserve} : virtualUnit'[c] = virtualUnit[c]
        /\ t * getDefaultPositionRealUnit(virtualUnit, reserve)'
             <= (getDefaultTrackedBalance(virtualUnit, reserve) + net) * p
    BY NAVIssueStep
  <2>2. realUnits \in [Component -> Nat]
    BY RealUnitsNat DEF NAVInv, FundInv, FeeInv
  <2>3. /\ virtualUnit \in [Component -> Nat] /\ virtualUnit' \in [Component -> Nat]
        /\ positionMultiplier \in Nat /\ positionMultiplier' \in Nat
    BY <2>1 DEF NAVInv, FundInv, FeeInv, FundTypeOK
  <2>4. \A c \in Component :
          /\ realUnits[c] = conservativePreciseMul(virtualUnit[c], positionMultiplier)
          /\ realUnits'[c] = conservativePreciseMul(virtualUnit'[c], positionMultiplier')
    BY DEF realUnits, getDefaultPositionRealUnit
  <2>5. realUnits' \in [Component -> Nat]
    <3>1. ASSUME NEW c \in Component
          PROVE  realUnits'[c] \in Nat
      <4> DEFINE a == virtualUnit'[c]
                 m == positionMultiplier'
      <4>1. a \in Nat /\ m \in Nat /\ realUnits'[c] = conservativePreciseMul(a, m)
        BY <2>3, <2>4
      <4> HIDE DEF a, m
      <4>2. a * m \in Nat
        BY <4>1
      <4>3. (a * m) \div p \in Nat
        BY <1>1, <4>2, FloorNat
      <4>4. conservativePreciseMul(a, m) = (a * m) \div p
        BY <4>1, ConservativeMul
      <4> QED  BY <4>1, <4>3, <4>4
    <3> QED  BY <3>1 DEF realUnits
  <2>6. t * realUnits'[reserve] <= s * realUnits[reserve] + net * p
    <3> DEFINE u  == realUnits[reserve]
               u2 == realUnits'[reserve]
               n  == getDefaultTrackedBalance(virtualUnit, reserve)
    <3>1. u \in Nat /\ u2 \in Nat
      BY <2>2, <2>5
    <3>2. n = (s * u) \div p
      BY DEF getDefaultTrackedBalance, preciseMul, realUnits
    <3>3. t * u2 <= (n + net) * p
      BY <2>1 DEF realUnits
    <3> HIDE DEF u, u2, n, s, net, p, t
    <3>4. s * u \in Nat /\ s * u \in Int
      BY <1>1, <3>1
    <3>5. n \in Nat /\ p * n <= s * u
      <4>1. n \in Nat
        BY <1>1, <3>2, <3>4, FloorNat
      <4> QED  BY <1>1, <3>2, <3>4, <4>1, FloorBounds
    <3>6. (n + net) * p = p * n + net * p
      BY <1>1, <3>5
    <3>7. p * n \in Nat /\ net * p \in Nat /\ t \in Nat /\ t * u2 \in Nat
      BY <1>1, <3>1, <3>5 DEF t
    <3>8. t * u2 <= s * u + net * p
      BY <3>3, <3>4, <3>5, <3>6, <3>7
    <3> QED  BY <3>8 DEF u, u2
  <2>7. ASSUME NEW c \in Component \ {reserve}
        PROVE  t * realUnits'[c] <= s * realUnits[c] + s
    <3>1. realUnits'[c] = conservativePreciseMul(virtualUnit[c], (positionMultiplier * s) \div t)
      BY <2>1, <2>4
    <3>2. virtualUnit[c] \in Nat /\ positionMultiplier \in Nat /\ s \in Nat \ {0} /\ t \in Nat \ {0}
      BY <1>1, <2>3
    <3>3. realUnits[c] = conservativePreciseMul(virtualUnit[c], positionMultiplier)
      BY <2>4
    <3> HIDE DEF s, t
    <3> QED  BY <3>1, <3>2, <3>3, UnitScales
  <2> QED  BY <2>2, <2>5, <2>6, <2>7
<1>3. v \in Nat /\ v2 \in Nat
  BY <1>2, ValuationNat
<1>4. err \in Nat /\ t * v2 < s * v + s * err + p * x
  <2>1. t \in Nat
    BY <1>1
  <2> HIDE DEF s, t, net
  <2> QED  BY <1>1, <1>2, <2>1, ValuationRises
<1>5. minted * (s * v) <= p * (s * x) + minted * p
  <2>1. /\ mintDenominator(reserve, net) > 0
        /\ totalSupply' = totalSupply + getCKTokenMintQuantity(reserve, net)
    BY DEF NAVIssue
  <2>2. getCKTokenMintQuantity(reserve, net) \in Nat
    BY <1>1, <2>1, MintIs
  <2>3. minted = getCKTokenMintQuantity(reserve, net)
    BY <1>1, <2>1, <2>2
  <2>4. calculateCKTokenValuation(reserve) = v
    BY ValuationIs
  <2>5. totalSupply > 0 /\ PreciseUnit % BaseUnit[reserve] = 0
    BY <1>1 DEF DivideThePreciseUnit
  <2>6. getCKTokenMintQuantity(reserve, net) * (totalSupply * calculateCKTokenValuation(reserve))
          <= p * (totalSupply * (net * k)) + getCKTokenMintQuantity(reserve, net) * p
    BY <1>1, <2>1, <2>5, MintedWorth
  <2> QED  BY <2>3, <2>4, <2>6
<1>6. x \in Nat
  BY <1>1
<1>7. getRedeemReserveQuantity(reserve, minted)' = pre - preciseMulCeil(pre, premiumPercentage')
  <2>1. calculateCKTokenValuation(reserve)' = v2
    BY ValuationIs
  <2> QED  BY <2>1 DEF getRedeemReserveQuantity, preciseMul
<1>8. preciseMul(preciseMul(minted, err), b) = preciseMul(g, b)
  BY DEF preciseMul
<1> HIDE DEF p, s, net, v, v2, err, k
<1>9. j \in Nat /\ g \in Nat /\ j <= x + g
  <2>1. minted * v2 \in Nat /\ minted * err \in Nat
    BY <1>3, <1>4
  <2>2. j \in Nat /\ g \in Nat
    BY <1>1, <2>1, FloorNat
  <2>3. (s + minted) * v2 < s * v + s * err + p * x
    BY <1>4
  <2> HIDE DEF x
  <2> QED  BY <1>1, <1>3, <1>4, <1>5, <1>6, <2>2, <2>3, ShareOfNewSupply
<1> HIDE DEF j, g
<1>10. pre \in Nat /\ pre <= net + preciseMul(g, b) /\ preciseMul(g, b) \in Nat
  <2>1. j * b \in Nat /\ g * b \in Nat
    BY <1>1, <1>9
  <2>2. pre \in Nat /\ preciseMul(g, b) \in Nat
    BY <1>1, <2>1, FloorNat DEF preciseMul, p
  <2>3. j <= net * (PreciseUnit \div BaseUnit[reserve]) + g
    BY <1>9 DEF x, k, p
  <2> QED  BY <1>1, <1>9, <2>2, <2>3, BackToReserve DEF DivideThePreciseUnit
<1> HIDE DEF pre
<1>11. preciseMulCeil(pre, premiumPercentage') \in Nat
  BY <1>1, <1>10, PartOfQuantity DEF p
<1>12. getRedeemReserveQuantity(reserve, minted)' <= quantity + preciseMul(g, b)
  BY <1>1, <1>7, <1>10, <1>11
<1> QED  BY <1>8, <1>12 DEF err

\* For every price, premium and fee, and every base unit that divides the precise
\* unit: issuing and redeeming at once gains no more than the valuation's rounding.
THEOREM RoundTripsGainNothing == AllSpec => RoundTripGainsNothing
<1>1. NAVInv =>
        (DivideThePreciseUnit =>
          \A reserve \in Reserves, quantity \in NAVQuantities, minted \in 1 .. MaxSupply :
            totalSupply' = totalSupply + minted /\ NAVIssue(reserve, quantity) =>
              LET rounding == preciseMul(preciseMul(minted, valuationError(reserve)),
                                         BaseUnit[reserve])
              IN  getRedeemReserveQuantity(reserve, minted)' <= quantity + rounding)
  <2>1. /\ Reserves \subseteq Component /\ NAVQuantities \subseteq Nat
        /\ 1 .. MaxSupply \subseteq Nat \ {0}
    BY NAVPortfolioAssumption, PortfolioAssumption
  <2> QED  BY <2>1, RoundTripStep
<1> QED  BY <1>1, NAVInvariant, PTL DEF RoundTripGainsNothing
=============================================================================
