------------------------- MODULE BatchIssuanceProofs -------------------------
(***************************************************************************)
(* BatchIssuance proved for every set of CKTokens and accounts, every       *)
(* amount, and every number of rounds: the module can pay out both pots it  *)
(* keeps, and nobody's share of a round depends on when it is taken.  The   *)
(* rows of a CKToken are taken as values, so that a call on one CKToken     *)
(* leaves the rows of the others as they are.                               *)
(***************************************************************************)
EXTENDS BatchIssuance, LibraryProofs

RoundInfo == [totalEthDeposited : Nat, totalCkTokenIssued : Nat]

\* withdrawable, of a round and a deposit.
Part(info, deposit) ==
    IF deposit = 0 \/ info.totalEthDeposited = 0 \/ info.totalCkTokenIssued = 0 THEN 0
    ELSE (info.totalCkTokenIssued * deposit) \div info.totalEthDeposited

\* A round after a withdrawal.
Rest(info, deposit) ==
    [totalEthDeposited |-> info.totalEthDeposited - deposit,
     totalCkTokenIssued |-> info.totalCkTokenIssued - Part(info, deposit)]

Total(deposits) == SumFunctionOnSet(deposits, Account)

Served(deposits, left) == {a \in Account : deposits[a] > 0 /\ left[a] = 0}

\* A round as its withdrawals leave it: its total is that of the deposits left in
\* it, and it holds at least what it issued for each of them, and at most one
\* more than that for each account that was served.
GoodRound(info, left, deposits, brought) ==
    /\ info \in RoundInfo /\ left \in [Account -> Nat] /\ deposits \in [Account -> Nat]
    /\ brought \in Nat
    /\ info.totalEthDeposited = Total(left)
    /\ \A a \in Account : left[a] \in {0, deposits[a]}
    /\ brought * info.totalEthDeposited <= info.totalCkTokenIssued * Total(deposits)
    /\ info.totalCkTokenIssued * Total(deposits)
         <= brought * info.totalEthDeposited
              + Cardinality(Served(deposits, left)) * Total(deposits)

-----------------------------------------------------------------------------
(* Arithmetic of one round *)

LEMMA FloorOfNat ==
    ASSUME NEW a \in Nat, NEW b \in Nat \ {0}
    PROVE  /\ a \div b \in Nat
           /\ b * (a \div b) <= a
           /\ a < b * (a \div b) + b
BY FloorBounds, FloorSign

LEMMA PartBounds ==
    ASSUME NEW info \in RoundInfo, NEW deposit \in Nat
    PROVE  /\ Part(info, deposit) \in Nat
           /\ info.totalEthDeposited * Part(info, deposit) <= info.totalCkTokenIssued * deposit
           /\ deposit > 0 /\ info.totalEthDeposited > 0 /\ info.totalCkTokenIssued > 0 =>
                info.totalCkTokenIssued * deposit
                  < info.totalEthDeposited * Part(info, deposit) + info.totalEthDeposited
<1> DEFINE d == info.totalEthDeposited
           i == info.totalCkTokenIssued
           n == i * deposit
<1>1. d \in Nat /\ i \in Nat
  BY DEF RoundInfo
<1>2. n \in Nat
  BY <1>1
<1>3. CASE deposit = 0 \/ d = 0 \/ i = 0
  <2>1. Part(info, deposit) = 0
    BY <1>3 DEF Part
  <2> HIDE DEF d, i
  <2> QED  BY <1>1, <1>2, <1>3, <2>1 DEF d, i
<1>4. CASE deposit # 0 /\ d # 0 /\ i # 0
  <2>1. Part(info, deposit) = n \div d
    BY <1>4 DEF Part
  <2> HIDE DEF n, d
  <2>2. d \in Nat \ {0}
    BY <1>1, <1>4
  <2>3. n \div d \in Nat /\ d * (n \div d) <= n /\ n < d * (n \div d) + d
    BY <1>2, <2>2, FloorOfNat
  <2> QED  BY <2>1, <2>3 DEF n, d
<1> QED  BY <1>3, <1>4

\* What is left after a deposit d was served w out of D and I: the ratio does not
\* fall, and rises by less than one unit.
LEMMA ServeOne ==
    ASSUME NEW D \in Nat \ {0}, NEW I \in Nat \ {0}, NEW d \in 1 .. D, NEW w \in Nat,
           D * w <= I * d, I * d < D * w + D,
           NEW T \in Nat, NEW B \in Nat, NEW z \in Nat,
           B * D <= I * T, I * T <= B * D + z * T
    PROVE  /\ I - w \in Nat /\ D - d \in Nat
           /\ d < D => I - w > 0
           /\ I * (D - d) <= D * (I - w)
           /\ B * (D - d) <= (I - w) * T
           /\ (I - w) * T <= B * (D - d) + (z + 1) * T
<1> DEFINE D2 == D - d
           I2 == I - w
<1>1. w <= I
  <2>1. I * d <= I * D
    OBVIOUS
  <2>2. D * w <= D * I
    <3>1. I * D = D * I /\ I * d \in Nat /\ D * w \in Nat /\ D * I \in Nat
      OBVIOUS
    <3> QED  BY <2>1, <3>1
  <2> QED  BY <2>2
<1>2. D2 \in Nat /\ I2 \in Nat /\ D2 <= D
  BY <1>1
<1>3. I * D2 <= D * I2 /\ D * I2 <= I * D2 + D
  <2>1. I * D2 = I * D - I * d /\ D * I2 = D * I - D * w /\ I * D = D * I
    OBVIOUS
  <2>2. I * D \in Nat /\ I * d \in Nat /\ D * w \in Nat
    OBVIOUS
  <2> HIDE DEF D2, I2
  <2> QED  BY <2>1, <2>2
<1>4. d < D => I2 > 0
  <2> SUFFICES ASSUME d < D PROVE I2 > 0
    OBVIOUS
  <2>1. D2 > 0
    OBVIOUS
  <2> HIDE DEF D2, I2
  <2>2. I * D2 > 0
    BY <1>2, <2>1
  <2>3. D * I2 > 0
    <3>1. I * D2 \in Nat /\ D * I2 \in Nat
      BY <1>2
    <3> QED  BY <1>3, <2>2, <3>1
  <2> QED  BY <1>2, <2>3
<1> HIDE DEF D2, I2
<1>5. B * D2 <= I2 * T
  <2>1. (B * D) * D2 <= (I * T) * D2
    <3>1. B * D \in Nat /\ I * T \in Nat
      OBVIOUS
    <3> QED  BY <1>2, <3>1
  <2>2. (I * D2) * T <= (D * I2) * T
    <3>1. I * D2 \in Nat /\ D * I2 \in Nat
      BY <1>2
    <3> QED  BY <1>3, <3>1
  <2>3. /\ (B * D) * D2 = D * (B * D2) /\ (I * T) * D2 = (I * D2) * T
        /\ (D * I2) * T = D * (I2 * T)
    BY <1>2
  <2>4. B * D2 \in Nat /\ I2 * T \in Nat /\ (I * D2) * T \in Nat
    BY <1>2
  <2>5. D * (B * D2) <= D * (I2 * T)
    <3>1. D * (B * D2) \in Nat /\ D * (I2 * T) \in Nat
      BY <2>4
    <3> QED  BY <2>1, <2>2, <2>3, <2>4, <3>1
  <2> QED  BY <2>4, <2>5
<1>6. I2 * T <= B * D2 + (z + 1) * T
  <2>1. (D * I2) * T <= (I * D2 + D) * T
    <3>1. D * I2 \in Nat /\ I * D2 + D \in Nat
      BY <1>2
    <3> QED  BY <1>3, <3>1
  <2>2. (I * T) * D2 <= (B * D + z * T) * D2
    <3>1. I * T \in Nat /\ B * D + z * T \in Nat
      OBVIOUS
    <3> QED  BY <1>2, <3>1
  <2>3. (z * T) * D2 <= (z * T) * D
    <3>1. z * T \in Nat
      OBVIOUS
    <3> QED  BY <1>2, <3>1
  <2>4. /\ (D * I2) * T = D * (I2 * T) /\ (I * D2 + D) * T = (I * T) * D2 + D * T
        /\ (B * D + z * T) * D2 = D * (B * D2) + (z * T) * D2
        /\ (z * T) * D = D * (z * T)
    BY <1>2
  <2>5. /\ D * (I2 * T) \in Nat /\ (I * T) * D2 \in Nat /\ D * T \in Nat
        /\ D * (B * D2) \in Nat /\ (z * T) * D2 \in Nat /\ D * (z * T) \in Nat
    BY <1>2
  <2>6. D * (I2 * T) <= D * (B * D2) + D * (z * T) + D * T
    BY <2>1, <2>2, <2>3, <2>4, <2>5
  <2>7. D * (B * D2) + D * (z * T) + D * T = D * (B * D2 + (z + 1) * T)
    BY <1>2
  <2>8. I2 * T \in Nat /\ B * D2 + (z + 1) * T \in Nat
    BY <1>2
  <2> QED  BY <2>6, <2>7, <2>8
<1> QED  BY <1>2, <1>3, <1>4, <1>5, <1>6 DEF D2, I2

\* What is served is the share of what was issued, rounded down, and at most z more.
LEMMA FairServing ==
    ASSUME NEW D \in Nat \ {0}, NEW I \in Nat, NEW d \in 1 .. D, NEW w \in Nat,
           D * w <= I * d, I * d < D * w + D,
           NEW T \in Nat \ {0}, NEW B \in Nat, NEW z \in Nat,
           B * D <= I * T, I * T <= B * D + z * T
    PROVE  LET share == (B * d) \div T
           IN  share \in Nat /\ w \in share .. share + z
<1> DEFINE s == (B * d) \div T
<1>1. s \in Nat /\ T * s <= B * d /\ B * d < T * s + T
  <2>1. B * d \in Nat
    OBVIOUS
  <2> QED  BY <2>1, FloorOfNat
<1> HIDE DEF s
<1>2. s <= w
  <2>1. (T * s) * D <= (B * d) * D
    <3>1. T * s \in Nat /\ B * d \in Nat
      BY <1>1
    <3> QED  BY <1>1, <3>1
  <2>2. (B * D) * d <= (I * T) * d
    <3>1. B * D \in Nat /\ I * T \in Nat
      OBVIOUS
    <3> QED  BY <3>1
  <2>3. (T * s) * D = T * (D * s) /\ (B * d) * D = (B * D) * d /\ (I * T) * d = T * (I * d)
    BY <1>1
  <2>4. D * s \in Nat /\ I * d \in Nat /\ (B * D) * d \in Nat
    BY <1>1
  <2>5. T * (D * s) <= T * (I * d)
    <3>1. T * (D * s) \in Nat /\ T * (I * d) \in Nat
      BY <2>4
    <3> QED  BY <2>1, <2>2, <2>3, <2>4, <3>1
  <2>6. D * s <= I * d
    BY <2>4, <2>5
  <2>7. D * s < D * (w + 1)
    <3>1. D * (w + 1) = D * w + D /\ D * w \in Nat
      OBVIOUS
    <3> QED  BY <2>4, <2>6, <3>1
  <2>8. s < w + 1
    BY <1>1, <2>7
  <2> QED  BY <1>1, <2>8
<1>3. w <= s + z
  <2>1. T * (D * w) <= T * (I * d)
    <3>1. D * w \in Nat /\ I * d \in Nat
      OBVIOUS
    <3> QED  BY <3>1
  <2>2. (I * T) * d <= (B * D + z * T) * d
    <3>1. I * T \in Nat /\ B * D + z * T \in Nat
      OBVIOUS
    <3> QED  BY <3>1
  <2>3. (z * T) * d <= (z * T) * D
    <3>1. z * T \in Nat
      OBVIOUS
    <3> QED  BY <3>1
  <2>4. (B * d) * D < (T * s + T) * D
    <3>1. B * d \in Nat /\ T * s + T \in Nat
      BY <1>1
    <3> QED  BY <1>1, <3>1
  <2>5. /\ T * (D * w) = D * (T * w) /\ T * (I * d) = (I * T) * d
        /\ (B * D + z * T) * d = (B * d) * D + (z * T) * d
    OBVIOUS
  <2>6. /\ T * w \in Nat /\ (I * T) * d \in Nat /\ (B * d) * D \in Nat
        /\ (z * T) * d \in Nat /\ (z * T) * D \in Nat /\ (T * s + T) * D \in Nat
    BY <1>1
  <2>7. (T * s + T) * D + (z * T) * D = D * (T * (s + z + 1))
    BY <1>1
  <2>8. D * (T * w) < D * (T * (s + z + 1))
    <3>1. D * (T * w) \in Nat /\ D * (T * (s + z + 1)) \in Nat
      BY <1>1, <2>6
    <3> QED  BY <2>1, <2>2, <2>3, <2>4, <2>5, <2>6, <2>7, <3>1
  <2>9. T * w < T * (s + z + 1)
    <3>1. T * (s + z + 1) \in Nat
      BY <1>1
    <3> QED  BY <2>6, <2>8, <3>1
  <2>10. w < s + z + 1
    <3>1. s + z + 1 \in Nat
      BY <1>1
    <3> QED  BY <2>9, <3>1
  <2> QED  BY <1>1, <2>10
<1> QED  BY <1>1, <1>2, <1>3 DEF s

\* Another deposit e is then served no less.
LEMMA OthersServed ==
    ASSUME NEW D \in Nat \ {0}, NEW I \in Nat \ {0}, NEW d \in 1 .. D, NEW w \in Nat,
           I - w \in Nat, I * (D - d) <= D * (I - w),
           NEW e \in Nat, d + e <= D, e > 0
    PROVE  (I * e) \div D <= ((I - w) * e) \div (D - d)
<1> DEFINE D2 == D - d
           I2 == I - w
           v  == (I * e) \div D
<1>1. D2 \in Nat \ {0} /\ I2 \in Nat /\ I * D2 <= D * I2
  OBVIOUS
<1>2. v \in Nat /\ D * v <= I * e
  <2>1. I * e \in Nat
    OBVIOUS
  <2> QED  BY <2>1, FloorOfNat
<1> HIDE DEF D2, I2, v
<1>3. (D * v) * D2 <= (I * e) * D2
  <2>1. D * v \in Nat /\ I * e \in Nat
    BY <1>2
  <2> QED  BY <1>1, <1>2, <2>1
<1>4. (I * D2) * e <= (D * I2) * e
  <2>1. I * D2 \in Nat /\ D * I2 \in Nat
    BY <1>1
  <2> QED  BY <1>1, <2>1
<1>5. /\ (D * v) * D2 = D * (D2 * v) /\ (I * e) * D2 = (I * D2) * e
      /\ (D * I2) * e = D * (I2 * e)
  BY <1>1, <1>2
<1>6. D2 * v \in Nat /\ I2 * e \in Nat /\ (I * D2) * e \in Nat
  BY <1>1, <1>2
<1>7. D * (D2 * v) <= D * (I2 * e)
  <2>1. D * (D2 * v) \in Nat /\ D * (I2 * e) \in Nat
    BY <1>6
  <2> QED  BY <1>3, <1>4, <1>5, <1>6, <2>1
<1>8. D2 * v <= I2 * e
  BY <1>6, <1>7
<1>9. I2 * e \in Int /\ v \in Int
  BY <1>2, <1>6
<1>10. v <= (I2 * e) \div D2
  BY <1>1, <1>8, <1>9, FloorIsGreatest
<1> QED  BY <1>10 DEF D2, I2, v

-----------------------------------------------------------------------------
(* One round *)

LEMMA TotalNat ==
    ASSUME NEW f \in [Account -> Nat]
    PROVE  /\ Total(f) \in Nat
           /\ \A a \in Account : f[a] <= Total(f)
           /\ \A a, b \in Account : a # b => f[a] + f[b] <= Total(f)
<1>1. IsFiniteSet(Account) /\ \A a \in Account : f[a] \in Int /\ f[a] >= 0
  BY BatchAssumption
<1>2. \A T \in SUBSET Account : SumFunctionOnSet(f, T) \in Nat
  <2>1. \A T \in SUBSET Account : SumFunctionOnSet(f, T) \in Int /\ SumFunctionOnSet(f, T) >= 0
    BY <1>1, SumType
  <2> QED  BY <2>1
<1>3. \A T \in SUBSET Account : \A a \in T :
        SumFunctionOnSet(f, T) = f[a] + SumFunctionOnSet(f, T \ {a})
  <2>1. IsFiniteSet(Account)
    BY <1>1
  <2>2. \A a \in Account : f[a] \in Int
    BY <1>1
  <2> SUFFICES ASSUME NEW T \in SUBSET Account, NEW a \in T
               PROVE  SumFunctionOnSet(f, T) = f[a] + SumFunctionOnSet(f, T \ {a})
    OBVIOUS
  <2> QED  BY <2>1, <2>2, SumTakeOut
<1>4. \A a \in Account : f[a] <= Total(f)
  <2> SUFFICES ASSUME NEW a \in Account PROVE f[a] <= Total(f)
    OBVIOUS
  <2>1. Total(f) = f[a] + SumFunctionOnSet(f, Account \ {a})
    BY <1>3 DEF Total
  <2>2. SumFunctionOnSet(f, Account \ {a}) \in Nat
    BY <1>2
  <2> QED  BY <2>1, <2>2
<1>5. \A a, b \in Account : a # b => f[a] + f[b] <= Total(f)
  <2> SUFFICES ASSUME NEW a \in Account, NEW b \in Account, a # b
               PROVE  f[a] + f[b] <= Total(f)
    OBVIOUS
  <2> DEFINE T == Account \ {a}
  <2>1. Total(f) = f[a] + SumFunctionOnSet(f, T)
    BY <1>3 DEF Total
  <2>2. b \in T /\ T \in SUBSET Account /\ T \ {b} \in SUBSET Account
    OBVIOUS
  <2>3. SumFunctionOnSet(f, T) = f[b] + SumFunctionOnSet(f, T \ {b})
    BY <1>3, <2>2
  <2>4. SumFunctionOnSet(f, T \ {b}) \in Nat
    BY <1>2, <2>2
  <2> HIDE DEF T
  <2> QED  BY <2>1, <2>3, <2>4
<1> QED  BY <1>2, <1>4, <1>5 DEF Total

LEMMA ServedFinite ==
    ASSUME NEW deposits, NEW left
    PROVE  /\ IsFiniteSet(Served(deposits, left))
           /\ Cardinality(Served(deposits, left)) \in Nat
<1>1. Served(deposits, left) \subseteq Account
  BY DEF Served
<1> QED  BY <1>1, BatchAssumption, FS_Subset, FS_CardinalityType

\* The parts of all accounts are no more than what the round holds.
LEMMA PartsCovered ==
    ASSUME NEW info, NEW left, NEW deposits, NEW brought,
           GoodRound(info, left, deposits, brought),
           NEW f, \A a \in Account : f[a] = Part(info, left[a])
    PROVE  /\ \A a \in Account : f[a] \in Int
           /\ SumFunctionOnSet(f, Account) <= info.totalCkTokenIssued
<1> DEFINE D == info.totalEthDeposited
           I == info.totalCkTokenIssued
           sum == SumFunctionOnSet(f, Account)
           n == Cardinality(Account)
<1>1. /\ info \in RoundInfo /\ left \in [Account -> Nat] /\ D \in Nat /\ I \in Nat
      /\ D = SumFunctionOnSet(left, Account) /\ IsFiniteSet(Account)
  BY BatchAssumption DEF GoodRound, RoundInfo, Total
<1>2. \A a \in Account : f[a] \in Nat /\ D * f[a] <= I * left[a]
  BY <1>1, PartBounds
<1>3. sum \in Int /\ sum >= 0 /\ n \in Nat
  <2>1. \A a \in Account : f[a] \in Int /\ f[a] >= 0
    BY <1>2
  <2> QED  BY <1>1, <2>1, SumType, FS_CardinalityType
<1>4. CASE D = 0
  <2>1. \A a \in Account : f[a] = 0
    BY <1>4 DEF Part
  <2>2. sum = 0
    BY <1>1, <2>1, SumZero
  <2> QED  BY <1>1, <1>2, <2>2
<1>5. CASE D # 0
  <2>1. \A a \in Account : /\ f[a] \in Int /\ left[a] \in Int
                           /\ D * f[a] <= I * left[a] + 0 * left[a] + 0
    <3> SUFFICES ASSUME NEW a \in Account
                 PROVE  /\ f[a] \in Int /\ left[a] \in Int
                        /\ D * f[a] <= I * left[a] + 0 * left[a] + 0
      OBVIOUS
    <3>1. f[a] \in Nat /\ left[a] \in Nat /\ D * f[a] <= I * left[a]
      BY <1>1, <1>2
    <3> HIDE DEF D, I
    <3>2. I * left[a] \in Nat
      BY <1>1, <3>1
    <3> QED  BY <3>1, <3>2
  <2> DEFINE z == 0
  <2>2. /\ D \in Int /\ I \in Int /\ z \in Int
        /\ \A a \in Account : /\ f[a] \in Int /\ left[a] \in Int
                              /\ D * f[a] <= I * left[a] + z * left[a] + z
    BY <1>1, <2>1
  <2> HIDE DEF z, D, I
  <2>3. D * sum <= I * SumFunctionOnSet(left, Account) + z * SumFunctionOnSet(left, Account) + z * n
    BY <1>1, <2>2, SumLinearBound
  <2> HIDE DEF sum, n
  <2>4. D * sum <= I * D
    <3>1. D * sum <= I * D + z * D + z * n /\ I * D \in Nat
      BY <1>1, <2>3
    <3> QED  BY <1>1, <1>3, <3>1 DEF z
  <2>5. sum <= I
    BY <1>1, <1>3, <1>5, <2>4
  <2> QED  BY <1>2, <2>5 DEF sum, I
<1> QED  BY <1>4, <1>5

\* What a withdrawal by one account does to a round.
LEMMA RoundServes ==
    ASSUME NEW info, NEW left, NEW deposits, NEW brought,
           GoodRound(info, left, deposits, brought), NEW a \in Account, left[a] > 0,
           info.totalEthDeposited > 0, info.totalCkTokenIssued > 0
    PROVE  LET after == [left EXCEPT ![a] = 0]
               share == (brought * deposits[a]) \div Total(deposits)
               others == Cardinality({b \in Account \ {a} : deposits[b] > 0})
           IN  /\ GoodRound(Rest(info, left[a]), after, deposits, brought)
               /\ Part(info, left[a]) \in share .. share + others
               /\ share \in Nat /\ others \in Nat
               /\ deposits[a] > 0 /\ info.totalCkTokenIssued - Part(info, left[a]) \in Nat
               /\ \A b \in Account \ {a} :
                    Part(info, left[b]) <= Part(Rest(info, left[a]), left[b])
<1> DEFINE D == info.totalEthDeposited
           I == info.totalCkTokenIssued
           d == left[a]
           w == Part(info, d)
           T == Total(deposits)
           B == brought
           z == Cardinality(Served(deposits, left))
           after == [left EXCEPT ![a] = 0]
           rest == Rest(info, d)
           others == {b \in Account \ {a} : deposits[b] > 0}
<1>1. /\ info \in RoundInfo /\ left \in [Account -> Nat] /\ deposits \in [Account -> Nat]
      /\ D \in Nat \ {0} /\ I \in Nat \ {0} /\ B \in Nat /\ d \in Nat \ {0}
      /\ D = Total(left) /\ deposits[a] = d
      /\ B * D <= I * T /\ I * T <= B * D + z * T
  <2>1. D \in Nat /\ I \in Nat /\ d \in Nat
    BY DEF GoodRound, RoundInfo
  <2> QED  BY <2>1 DEF GoodRound
<1>2. T \in Nat /\ d <= T /\ d <= D /\ z \in Nat
  BY <1>1, TotalNat, ServedFinite
<1>3. w \in Nat /\ D * w <= I * d /\ I * d < D * w + D
  BY <1>1, PartBounds
<1> HIDE DEF D, I, d, w, T, B, z
<1>4. d \in 1 .. D
  BY <1>1, <1>2
<1>5. /\ I - w \in Nat /\ D - d \in Nat /\ (d < D => I - w > 0)
      /\ I * (D - d) <= D * (I - w)
      /\ B * (D - d) <= (I - w) * T
      /\ (I - w) * T <= B * (D - d) + (z + 1) * T
  BY <1>1, <1>2, <1>3, <1>4, ServeOne
<1>6. rest = [totalEthDeposited |-> D - d, totalCkTokenIssued |-> I - w]
  BY DEF Rest, D, I, w
<1>7. after \in [Account -> Nat] /\ Total(after) = D - d
  <2>1. after \in [Account -> Nat] /\ after[a] = 0
        /\ \A b \in Account \ {a} : after[b] = left[b]
    BY <1>1
  <2>2. \A b \in Account : left[b] \in Int /\ after[b] \in Int
    BY <1>1, <2>1
  <2> HIDE DEF after
  <2>3. SumFunctionOnSet(after, Account) = SumFunctionOnSet(left, Account) + after[a] - left[a]
    BY <2>1, <2>2, BatchAssumption, SumChangesBy
  <2>4. Total(after) = D + 0 - d
    BY <1>1, <2>1, <2>3 DEF Total, d
  <2> QED  BY <1>1, <2>1, <2>4
<1>8. Cardinality(Served(deposits, after)) = z + 1
  <2>1. Served(deposits, after) = Served(deposits, left) \union {a}
    BY <1>1 DEF Served
  <2>2. a \notin Served(deposits, left)
    BY <1>1 DEF Served, d
  <2> QED  BY <2>1, <2>2, ServedFinite, FS_AddElement DEF z
<1>9. GoodRound(rest, after, deposits, brought)
  <2>1. rest \in RoundInfo
    BY <1>5, <1>6 DEF RoundInfo
  <2>2. \A b \in Account : after[b] \in {0, deposits[b]}
    BY <1>1 DEF GoodRound
  <2> HIDE DEF after, rest
  <2> QED  BY <1>1, <1>5, <1>6, <1>7, <1>8, <2>1, <2>2 DEF GoodRound, T, B
<1>10. z <= Cardinality(others) /\ Cardinality(others) \in Nat
  <2>1. Served(deposits, left) \subseteq others
    BY <1>1 DEF Served, d
  <2>2. IsFiniteSet(others)
    BY BatchAssumption, FS_Subset
  <2> HIDE DEF others
  <2> QED  BY <2>1, <2>2, FS_Subset, FS_CardinalityType DEF z
<1> DEFINE share == (B * d) \div T
<1>11. share \in Nat /\ w \in share .. share + z
  <2>1. T \in Nat \ {0}
    BY <1>1, <1>2
  <2> QED  BY <1>1, <1>2, <1>3, <1>4, <2>1, FairServing
<1>12. w \in share .. share + Cardinality(others)
  <2> HIDE DEF share, others
  <2> QED  BY <1>2, <1>10, <1>11
<1>13. ASSUME NEW b \in Account \ {a}
       PROVE  Part(info, left[b]) <= Part(rest, left[b])
  <2> DEFINE e == left[b]
  <2>1. e \in Nat /\ d + e <= D
    BY <1>1, TotalNat DEF d
  <2>2. CASE e = 0
    BY <2>2 DEF Part
  <2>3. CASE e # 0
    <3>1. D - d # 0 /\ I - w # 0
      <4> HIDE DEF e
      <4> QED  BY <1>1, <1>5, <2>1, <2>3
    <3>2. Part(rest, e) = ((I - w) * e) \div (D - d)
      BY <1>6, <2>3, <3>1 DEF Part
    <3>3. Part(info, e) = (I * e) \div D
      BY <1>1, <2>3 DEF Part, I, D
    <3> HIDE DEF e
    <3>4. (I * e) \div D <= ((I - w) * e) \div (D - d)
      <4>1. e > 0 /\ I - w \in Nat /\ I * (D - d) <= D * (I - w)
        BY <1>5, <2>1, <2>3
      <4> QED  BY <1>1, <1>3, <1>4, <2>1, <4>1, OthersServed
    <3> QED  BY <3>2, <3>3, <3>4 DEF e
  <2> QED  BY <2>2, <2>3
<1> QED  BY <1>1, <1>5, <1>9, <1>10, <1>11, <1>12, <1>13 DEF d, w, T, B, I

-----------------------------------------------------------------------------
(* The rows of one CKToken *)

\* By round, what an account may withdraw, its share of what the round brought,
\* and how many others deposited.
PartsOf(infos, left, a) == [i \in Round |-> Part(infos[i], left[i][a])]

SharesOf(deposits, brought, a) ==
    [i \in Round |-> IF deposits[i][a] = 0 THEN 0
                     ELSE (brought[i] * deposits[i][a]) \div Total(deposits[i])]

OthersOf(deposits, a) ==
    [i \in Round |-> Cardinality({b \in Account \ {a} : deposits[i][b] > 0})]

Output(n, infos, left, a) == SumFunctionOnSet(PartsOf(infos, left, a), 0 .. n - 1)

ServedRounds(n, left, deposits, a) ==
    {i \in 0 .. n - 1 : deposits[i][a] > 0 /\ left[i][a] = 0}

FairRow(n, left, deposits, brought, sent) ==
    \A a \in Account :
        LET served == ServedRounds(n, left, deposits, a)
            least  == SumFunctionOnSet(SharesOf(deposits, brought, a), served)
        IN  sent[a] \in least .. least + SumFunctionOnSet(OthersOf(deposits, a), served)

RowType(n, infos, left, deposits, brought, ck, sent) ==
    /\ n \in Round /\ infos \in [Round -> RoundInfo]
    /\ left \in [Round -> [Account -> Nat]] /\ deposits \in [Round -> [Account -> Nat]]
    /\ brought \in [Round -> Nat] /\ ck \in Nat /\ sent \in [Account -> Nat]

\* Nothing was issued of the current round, nor deposited in a later one.
Frontier(n, infos, left, deposits, brought) ==
    \A i \in Round :
        /\ i >= n => /\ infos[i].totalCkTokenIssued = 0 /\ brought[i] = 0
                     /\ left[i] = deposits[i]
        /\ i > n => infos[i].totalEthDeposited = 0

IssuedOf(infos) == [i \in Round |-> infos[i].totalCkTokenIssued]

GoodRow(n, infos, left, deposits, brought, ck, sent) ==
    /\ RowType(n, infos, left, deposits, brought, ck, sent)
    /\ \A i \in Round : GoodRound(infos[i], left[i], deposits[i], brought[i])
    /\ Frontier(n, infos, left, deposits, brought)
    /\ SumFunctionOnSet(IssuedOf(infos), Round) = ck
    /\ FairRow(n, left, deposits, brought, sent)

LEMMA Rounds ==
    /\ IsFiniteSet(Round)
    /\ \A n \in Round : 0 .. n - 1 \subseteq Round /\ IsFiniteSet(0 .. n - 1)
    /\ Round \subseteq Nat
<1>1. MaxRounds \in Nat
  BY BatchAssumption
<1>2. IsFiniteSet(Round)
  BY <1>1, FS_Interval DEF Round
<1>3. \A n \in Round : 0 .. n - 1 \subseteq Round
  BY <1>1 DEF Round
<1> QED  BY <1>1, <1>2, <1>3, FS_Subset DEF Round

LEMMA RowFunctions ==
    ASSUME NEW n, NEW infos, NEW left, NEW deposits, NEW brought, NEW ck, NEW sent,
           RowType(n, infos, left, deposits, brought, ck, sent), NEW a \in Account
    PROVE  /\ PartsOf(infos, left, a) \in [Round -> Nat]
           /\ SharesOf(deposits, brought, a) \in [Round -> Nat]
           /\ OthersOf(deposits, a) \in [Round -> Nat]
           /\ IssuedOf(infos) \in [Round -> Nat]
<1>1. ASSUME NEW i \in Round
      PROVE  PartsOf(infos, left, a)[i] \in Nat
  <2>1. infos[i] \in RoundInfo /\ left[i][a] \in Nat
    BY DEF RowType
  <2> QED  BY <2>1, PartBounds DEF PartsOf
<1>2. ASSUME NEW i \in Round
      PROVE  SharesOf(deposits, brought, a)[i] \in Nat
  <2> DEFINE d == deposits[i][a]
             b == brought[i]
             t == Total(deposits[i])
  <2>1. d \in Nat /\ b \in Nat /\ deposits[i] \in [Account -> Nat]
    BY DEF RowType
  <2>2. t \in Nat /\ d <= t
    BY <2>1, TotalNat
  <2>3. SharesOf(deposits, brought, a)[i] = IF d = 0 THEN 0 ELSE (b * d) \div t
    BY DEF SharesOf
  <2> HIDE DEF d, b, t
  <2>4. b * d \in Nat
    BY <2>1
  <2>5. d # 0 => (b * d) \div t \in Nat
    <3>1. d # 0 => t \in Nat \ {0}
      BY <2>1, <2>2
    <3> QED  BY <2>4, <3>1, FloorOfNat
  <2> QED  BY <2>3, <2>5
<1>3. ASSUME NEW i \in Round
      PROVE  OthersOf(deposits, a)[i] \in Nat
  <2>1. IsFiniteSet({b \in Account \ {a} : deposits[i][b] > 0})
    BY BatchAssumption, FS_Subset
  <2> QED  BY <2>1, FS_CardinalityType DEF OthersOf
<1>4. IssuedOf(infos) \in [Round -> Nat]
  BY DEF RowType, IssuedOf, RoundInfo
<1> QED  BY <1>1, <1>2, <1>3, <1>4 DEF PartsOf, SharesOf, OthersOf

\* Deposits and issuances of the first n rounds are what they were.
SamePast(n, deposits, brought, deposits2, brought2) ==
    \A i \in 0 .. n - 1 : deposits2[i] = deposits[i] /\ brought2[i] = brought[i]

\* Every account is served from the same rounds.
SameServed(n, left, deposits, n2, left2, deposits2) ==
    \A a \in Account : ServedRounds(n2, left2, deposits2, a) = ServedRounds(n, left, deposits, a)

ShareTypes(deposits, brought) ==
    \A a \in Account : /\ SharesOf(deposits, brought, a) \in [Round -> Nat]
                       /\ OthersOf(deposits, a) \in [Round -> Nat]

\* What accounts were sent stays fair while they are served from the same rounds.
LEMMA FairStays ==
    ASSUME NEW n \in Round, NEW left, NEW deposits, NEW brought, NEW sent,
           FairRow(n, left, deposits, brought, sent),
           NEW n2, NEW left2, NEW deposits2, NEW brought2,
           SamePast(n, deposits, brought, deposits2, brought2),
           SameServed(n, left, deposits, n2, left2, deposits2), ShareTypes(deposits, brought)
    PROVE  FairRow(n2, left2, deposits2, brought2, sent)
<1> SUFFICES ASSUME NEW a \in Account
             PROVE  LET served == ServedRounds(n2, left2, deposits2, a)
                        least  == SumFunctionOnSet(SharesOf(deposits2, brought2, a), served)
                    IN  sent[a] \in least
                          .. least + SumFunctionOnSet(OthersOf(deposits2, a), served)
  BY DEF FairRow
<1> DEFINE served == ServedRounds(n, left, deposits, a)
           f  == SharesOf(deposits, brought, a)
           f2 == SharesOf(deposits2, brought2, a)
           g  == OthersOf(deposits, a)
           g2 == OthersOf(deposits2, a)
<1>1. served \subseteq 0 .. n - 1 /\ served \subseteq Round /\ IsFiniteSet(served)
  <2>1. served \subseteq 0 .. n - 1
    BY DEF ServedRounds
  <2> HIDE DEF served
  <2> QED  BY <2>1, Rounds, FS_Subset
<1>2. \A i \in served : f[i] \in Int /\ f[i] = f2[i] /\ g[i] \in Int /\ g[i] = g2[i]
  <2> HIDE DEF served
  <2>1. \A i \in served : f[i] \in Int /\ g[i] \in Int
    BY <1>1 DEF ShareTypes
  <2>2. \A i \in served : f[i] = f2[i]
    BY <1>1 DEF SharesOf, SamePast
  <2>3. \A i \in served : g[i] = g2[i]
    BY <1>1 DEF OthersOf, SamePast
  <2> QED  BY <2>1, <2>2, <2>3
<1>3. sent[a] \in SumFunctionOnSet(f, served)
                    .. SumFunctionOnSet(f, served) + SumFunctionOnSet(g, served)
  BY DEF FairRow
<1>4. ServedRounds(n2, left2, deposits2, a) = served
  BY DEF SameServed
<1> HIDE DEF served, f, f2, g, g2
<1>5. SumFunctionOnSet(f, served) = SumFunctionOnSet(f2, served)
      /\ SumFunctionOnSet(g, served) = SumFunctionOnSet(g2, served)
  BY <1>1, <1>2, SumSame
<1> QED  BY <1>3, <1>4, <1>5 DEF f2, g2

\* The rows after a deposit in round n, and after that round was issued.
InfosDeposited(n, infos, amount) == [infos EXCEPT ![n].totalEthDeposited = @ + amount]
RowsDeposited(n, rows, a, amount) == [rows EXCEPT ![n][a] = @ + amount]
InfosIssued(n, infos, minted) == [infos EXCEPT ![n].totalCkTokenIssued = minted]
BroughtIssued(n, brought, minted) == [brought EXCEPT ![n] = minted]

\* A deposit in the current round.
LEMMA RowDeposits ==
    ASSUME NEW n, NEW infos, NEW left, NEW deposits, NEW brought, NEW ck, NEW sent,
           GoodRow(n, infos, left, deposits, brought, ck, sent),
           NEW a \in Account, NEW amount \in Nat,
           NEW infos2, NEW left2, NEW deposits2,
           infos2 = InfosDeposited(n, infos, amount),
           left2 = RowsDeposited(n, left, a, amount),
           deposits2 = RowsDeposited(n, deposits, a, amount)
    PROVE  /\ GoodRow(n, infos2, left2, deposits2, brought, ck, sent)
           /\ infos2[n].totalEthDeposited = infos[n].totalEthDeposited + amount
           /\ \A b \in Account : Output(n, infos2, left2, b) = Output(n, infos, left, b)
<1>1. RowType(n, infos, left, deposits, brought, ck, sent)
  BY DEF GoodRow
<1>2. /\ infos2 \in [Round -> RoundInfo]
      /\ left2 \in [Round -> [Account -> Nat]] /\ deposits2 \in [Round -> [Account -> Nat]]
      /\ \A i \in Round \ {n} : infos2[i] = infos[i] /\ left2[i] = left[i]
                                /\ deposits2[i] = deposits[i]
      /\ infos2[n].totalEthDeposited = infos[n].totalEthDeposited + amount
      /\ infos2[n].totalCkTokenIssued = infos[n].totalCkTokenIssued
      /\ left2[n] = [left[n] EXCEPT ![a] = @ + amount]
      /\ deposits2[n] = [deposits[n] EXCEPT ![a] = @ + amount]
  <2>1. /\ left2 \in [Round -> [Account -> Nat]]
        /\ \A i \in Round \ {n} : left2[i] = left[i]
        /\ left2[n] = [left[n] EXCEPT ![a] = @ + amount]
    BY <1>1 DEF RowType, RowsDeposited
  <2>2. /\ deposits2 \in [Round -> [Account -> Nat]]
        /\ \A i \in Round \ {n} : deposits2[i] = deposits[i]
        /\ deposits2[n] = [deposits[n] EXCEPT ![a] = @ + amount]
    BY <1>1 DEF RowType, RowsDeposited
  <2>3. /\ infos2 \in [Round -> RoundInfo]
        /\ \A i \in Round \ {n} : infos2[i] = infos[i]
        /\ infos2[n].totalEthDeposited = infos[n].totalEthDeposited + amount
        /\ infos2[n].totalCkTokenIssued = infos[n].totalCkTokenIssued
    <3> DEFINE x == [infos[n] EXCEPT !.totalEthDeposited = @ + amount]
    <3>1. n \in Round /\ infos \in [Round -> RoundInfo] /\ infos[n] \in RoundInfo
      BY <1>1 DEF RowType
    <3>2. /\ x \in RoundInfo
          /\ x.totalEthDeposited = infos[n].totalEthDeposited + amount
          /\ x.totalCkTokenIssued = infos[n].totalCkTokenIssued
      BY <3>1 DEF RoundInfo
    <3>3. infos2 = [infos EXCEPT ![n] = x]
      BY DEF InfosDeposited
    <3> HIDE DEF x
    <3> QED  BY <3>1, <3>2, <3>3
  <2> QED  BY <2>1, <2>2, <2>3
<1>3. /\ n \in Round /\ infos[n].totalCkTokenIssued = 0 /\ brought[n] = 0
      /\ left[n] = deposits[n] /\ left2[n] = deposits2[n]
      /\ GoodRound(infos[n], left[n], deposits[n], brought[n])
  <2>1. n \in Round /\ n >= n
    BY <1>1, Rounds DEF RowType
  <2>2. infos[n].totalCkTokenIssued = 0 /\ brought[n] = 0 /\ left[n] = deposits[n]
    BY <2>1 DEF GoodRow, Frontier
  <2> QED  BY <1>2, <2>1, <2>2 DEF GoodRow
<1>4. RowType(n, infos2, left2, deposits2, brought, ck, sent)
  BY <1>1, <1>2 DEF RowType
<1>5. GoodRound(infos2[n], left2[n], deposits2[n], brought[n])
  <2> DEFINE f == left[n]
             g == left2[n]
  <2>1. /\ f \in [Account -> Nat] /\ g \in [Account -> Nat] /\ g[a] = f[a] + amount
        /\ \A b \in Account \ {a} : g[b] = f[b]
    BY <1>1, <1>2, <1>3 DEF RowType
  <2> HIDE DEF f, g
  <2>2. Total(g) = Total(f) + amount
    <3>1. \A b \in Account : f[b] \in Int /\ g[b] \in Int
      BY <2>1
    <3>2. SumFunctionOnSet(g, Account) = SumFunctionOnSet(f, Account) + g[a] - f[a]
      BY <2>1, <3>1, BatchAssumption, SumChangesBy
    <3>3. Total(f) \in Nat /\ f[a] \in Nat
      BY <2>1, TotalNat
    <3> QED  BY <2>1, <3>2, <3>3 DEF Total
  <2>3. Total(f) \in Nat /\ Total(g) \in Nat /\ infos[n].totalEthDeposited = Total(f)
    BY <1>3, <2>1, TotalNat DEF GoodRound, f
  <2>4. infos2[n].totalEthDeposited = Total(g)
    BY <1>2, <2>2, <2>3
  <2> DEFINE z == Cardinality(Served(g, g))
             t == Total(g)
             d == infos2[n].totalEthDeposited
             c == infos2[n].totalCkTokenIssued
             b0 == brought[n]
  <2>5. z \in Nat
    BY ServedFinite
  <2>6. /\ c = 0 /\ b0 = 0 /\ d \in Nat /\ t \in Nat
        /\ infos2[n] \in RoundInfo
    BY <1>2, <1>3, <2>3, <2>4
  <2>7. b0 * d <= c * t /\ c * t <= b0 * d + z * t
    <3> HIDE DEF b0, d, c, t, z
    <3>1. z * t \in Nat
      BY <2>5, <2>6
    <3>2. b0 * d = 0 /\ c * t = 0
      BY <2>6
    <3> QED  BY <3>1, <3>2
  <2>8. GoodRound(infos2[n], g, g, b0)
    BY <2>1, <2>4, <2>6, <2>7 DEF GoodRound
  <2> QED  BY <1>3, <2>8 DEF g
<1>6. \A i \in Round : GoodRound(infos2[i], left2[i], deposits2[i], brought[i])
  BY <1>2, <1>5 DEF GoodRow
<1>7. Frontier(n, infos2, left2, deposits2, brought)
  <2> SUFFICES ASSUME NEW i \in Round
               PROVE  /\ i >= n => /\ infos2[i].totalCkTokenIssued = 0 /\ brought[i] = 0
                                   /\ left2[i] = deposits2[i]
                      /\ i > n => infos2[i].totalEthDeposited = 0
    BY DEF Frontier
  <2>1. CASE i = n
    <3>1. ~(i > n)
      <4>1. n \in Nat
        BY <1>3, Rounds
      <4> QED  BY <2>1, <4>1
    <3>2. infos2[n].totalCkTokenIssued = 0 /\ brought[n] = 0 /\ left2[n] = deposits2[n]
      BY <1>2, <1>3
    <3> QED  BY <2>1, <3>1, <3>2
  <2>2. CASE i # n
    BY <1>2, <2>2 DEF GoodRow, Frontier
  <2> QED  BY <2>1, <2>2
<1>8. SumFunctionOnSet(IssuedOf(infos2), Round) = ck
  <2> DEFINE f == IssuedOf(infos)
             g == IssuedOf(infos2)
  <2>1. \A i \in Round : f[i] = g[i]
    BY <1>2 DEF IssuedOf
  <2>2. f \in [Round -> Nat]
    BY <1>1 DEF RowType, IssuedOf, RoundInfo
  <2>3. SumFunctionOnSet(f, Round) = ck
    BY DEF GoodRow
  <2> HIDE DEF f, g
  <2>4. \A i \in Round : f[i] \in Int /\ f[i] = g[i]
    BY <2>1, <2>2
  <2>5. SumFunctionOnSet(f, Round) = SumFunctionOnSet(g, Round)
    BY <2>4, Rounds, SumSame
  <2> QED  BY <2>3, <2>5 DEF g
<1>9. \A i \in 0 .. n - 1 : i \in Round \ {n}
  BY <1>3, Rounds
<1>10. FairRow(n, left2, deposits2, brought, sent)
  <2>1. SamePast(n, deposits, brought, deposits2, brought)
    BY <1>2, <1>9 DEF SamePast
  <2>2. SameServed(n, left, deposits, n, left2, deposits2) /\ ShareTypes(deposits, brought)
    BY <1>1, <1>2, <1>9, RowFunctions DEF ServedRounds, SameServed, ShareTypes
  <2>3. FairRow(n, left, deposits, brought, sent) /\ n \in Round
    BY <1>3 DEF GoodRow
  <2> QED  BY <2>1, <2>2, <2>3, FairStays
<1>11. ASSUME NEW b \in Account
       PROVE  Output(n, infos2, left2, b) = Output(n, infos, left, b)
  <2> DEFINE f == PartsOf(infos, left, b)
             f2 == PartsOf(infos2, left2, b)
  <2>1. \A i \in 0 .. n - 1 : f[i] \in Int /\ f[i] = f2[i]
    <3>1. \A i \in Round : f[i] \in Int
      BY <1>1, RowFunctions
    <3>2. \A i \in Round \ {n} : f[i] = f2[i]
      BY <1>2 DEF PartsOf
    <3> HIDE DEF f, f2
    <3> QED  BY <1>9, <3>1, <3>2
  <2> HIDE DEF f, f2
  <2>2. SumFunctionOnSet(f, 0 .. n - 1) = SumFunctionOnSet(f2, 0 .. n - 1)
    BY <1>3, <2>1, Rounds, SumSame
  <2> QED  BY <2>2 DEF Output, f, f2
<1> QED  BY <1>2, <1>4, <1>6, <1>7, <1>8, <1>10, <1>11 DEF GoodRow

\* The current round is issued, and the next one is the current one.
LEMMA RowIssues ==
    ASSUME NEW n, NEW infos, NEW left, NEW deposits, NEW brought, NEW ck, NEW sent,
           GoodRow(n, infos, left, deposits, brought, ck, sent), n < MaxRounds,
           NEW minted \in Nat, NEW infos2, NEW brought2,
           infos2 = InfosIssued(n, infos, minted), brought2 = BroughtIssued(n, brought, minted)
    PROVE  /\ GoodRow(n + 1, infos2, left, deposits, brought2, ck + minted, sent)
           /\ infos2[n + 1].totalEthDeposited = 0
           /\ \A b \in Account : Output(n + 1, infos2, left, b) >= Output(n, infos, left, b)
<1>1. RowType(n, infos, left, deposits, brought, ck, sent)
  BY DEF GoodRow
<1>2. /\ infos2 \in [Round -> RoundInfo] /\ brought2 \in [Round -> Nat]
      /\ \A i \in Round \ {n} : infos2[i] = infos[i] /\ brought2[i] = brought[i]
      /\ infos2[n].totalEthDeposited = infos[n].totalEthDeposited
      /\ infos2[n].totalCkTokenIssued = minted /\ brought2[n] = minted
  BY <1>1 DEF RowType, RoundInfo, InfosIssued, BroughtIssued
<1>3. /\ n \in Nat /\ n \in Round /\ n + 1 \in Round
      /\ \A i \in 0 .. n - 1 : i \in Round \ {n}
      /\ 0 .. (n + 1) - 1 = (0 .. n - 1) \union {n}
  BY <1>1, BatchAssumption DEF RowType, Round
<1>4. /\ infos[n].totalCkTokenIssued = 0 /\ brought[n] = 0 /\ left[n] = deposits[n]
      /\ GoodRound(infos[n], left[n], deposits[n], brought[n])
  <2>1. n >= n
    BY <1>3
  <2> QED  BY <1>3, <2>1 DEF GoodRow, Frontier
<1>5. RowType(n + 1, infos2, left, deposits, brought2, ck + minted, sent)
  BY <1>1, <1>2, <1>3 DEF RowType
<1>6. GoodRound(infos2[n], left[n], deposits[n], brought2[n])
  <2> DEFINE f == left[n]
             z == Cardinality(Served(f, f))
             t == Total(f)
             d == infos2[n].totalEthDeposited
             c == infos2[n].totalCkTokenIssued
             b0 == brought2[n]
  <2>1. /\ f \in [Account -> Nat] /\ infos2[n] \in RoundInfo /\ b0 \in Nat
        /\ d = t /\ c = b0
    BY <1>1, <1>2, <1>3, <1>4 DEF RowType, GoodRound
  <2>2. z \in Nat /\ t \in Nat
    BY <2>1, ServedFinite, TotalNat
  <2>3. b0 * d <= c * t /\ c * t <= b0 * d + z * t
    <3> HIDE DEF b0, d, c, t, z
    <3>1. z * t \in Nat /\ c * t \in Nat /\ b0 * d = c * t
      BY <2>1, <2>2
    <3> QED  BY <3>1
  <2>4. GoodRound(infos2[n], f, f, b0)
    BY <2>1, <2>3 DEF GoodRound
  <2> QED  BY <1>4, <2>4
<1>7. \A i \in Round : GoodRound(infos2[i], left[i], deposits[i], brought2[i])
  BY <1>2, <1>6 DEF GoodRow
<1>8. Frontier(n + 1, infos2, left, deposits, brought2)
  <2> SUFFICES ASSUME NEW i \in Round
               PROVE  /\ i >= n + 1 => /\ infos2[i].totalCkTokenIssued = 0 /\ brought2[i] = 0
                                       /\ left[i] = deposits[i]
                      /\ i > n + 1 => infos2[i].totalEthDeposited = 0
    BY DEF Frontier
  <2>1. i \in Nat
    BY Rounds
  <2>2. i >= n + 1 => i \in Round \ {n} /\ i >= n /\ i > n
    BY <1>3, <2>1
  <2>3. i > n + 1 => i >= n + 1
    BY <1>3, <2>1
  <2> QED  BY <1>2, <2>2, <2>3 DEF GoodRow, Frontier
<1>9. SumFunctionOnSet(IssuedOf(infos2), Round) = ck + minted
  <2> DEFINE f == IssuedOf(infos)
             g == IssuedOf(infos2)
  <2>1. /\ f \in [Round -> Nat] /\ g \in [Round -> Nat] /\ f[n] = 0 /\ g[n] = minted
        /\ \A i \in Round \ {n} : f[i] = g[i]
    BY <1>1, <1>2, <1>3, <1>4 DEF RowType, IssuedOf, RoundInfo
  <2>2. SumFunctionOnSet(f, Round) = ck /\ ck \in Nat
    BY <1>1 DEF GoodRow, RowType
  <2> HIDE DEF f, g
  <2>3. /\ \A i \in Round : f[i] \in Int /\ g[i] \in Int
        /\ \A i \in Round \ {n} : f[i] = g[i]
        /\ IsFiniteSet(Round) /\ n \in Round
    BY <1>3, <2>1, Rounds
  <2>4. SumFunctionOnSet(g, Round) = SumFunctionOnSet(f, Round) + g[n] - f[n]
    BY <2>3, SumChangesBy
  <2>5. SumFunctionOnSet(g, Round) = ck + minted
    BY <2>1, <2>2, <2>4
  <2> QED  BY <2>5 DEF g
<1>10. FairRow(n + 1, left, deposits, brought2, sent)
  <2>1. SamePast(n, deposits, brought, deposits, brought2)
    BY <1>2, <1>3 DEF SamePast
  <2>2. SameServed(n, left, deposits, n + 1, left, deposits) /\ ShareTypes(deposits, brought)
    <3> SUFFICES ASSUME NEW b \in Account
                 PROVE  ServedRounds(n + 1, left, deposits, b) = ServedRounds(n, left, deposits, b)
      BY <1>1, RowFunctions DEF SameServed, ShareTypes
    <3>1. ~(deposits[n][b] > 0 /\ left[n][b] = 0)
      <4>1. deposits[n][b] \in Nat /\ left[n][b] = deposits[n][b]
        BY <1>1, <1>3, <1>4 DEF RowType
      <4> QED  BY <4>1
    <3> QED  BY <1>3, <3>1 DEF ServedRounds
  <2>3. FairRow(n, left, deposits, brought, sent) /\ n \in Round
    BY <1>3 DEF GoodRow
  <2> QED  BY <2>1, <2>2, <2>3, FairStays
<1>11. ASSUME NEW b \in Account
       PROVE  Output(n + 1, infos2, left, b) >= Output(n, infos, left, b)
  <2> DEFINE f == PartsOf(infos, left, b)
             g == PartsOf(infos2, left, b)
             S == 0 .. n - 1
             S2 == 0 .. (n + 1) - 1
  <2>1. f \in [Round -> Nat] /\ g \in [Round -> Nat]
    BY <1>1, <1>5, RowFunctions
  <2>2. \A i \in S : f[i] = g[i]
    BY <1>2, <1>3 DEF PartsOf
  <2> HIDE DEF f, g
  <2>3. n \in S2 /\ S2 \ {n} = S /\ S2 \subseteq Round /\ S \subseteq Round
        /\ IsFiniteSet(S) /\ IsFiniteSet(S2)
    BY <1>3, Rounds
  <2> HIDE DEF S, S2
  <2>4. \A i \in S2 : g[i] \in Int
    BY <2>1, <2>3
  <2>5. SumFunctionOnSet(g, S2) = g[n] + SumFunctionOnSet(g, S)
    BY <2>3, <2>4, SumTakeOut
  <2>6. \A i \in S : f[i] \in Int /\ f[i] = g[i]
    BY <2>1, <2>2, <2>3
  <2>7. SumFunctionOnSet(f, S) = SumFunctionOnSet(g, S) /\ SumFunctionOnSet(f, S) \in Int
    <3>1. SumFunctionOnSet(f, S) = SumFunctionOnSet(g, S)
      BY <2>3, <2>6, SumSame
    <3>2. \A i \in S : f[i] \in Int
      BY <2>6
    <3>3. SumFunctionOnSet(f, S) \in Int
      BY <2>3, <3>2, SumType
    <3> QED  BY <3>1, <3>3
  <2>8. g[n] \in Nat
    BY <1>3, <2>1
  <2>9. SumFunctionOnSet(g, S2) >= SumFunctionOnSet(f, S)
    BY <2>5, <2>7, <2>8
  <2> QED  BY <2>9 DEF Output, f, g, S, S2
<1>12. infos2[n + 1].totalEthDeposited = 0
  <2>1. n + 1 > n /\ n + 1 \in Round \ {n}
    BY <1>3
  <2> QED  BY <1>2, <2>1 DEF GoodRow, Frontier
<1> QED  BY <1>5, <1>7, <1>8, <1>9, <1>10, <1>11, <1>12 DEF GoodRow

\* A round is skipped when there is nothing to serve from it.
Skipped(info, deposit) ==
    deposit = 0 \/ info.totalEthDeposited = 0 \/ info.totalCkTokenIssued = 0

\* The rounds a withdrawal serves an account from, and the rows it leaves.
Serves(n, infos, left, a) == {i \in 0 .. n - 1 : ~Skipped(infos[i], left[i][a])}

InfosAfter(n, infos, left, a) ==
    [i \in Round |-> IF i \in Serves(n, infos, left, a) THEN Rest(infos[i], left[i][a])
                     ELSE infos[i]]

LeftAfter(n, infos, left, a) ==
    [i \in Round |-> IF i \in Serves(n, infos, left, a) THEN [left[i] EXCEPT ![a] = 0]
                     ELSE left[i]]

\* What a withdrawal does round by round.
LEMMA RowServes ==
    ASSUME NEW n, NEW infos, NEW left, NEW deposits, NEW brought, NEW ck, NEW sent,
           GoodRow(n, infos, left, deposits, brought, ck, sent), NEW a \in Account,
           NEW i \in Round
    PROVE  LET info2 == InfosAfter(n, infos, left, a)[i]
               left2 == LeftAfter(n, infos, left, a)[i]
               w     == PartsOf(infos, left, a)[i]
           IN  /\ GoodRound(info2, left2, deposits[i], brought[i])
               /\ w \in Nat /\ infos[i].totalCkTokenIssued = info2.totalCkTokenIssued + w
               /\ \A b \in Account \ {a} :
                    left2[b] = left[i][b] /\ Part(infos[i], left[i][b]) <= Part(info2, left2[b])
               /\ i \notin Serves(n, infos, left, a) =>
                    w = 0 /\ info2 = infos[i] /\ left2 = left[i]
               /\ i \in Serves(n, infos, left, a) =>
                    /\ i < n /\ left2[a] = 0 /\ left[i][a] > 0 /\ deposits[i][a] > 0
                    /\ w \in SharesOf(deposits, brought, a)[i]
                               .. SharesOf(deposits, brought, a)[i] + OthersOf(deposits, a)[i]
<1> DEFINE info2 == InfosAfter(n, infos, left, a)[i]
           left2 == LeftAfter(n, infos, left, a)[i]
           w     == PartsOf(infos, left, a)[i]
           V     == Serves(n, infos, left, a)
<1>1. RowType(n, infos, left, deposits, brought, ck, sent)
      /\ GoodRound(infos[i], left[i], deposits[i], brought[i])
  BY DEF GoodRow
<1>2. /\ infos[i] \in RoundInfo /\ left[i] \in [Account -> Nat] /\ left[i][a] \in Nat
      /\ infos[i].totalEthDeposited \in Nat /\ infos[i].totalCkTokenIssued \in Nat
      /\ n \in Nat /\ i \in Nat
  <2>1. /\ infos[i] \in RoundInfo /\ left[i] \in [Account -> Nat] /\ left[i][a] \in Nat
        /\ n \in Round
    BY <1>1 DEF RowType
  <2>2. n \in Nat /\ i \in Nat
    BY <2>1, Rounds
  <2> QED  BY <2>1, <2>2 DEF RoundInfo
<1>3. w = Part(infos[i], left[i][a]) /\ w \in Nat
  BY <1>2, PartBounds DEF PartsOf
<1>4. ASSUME NEW b \in Account
      PROVE  Part(infos[i], left[i][b]) \in Nat
  <2>1. left[i][b] \in Nat
    BY <1>2
  <2> QED  BY <1>2, <2>1, PartBounds
<1>5. CASE i \notin V
  <2>1. info2 = infos[i] /\ left2 = left[i]
    BY <1>5 DEF InfosAfter, LeftAfter
  <2>2. w = 0
    <3>1. CASE i >= n
      <4>1. infos[i].totalCkTokenIssued = 0
        BY <3>1 DEF GoodRow, Frontier
      <4> QED  BY <1>3, <4>1 DEF Part
    <3>2. CASE ~(i >= n)
      <4>1. i \in 0 .. n - 1
        BY <1>2, <3>2
      <4>2. Skipped(infos[i], left[i][a])
        BY <1>5, <4>1 DEF Serves
      <4> QED  BY <1>3, <4>2 DEF Part, Skipped
    <3> QED  BY <3>1, <3>2
  <2>3. \A b \in Account : Part(infos[i], left[i][b]) <= Part(infos[i], left[i][b])
    BY <1>4
  <2> HIDE DEF info2, left2, w, V
  <2> QED  BY <1>1, <1>2, <1>3, <1>5, <2>1, <2>2, <2>3 DEF info2, left2, w, V
<1>6. CASE i \in V
  <2>1. i \in 0 .. n - 1 /\ ~Skipped(infos[i], left[i][a])
    BY <1>6 DEF Serves
  <2>2. left[i][a] > 0 /\ infos[i].totalEthDeposited > 0 /\ infos[i].totalCkTokenIssued > 0
    BY <1>2, <2>1 DEF Skipped
  <2>3. info2 = Rest(infos[i], left[i][a]) /\ left2 = [left[i] EXCEPT ![a] = 0]
    BY <1>6 DEF InfosAfter, LeftAfter
  <2> DEFINE share == (brought[i] * deposits[i][a]) \div Total(deposits[i])
             others == Cardinality({b \in Account \ {a} : deposits[i][b] > 0})
  <2>4. /\ GoodRound(Rest(infos[i], left[i][a]), [left[i] EXCEPT ![a] = 0], deposits[i],
                     brought[i])
        /\ w \in share .. share + others
        /\ deposits[i][a] > 0 /\ infos[i].totalCkTokenIssued - w \in Nat
        /\ \A b \in Account \ {a} :
             Part(infos[i], left[i][b]) <= Part(Rest(infos[i], left[i][a]), left[i][b])
    <3>1. GoodRound(infos[i], left[i], deposits[i], brought[i])
      BY <1>1
    <3> HIDE DEF w
    <3>2. /\ GoodRound(Rest(infos[i], left[i][a]), [left[i] EXCEPT ![a] = 0], deposits[i],
                       brought[i])
          /\ Part(infos[i], left[i][a]) \in share .. share + others
          /\ deposits[i][a] > 0
          /\ infos[i].totalCkTokenIssued - Part(infos[i], left[i][a]) \in Nat
          /\ \A b \in Account \ {a} :
               Part(infos[i], left[i][b]) <= Part(Rest(infos[i], left[i][a]), left[i][b])
      BY <2>2, <3>1, RoundServes
    <3> QED  BY <1>3, <3>2
  <2>5. SharesOf(deposits, brought, a)[i] = share /\ OthersOf(deposits, a)[i] = others
    BY <2>4 DEF SharesOf, OthersOf
  <2>6. info2.totalCkTokenIssued = infos[i].totalCkTokenIssued - w
    BY <1>3, <2>3 DEF Rest
  <2>7. infos[i].totalCkTokenIssued = info2.totalCkTokenIssued + w
    BY <1>2, <1>3, <2>6
  <2>8. left2[a] = 0 /\ \A b \in Account \ {a} : left2[b] = left[i][b]
    BY <1>2, <2>3
  <2>9. i < n
    BY <1>2, <2>1
  <2>10. \A b \in Account \ {a} : Part(infos[i], left[i][b]) <= Part(info2, left2[b])
    BY <2>3, <2>4, <2>8
  <2>11. GoodRound(info2, left2, deposits[i], brought[i])
    BY <2>3, <2>4
  <2> HIDE DEF info2, left2, w, V, share, others
  <2> QED  BY <1>3, <1>6, <2>2, <2>4, <2>5, <2>7, <2>8, <2>9, <2>10, <2>11
           DEF info2, left2, w, V
<1> QED  BY <1>5, <1>6

\* A withdrawal by one account.
LEMMA RowWithdraws ==
    ASSUME NEW n, NEW infos, NEW left, NEW deposits, NEW brought, NEW ck, NEW sent,
           GoodRow(n, infos, left, deposits, brought, ck, sent), NEW a \in Account,
           NEW infos2, infos2 = InfosAfter(n, infos, left, a),
           NEW left2, left2 = LeftAfter(n, infos, left, a),
           NEW out, out = Output(n, infos, left, a),
           NEW sent2, sent2 = [sent EXCEPT ![a] = @ + out]
    PROVE  /\ GoodRow(n, infos2, left2, deposits, brought, ck - out, sent2)
           /\ out \in Nat /\ infos2[n] = infos[n] /\ left2[n] = left[n]
           /\ \A b \in Account \ {a} : Output(n, infos2, left2, b) >= Output(n, infos, left, b)
<1> DEFINE V == Serves(n, infos, left, a)
           S == 0 .. n - 1
           w == PartsOf(infos, left, a)
           f == SharesOf(deposits, brought, a)
           g == OthersOf(deposits, a)
           was == IssuedOf(infos)
           is  == IssuedOf(infos2)
<1>1. RowType(n, infos, left, deposits, brought, ck, sent)
  BY DEF GoodRow
<1>2. /\ n \in Round /\ n \in Nat /\ S \subseteq Round /\ IsFiniteSet(S) /\ IsFiniteSet(Round)
      /\ V \subseteq S /\ V \subseteq Round /\ n \notin S /\ n \notin V
  <2>1. n \in Round /\ n \in Nat /\ S \subseteq Round /\ IsFiniteSet(S) /\ IsFiniteSet(Round)
    BY <1>1, Rounds DEF RowType
  <2>2. V \subseteq S
    BY DEF Serves
  <2>3. n \notin S
    BY <2>1
  <2> HIDE DEF V, S
  <2> QED  BY <2>1, <2>2, <2>3
<1>3. /\ w \in [Round -> Nat] /\ f \in [Round -> Nat] /\ g \in [Round -> Nat]
      /\ was \in [Round -> Nat]
  BY <1>1, RowFunctions
<1>4. \A i \in Round :
        /\ GoodRound(infos2[i], left2[i], deposits[i], brought[i])
        /\ was[i] = is[i] + w[i]
        /\ \A b \in Account \ {a} :
             left2[i][b] = left[i][b] /\ Part(infos[i], left[i][b]) <= Part(infos2[i], left2[i][b])
        /\ i \notin V => w[i] = 0 /\ infos2[i] = infos[i] /\ left2[i] = left[i]
        /\ i \in V => /\ left2[i][a] = 0 /\ left[i][a] > 0 /\ deposits[i][a] > 0
                      /\ w[i] \in f[i] .. f[i] + g[i]
  BY RowServes DEF IssuedOf
<1>5. /\ DOMAIN infos2 = Round /\ DOMAIN left2 = Round
      /\ infos2 = [i \in Round |-> infos2[i]] /\ left2 = [i \in Round |-> left2[i]]
  BY DEF InfosAfter, LeftAfter
<1>6. infos2 \in [Round -> RoundInfo] /\ left2 \in [Round -> [Account -> Nat]]
  <2>1. \A i \in Round : infos2[i] \in RoundInfo /\ left2[i] \in [Account -> Nat]
    BY <1>4 DEF GoodRound
  <2> QED  BY <1>5, <2>1
<1>7. is \in [Round -> Nat]
  BY <1>6 DEF IssuedOf, RoundInfo
<1> HIDE DEF V, S, w, f, g, was, is
<1>8. out = SumFunctionOnSet(w, S) /\ out = SumFunctionOnSet(w, V)
      /\ out = SumFunctionOnSet(w, Round)
  <2>1. /\ \A i \in Round : w[i] \in Int
        /\ \A i \in S : w[i] \in Int
        /\ \A i \in S \ V : w[i] = 0
        /\ \A i \in Round \ V : w[i] = 0
        /\ V \in SUBSET S /\ V \in SUBSET Round
    BY <1>2, <1>3, <1>4
  <2>2. SumFunctionOnSet(w, S) = SumFunctionOnSet(w, V)
    BY <1>2, <2>1, SumNonZero
  <2>3. SumFunctionOnSet(w, Round) = SumFunctionOnSet(w, V)
    BY <1>2, <2>1, SumNonZero
  <2>4. out = SumFunctionOnSet(w, S)
    BY DEF Output, w, S
  <2> QED  BY <2>2, <2>3, <2>4
<1>9. out \in Nat
  <2>1. \A i \in Round : w[i] \in Int /\ w[i] >= 0
    BY <1>3
  <2>2. SumFunctionOnSet(w, Round) \in Int /\ SumFunctionOnSet(w, Round) >= 0
    BY <1>2, <2>1, SumType
  <2> QED  BY <1>8, <2>2
<1>10. SumFunctionOnSet(is, Round) = ck - out /\ ck - out \in Nat
  <2>1. \A i \in Round : is[i] \in Int /\ w[i] \in Int /\ was[i] = is[i] + w[i]
    BY <1>3, <1>4, <1>7
  <2>2. SumFunctionOnSet(was, Round)
          = SumFunctionOnSet(is, Round) + SumFunctionOnSet(w, Round)
    <3>1. IsFiniteSet(Round) /\ Round \in SUBSET Round
      BY <1>2
    <3> QED  BY <2>1, <3>1, SumOfSums
  <2>3. SumFunctionOnSet(was, Round) = ck /\ ck \in Nat
    BY <1>1 DEF GoodRow, RowType, was
  <2>4. \A i \in Round : is[i] \in Int /\ is[i] >= 0
    BY <1>7
  <2>5. SumFunctionOnSet(is, Round) \in Int /\ SumFunctionOnSet(is, Round) >= 0
    BY <1>2, <2>4, SumType
  <2> QED  BY <1>8, <1>9, <2>2, <2>3, <2>5
<1>11. sent2 \in [Account -> Nat] /\ sent2[a] = sent[a] + out
       /\ \A b \in Account \ {a} : sent2[b] = sent[b]
  BY <1>1, <1>9 DEF RowType
<1>12. RowType(n, infos2, left2, deposits, brought, ck - out, sent2)
  BY <1>1, <1>6, <1>10, <1>11 DEF RowType
<1>13. Frontier(n, infos2, left2, deposits, brought)
  <2>1. \A i \in Round : i >= n => i \notin V
    BY <1>2, Rounds DEF S
  <2>2. \A i \in Round : i > n => i >= n
    BY <1>2, Rounds
  <2>3. \A i \in Round : i >= n => infos2[i] = infos[i] /\ left2[i] = left[i]
    BY <1>4, <2>1
  <2> QED  BY <2>2, <2>3 DEF GoodRow, Frontier
<1>14. FairRow(n, left2, deposits, brought, sent2)
  <2> SUFFICES ASSUME NEW b \in Account
               PROVE  LET served == ServedRounds(n, left2, deposits, b)
                          least  == SumFunctionOnSet(SharesOf(deposits, brought, b), served)
                      IN  sent2[b] \in least
                            .. least + SumFunctionOnSet(OthersOf(deposits, b), served)
    BY DEF FairRow
  <2>1. CASE b # a
    <3>1. \A i \in S : left2[i][b] = left[i][b]
      BY <1>2, <1>4, <2>1
    <3>2. ServedRounds(n, left2, deposits, b) = ServedRounds(n, left, deposits, b)
      BY <3>1 DEF ServedRounds, S
    <3>3. sent2[b] = sent[b]
      BY <1>11, <2>1
    <3> QED  BY <3>2, <3>3 DEF GoodRow, FairRow
  <2>2. CASE b = a
    <3> DEFINE A == ServedRounds(n, left, deposits, a)
               A2 == ServedRounds(n, left2, deposits, a)
    <3>1. A2 = A \union V /\ A \intersect V = {} /\ A \subseteq S
      <4>1. A \subseteq S
        BY DEF ServedRounds, S
      <4>2. \A i \in S : i \in A <=> deposits[i][a] > 0 /\ left[i][a] = 0
        BY DEF ServedRounds, S
      <4>3. A2 \subseteq S /\ \A i \in S : i \in A2 <=> deposits[i][a] > 0 /\ left2[i][a] = 0
        BY DEF ServedRounds, S
      <4>4. \A i \in V : i \notin A /\ i \in A2
        <5> SUFFICES ASSUME NEW i \in V PROVE i \notin A /\ i \in A2
          OBVIOUS
        <5>1. i \in S /\ left2[i][a] = 0 /\ left[i][a] > 0 /\ deposits[i][a] > 0
          BY <1>2, <1>4
        <5> HIDE DEF A, A2
        <5>2. ~(left[i][a] = 0)
          BY <5>1
        <5> QED  BY <4>2, <4>3, <5>1, <5>2
      <4>5. \A i \in S \ V : i \in A2 <=> i \in A
        <5> HIDE DEF A, A2
        <5> SUFFICES ASSUME NEW i \in S \ V PROVE i \in A2 <=> i \in A
          OBVIOUS
        <5>1. left2[i] = left[i]
          BY <1>2, <1>4
        <5> QED  BY <4>2, <4>3, <5>1
      <4> HIDE DEF A, A2
      <4> QED  BY <1>2, <4>1, <4>3, <4>4, <4>5
    <3>2. sent[a] \in SumFunctionOnSet(f, A) .. SumFunctionOnSet(f, A) + SumFunctionOnSet(g, A)
      BY DEF GoodRow, FairRow, f, g
    <3>3. A2 = ServedRounds(n, left2, deposits, b)
      BY <2>2
    <3> HIDE DEF A, A2
    <3>4. A2 \ A = V /\ A \in SUBSET A2 /\ A2 \in SUBSET Round /\ V \in SUBSET Round
          /\ A \in SUBSET Round
      BY <1>2, <3>1
    <3>5. /\ IsFiniteSet(A2) /\ IsFiniteSet(V)
          /\ \A i \in A2 : f[i] \in Int
          /\ \A i \in A2 : g[i] \in Int
      <4>1. IsFiniteSet(A2) /\ IsFiniteSet(V)
        BY <1>2, <3>4, FS_Subset
      <4>2. \A i \in A2 : i \in Round
        BY <3>4
      <4> QED  BY <1>3, <4>1, <4>2
    <3>6. SumFunctionOnSet(f, A2) = SumFunctionOnSet(f, A) + SumFunctionOnSet(f, V)
      BY <3>4, <3>5, SumSplit
    <3>7. SumFunctionOnSet(g, A2) = SumFunctionOnSet(g, A) + SumFunctionOnSet(g, V)
      BY <3>4, <3>5, SumSplit
    <3> DEFINE h == [i \in Round |-> f[i] + g[i]]
    <3>8. /\ \A i \in V : f[i] \in Int /\ w[i] \in Int /\ f[i] <= w[i]
          /\ \A i \in V : w[i] \in Int /\ h[i] \in Int /\ w[i] <= h[i]
          /\ \A i \in V : f[i] \in Int /\ g[i] \in Int /\ h[i] = f[i] + g[i]
      <4>1. \A i \in V : i \in Round
        BY <1>2
      <4>2. \A i \in V : /\ f[i] \in Int /\ g[i] \in Int /\ w[i] \in Int
                         /\ f[i] <= w[i] /\ w[i] <= f[i] + g[i]
        BY <1>3, <1>4, <4>1
      <4>3. \A i \in V : h[i] = f[i] + g[i]
        BY <4>1
      <4>4. \A i \in V : h[i] \in Int
        BY <4>2, <4>3
      <4> HIDE DEF h
      <4> QED  BY <4>2, <4>3, <4>4
    <3> HIDE DEF h
    <3>9. SumFunctionOnSet(f, V) <= SumFunctionOnSet(w, V)
      BY <3>5, <3>8, SumMonotone
    <3>10. SumFunctionOnSet(w, V) <= SumFunctionOnSet(h, V)
      BY <3>5, <3>8, SumMonotone
    <3>11. SumFunctionOnSet(h, V) = SumFunctionOnSet(f, V) + SumFunctionOnSet(g, V)
      BY <3>5, <3>8, SumOfSums
    <3>12. /\ SumFunctionOnSet(f, A) \in Int /\ SumFunctionOnSet(f, V) \in Int
           /\ SumFunctionOnSet(g, A) \in Int /\ SumFunctionOnSet(g, V) \in Int
      <4>1. \A i \in Round : f[i] \in Int
        BY <1>3
      <4>2. \A i \in Round : g[i] \in Int
        BY <1>3
      <4>3. SumFunctionOnSet(f, A) \in Int /\ SumFunctionOnSet(f, V) \in Int
        BY <1>2, <3>4, <4>1, SumType
      <4>4. SumFunctionOnSet(g, A) \in Int /\ SumFunctionOnSet(g, V) \in Int
        BY <1>2, <3>4, <4>2, SumType
      <4> QED  BY <4>3, <4>4
    <3> DEFINE fA == SumFunctionOnSet(f, A)
               fV == SumFunctionOnSet(f, V)
               gA == SumFunctionOnSet(g, A)
               gV == SumFunctionOnSet(g, V)
    <3> HIDE DEF fA, fV, gA, gV
    <3>13. sent[a] \in fA .. fA + gA /\ fV <= out /\ out <= fV + gV
      BY <1>8, <3>2, <3>9, <3>10, <3>11 DEF fA, fV, gA, gV
    <3>14. fA \in Int /\ fV \in Int /\ gA \in Int /\ gV \in Int
      BY <3>12 DEF fA, fV, gA, gV
    <3>15. sent2[a] \in fA + fV .. (fA + fV) + (gA + gV)
      BY <1>9, <1>11, <3>13, <3>14
    <3> QED  BY <2>2, <3>3, <3>6, <3>7, <3>15 DEF f, g, fA, fV, gA, gV
  <2> QED  BY <2>1, <2>2
<1>15. ASSUME NEW b \in Account \ {a}
       PROVE  Output(n, infos2, left2, b) >= Output(n, infos, left, b)
  <2> DEFINE p == PartsOf(infos, left, b)
             q == PartsOf(infos2, left2, b)
  <2>1. p \in [Round -> Nat] /\ q \in [Round -> Nat]
    BY <1>1, <1>12, RowFunctions
  <2>2. \A i \in Round : p[i] <= q[i]
    BY <1>4 DEF PartsOf
  <2>3. Output(n, infos, left, b) = SumFunctionOnSet(p, S)
        /\ Output(n, infos2, left2, b) = SumFunctionOnSet(q, S)
    BY DEF Output, S
  <2> HIDE DEF p, q
  <2>4. \A i \in Round : p[i] \in Int /\ q[i] \in Int /\ p[i] <= q[i]
    BY <2>1, <2>2
  <2>5. SumFunctionOnSet(p, S) <= SumFunctionOnSet(q, S)
    BY <1>2, <2>4, SumMonotone
  <2>6. \A i \in Round : p[i] \in Int
    BY <2>4
  <2>7. \A i \in Round : q[i] \in Int
    BY <2>4
  <2>8. SumFunctionOnSet(p, S) \in Int
    BY <1>2, <2>6, SumType
  <2>9. SumFunctionOnSet(q, S) \in Int
    BY <1>2, <2>7, SumType
  <2> QED  BY <2>3, <2>5, <2>8, <2>9
<1>16. infos2[n] = infos[n] /\ left2[n] = left[n]
  BY <1>2, <1>4
<1>17. \A i \in Round : GoodRound(infos2[i], left2[i], deposits[i], brought[i])
  BY <1>4
<1> QED  BY <1>9, <1>10, <1>12, <1>13, <1>14, <1>15, <1>16, <1>17 DEF GoodRow, is

\* What all accounts may withdraw is no more than the CKTokens held.
LEMMA RowCovered ==
    ASSUME NEW n, NEW infos, NEW left, NEW deposits, NEW brought, NEW ck, NEW sent,
           GoodRow(n, infos, left, deposits, brought, ck, sent),
           NEW f, \A a \in Account : f[a] = Output(n, infos, left, a)
    PROVE  SumFunctionOnSet(f, Account) <= ck
<1> DEFINE S == 0 .. n - 1
           table == [a \in Account |-> PartsOf(infos, left, a)]
           flipped == [i \in Round |-> [a \in Account |-> PartsOf(infos, left, a)[i]]]
           column(i) == flipped[i]
           columns == [i \in Round |-> SumFunctionOnSet(column(i), Account)]
           was == IssuedOf(infos)
<1>1. RowType(n, infos, left, deposits, brought, ck, sent)
  BY DEF GoodRow
<1>2. /\ IsFiniteSet(Account) /\ IsFiniteSet(Round) /\ IsFiniteSet(S) /\ S \subseteq Round
      /\ S \in SUBSET Round
  BY <1>1, BatchAssumption, Rounds DEF RowType
<1>3. \A a \in Account : table[a] \in [Round -> Nat]
  BY <1>1, RowFunctions
<1>4. \A a \in Account : \A i \in S : table[a][i] \in Int
  <2> HIDE DEF table, S
  <2> QED  BY <1>2, <1>3
<1>5. \A a \in Account : f[a] = SumFunctionOnSet(table[a], S)
  BY DEF Output
<1>6. /\ \A i \in S : columns[i] = SumFunctionOnSet(flipped[i], Account)
      /\ \A a \in Account, i \in S : flipped[i][a] = table[a][i]
  <2> HIDE DEF S
  <2> QED  BY <1>2
<1>7. SumFunctionOnSet(f, Account) = SumFunctionOnSet(columns, S)
  <2> HIDE DEF S, table, flipped, columns
  <2>1. \A a \in Account, i \in S : table[a][i] \in Int
    BY <1>4
  <2> QED  BY <1>2, <1>5, <1>6, <2>1, SumExchange
<1>8. was \in [Round -> Nat]
  BY <1>1, BatchAssumption DEF RowType, IssuedOf, RoundInfo
<1>9. ASSUME NEW i \in Round
      PROVE  columns[i] \in Int /\ columns[i] <= was[i]
  <2>1. GoodRound(infos[i], left[i], deposits[i], brought[i])
    BY DEF GoodRow
  <2> DEFINE c == column(i)
  <2>2. \A a \in Account : c[a] = Part(infos[i], left[i][a])
    BY DEF PartsOf
  <2>3. columns[i] = SumFunctionOnSet(c, Account)
    OBVIOUS
  <2>4. was[i] = infos[i].totalCkTokenIssued
    BY DEF IssuedOf
  <2> HIDE DEF c, columns, was
  <2>5. (\A a \in Account : c[a] \in Int)
        /\ SumFunctionOnSet(c, Account) <= infos[i].totalCkTokenIssued
    BY <2>1, <2>2, PartsCovered
  <2>6. SumFunctionOnSet(c, Account) \in Int
    BY <1>2, <2>5, SumType
  <2> QED  BY <2>3, <2>4, <2>5, <2>6
<1> HIDE DEF S, columns, was
<1>10. SumFunctionOnSet(columns, S) <= SumFunctionOnSet(was, S)
  <2>1. \A i \in Round : columns[i] \in Int /\ was[i] \in Int /\ columns[i] <= was[i]
    BY <1>8, <1>9
  <2> QED  BY <1>2, <2>1, SumMonotone
<1>11. SumFunctionOnSet(was, S) <= SumFunctionOnSet(was, Round)
  <2>1. \A i \in Round : was[i] \in Int /\ was[i] >= 0
    BY <1>8
  <2>2. \A T \in SUBSET Round : SumFunctionOnSet(was, T) \in Int /\ SumFunctionOnSet(was, T) >= 0
    BY <1>2, <2>1, SumType
  <2>3. \A i \in Round : was[i] \in Int
    BY <2>1
  <2>4. SumFunctionOnSet(was, Round)
          = SumFunctionOnSet(was, S) + SumFunctionOnSet(was, Round \ S)
    BY <1>2, <2>3, SumSplit
  <2>5. SumFunctionOnSet(was, S) \in Int /\ SumFunctionOnSet(was, Round \ S) \in Int
        /\ SumFunctionOnSet(was, Round \ S) >= 0
    BY <1>2, <2>2
  <2> QED  BY <2>4, <2>5
<1>12. SumFunctionOnSet(was, Round) = ck /\ ck \in Int
  BY <1>1 DEF GoodRow, RowType, was
<1>13. SumFunctionOnSet(was, S) \in Int /\ SumFunctionOnSet(columns, S) \in Int
  <2>1. \A i \in Round : was[i] \in Int
    BY <1>8
  <2>2. \A i \in Round : columns[i] \in Int
    BY <1>9
  <2>3. SumFunctionOnSet(was, S) \in Int
    BY <1>2, <2>1, SumType
  <2>4. SumFunctionOnSet(columns, S) \in Int
    BY <1>2, <2>2, SumType
  <2> QED  BY <2>3, <2>4
<1> QED  BY <1>7, <1>10, <1>11, <1>12, <1>13

\* Before anything was deposited.
LEMMA RowStarts ==
    ASSUME NEW infos, NEW left, NEW brought, NEW sent,
           infos = [i \in Round |-> [totalEthDeposited |-> 0, totalCkTokenIssued |-> 0]],
           left = [i \in Round |-> [a \in Account |-> 0]],
           brought = [i \in Round |-> 0], sent = [a \in Account |-> 0]
    PROVE  GoodRow(0, infos, left, left, brought, 0, sent)
<1> DEFINE none == [a \in Account |-> 0]
<1>1. RowType(0, infos, left, left, brought, 0, sent)
  BY BatchAssumption DEF RowType, Round, RoundInfo
<1>2. Total(none) = 0
  <2>1. \A a \in Account : none[a] = 0
    OBVIOUS
  <2> HIDE DEF none
  <2> QED  BY <2>1, BatchAssumption, SumZero DEF Total
<1>3. \A i \in Round : GoodRound(infos[i], left[i], left[i], brought[i])
  <2> SUFFICES ASSUME NEW i \in Round
               PROVE  GoodRound(infos[i], left[i], left[i], brought[i])
    OBVIOUS
  <2>1. /\ infos[i] \in RoundInfo /\ left[i] = none /\ brought[i] = 0
        /\ infos[i].totalEthDeposited = 0 /\ infos[i].totalCkTokenIssued = 0
        /\ none \in [Account -> Nat] /\ \A a \in Account : none[a] = 0
    BY DEF RoundInfo
  <2> HIDE DEF none
  <2> DEFINE z == Cardinality(Served(none, none))
  <2>2. z \in Nat
    BY ServedFinite
  <2> HIDE DEF z
  <2>3. 0 * 0 <= 0 * 0 /\ 0 * 0 <= 0 * 0 + z * 0
    BY <2>2
  <2> QED  BY <1>2, <2>1, <2>3 DEF GoodRound, z
<1>4. Frontier(0, infos, left, left, brought)
  BY DEF Frontier
<1>5. SumFunctionOnSet(IssuedOf(infos), Round) = 0
  <2>1. \A i \in Round : IssuedOf(infos)[i] = 0
    BY DEF IssuedOf
  <2> QED  BY <2>1, Rounds, SumZero
<1>6. FairRow(0, left, left, brought, sent)
  <2> SUFFICES ASSUME NEW a \in Account
               PROVE  LET served == ServedRounds(0, left, left, a)
                          least  == SumFunctionOnSet(SharesOf(left, brought, a), served)
                      IN  sent[a] \in least
                            .. least + SumFunctionOnSet(OthersOf(left, a), served)
    BY DEF FairRow
  <2>1. ServedRounds(0, left, left, a) = {}
    BY DEF ServedRounds
  <2>2. /\ SumFunctionOnSet(SharesOf(left, brought, a), {}) = 0
        /\ SumFunctionOnSet(OthersOf(left, a), {}) = 0
    BY SumEmpty
  <2> QED  BY <2>1, <2>2
<1> QED  BY <1>1, <1>3, <1>4, <1>5, <1>6 DEF GoodRow

\* outputBalanceOf as Output states it.
LEMMA OutputIs ==
    ASSUME NEW n \in Round, NEW infos \in [Round -> RoundInfo],
           NEW left \in [Round -> [Account -> Nat]], NEW a \in Account
    PROVE  SumFunction([i \in 0 .. n - 1 |-> Part(infos[i], left[i][a])])
             = Output(n, infos, left, a)
<1> DEFINE S == 0 .. n - 1
           f == PartsOf(infos, left, a)
           g == [i \in S |-> Part(infos[i], left[i][a])]
<1>1. IsFiniteSet(S) /\ S \subseteq Round
  BY Rounds
<1>2. \A i \in Round : f[i] \in Int
  <2> SUFFICES ASSUME NEW i \in Round PROVE f[i] \in Int
    OBVIOUS
  <2>1. infos[i] \in RoundInfo /\ left[i][a] \in Nat
    OBVIOUS
  <2> QED  BY <2>1, PartBounds DEF PartsOf
<1>3. \A i \in S : f[i] = g[i]
  <2> HIDE DEF S
  <2> QED  BY <1>1 DEF PartsOf
<1>4. SumFunction(g) = SumFunctionOnSet(g, S)
  BY DEF SumFunction
<1> HIDE DEF S, f, g
<1>5. \A i \in S : f[i] \in Int /\ f[i] = g[i]
  BY <1>1, <1>2, <1>3
<1>6. SumFunctionOnSet(f, S) = SumFunctionOnSet(g, S)
  BY <1>1, <1>5, SumSame
<1> QED  BY <1>4, <1>6 DEF Output, f, g, S

\* FairShare, of one account.
FairSent(n, left, deposits, brought, sent, a) ==
    LET total(i) == SumFunction(deposits[i])
        served == {i \in 0 .. n - 1 : deposits[i][a] > 0 /\ left[i][a] = 0}
        share(i) == (brought[i] * deposits[i][a]) \div total(i)
        others(i) == Cardinality({b \in Account \ {a} : deposits[i][b] > 0})
        least == SumFunction([i \in served |-> share(i)])
    IN  sent[a] \in least .. least + SumFunction([i \in served |-> others(i)])

LEMMA FairIs ==
    ASSUME NEW n, NEW infos, NEW left, NEW deposits, NEW brought, NEW ck, NEW sent,
           GoodRow(n, infos, left, deposits, brought, ck, sent), NEW a \in Account
    PROVE  FairSent(n, left, deposits, brought, sent, a)
<1> DEFINE served == {i \in 0 .. n - 1 : deposits[i][a] > 0 /\ left[i][a] = 0}
           total(i) == SumFunction(deposits[i])
           f  == SharesOf(deposits, brought, a)
           f2 == [i \in served |-> (brought[i] * deposits[i][a]) \div total(i)]
           g  == OthersOf(deposits, a)
           g2 == [i \in served |-> Cardinality({b \in Account \ {a} : deposits[i][b] > 0})]
<1>1. RowType(n, infos, left, deposits, brought, ck, sent)
  BY DEF GoodRow
<1>2. served \subseteq Round /\ IsFiniteSet(served) /\ served = ServedRounds(n, left, deposits, a)
      /\ \A i \in served : deposits[i][a] > 0
  <2>1. served = ServedRounds(n, left, deposits, a) /\ served \subseteq 0 .. n - 1
        /\ \A i \in served : deposits[i][a] > 0
    BY DEF ServedRounds
  <2>2. 0 .. n - 1 \subseteq Round /\ IsFiniteSet(0 .. n - 1)
    BY <1>1, Rounds DEF RowType
  <2> HIDE DEF served
  <2> QED  BY <2>1, <2>2, FS_Subset
<1>3. sent[a] \in SumFunctionOnSet(f, served)
                    .. SumFunctionOnSet(f, served) + SumFunctionOnSet(g, served)
  BY <1>2 DEF GoodRow, FairRow
<1>4. f \in [Round -> Nat] /\ g \in [Round -> Nat]
  BY <1>1, RowFunctions
<1>5. SumFunction(f2) = SumFunctionOnSet(f2, served) /\ SumFunction(g2) = SumFunctionOnSet(g2, served)
  BY DEF SumFunction
<1>6. \A i \in served : f[i] = f2[i]
  <2> SUFFICES ASSUME NEW i \in served PROVE f[i] = f2[i]
    OBVIOUS
  <2>1. i \in Round /\ deposits[i] \in [Account -> Nat] /\ deposits[i][a] > 0
    <3> HIDE DEF served
    <3> QED  BY <1>1, <1>2 DEF RowType
  <2>2. total(i) = Total(deposits[i])
    <3>1. DOMAIN deposits[i] = Account
      BY <2>1
    <3> QED  BY <3>1 DEF SumFunction, Total
  <2>3. deposits[i][a] # 0
    BY <2>1
  <2>4. f[i] = (brought[i] * deposits[i][a]) \div Total(deposits[i])
    BY <2>1, <2>3 DEF SharesOf
  <2>5. f2[i] = (brought[i] * deposits[i][a]) \div total(i)
    OBVIOUS
  <2> QED  BY <2>2, <2>4, <2>5
<1>7. \A i \in served : g[i] = g2[i]
  <2> SUFFICES ASSUME NEW i \in served PROVE g[i] = g2[i]
    OBVIOUS
  <2>1. i \in Round
    <3> HIDE DEF served
    <3> QED  BY <1>2
  <2> QED  BY <2>1 DEF OthersOf
<1>8. SumFunctionOnSet(f, served) = SumFunction(f2) /\ SumFunctionOnSet(g, served) = SumFunction(g2)
  <2> HIDE DEF served, f, g, f2, g2
  <2>1. \A i \in served : f[i] \in Int /\ f[i] = f2[i]
    BY <1>2, <1>4, <1>6
  <2>2. \A i \in served : g[i] \in Int /\ g[i] = g2[i]
    BY <1>2, <1>4, <1>7
  <2>3. SumFunctionOnSet(f, served) = SumFunctionOnSet(f2, served)
    BY <1>2, <2>1, SumSame
  <2>4. SumFunctionOnSet(g, served) = SumFunctionOnSet(g2, served)
    BY <1>2, <2>2, SumSame
  <2> QED  BY <1>5, <2>3, <2>4
<1> HIDE DEF f, g
<1> QED  BY <1>3, <1>8 DEF FairSent

-----------------------------------------------------------------------------
(* The module *)

GoodCKToken(k) ==
    GoodRow(roundNumbers[k], roundInfos[k], userDeposits[k], deposited[k], issued[k],
            ckHeld[k], received[k])

BatchTypes ==
    /\ moduleState \in [CKToken -> {"PENDING", "INITIALIZED", "NONE"}]
    /\ roundNumbers \in [CKToken -> Round]
    /\ roundInfos \in [CKToken -> [Round -> RoundInfo]]
    /\ userDeposits \in [CKToken -> [Round -> [Account -> Nat]]]
    /\ pooledToken \in [CKToken -> Pooled \union {Null}] /\ incentive \in [CKToken -> Nat]
    /\ held \in [Pooled -> Nat]
    /\ ckHeld \in [CKToken -> Nat] /\ received \in [CKToken -> [Account -> Nat]]
    /\ deposited \in [CKToken -> [Round -> [Account -> Nat]]]
    /\ issued \in [CKToken -> [Round -> Nat]]

\* Nothing waits before the module is initialized.
Waits(k) == roundInfos[k][roundNumbers[k]].totalEthDeposited

WaitingHeld ==
    \A k \in CKToken :
        moduleState[k] = "PENDING" => Waits(k) = 0 /\ roundNumbers[k] = 0

\* What waits is in the token that issuing it spends, and stays there unless
\* another CKToken's round takes it.
HeldFor(k) ==
    Initialized(k) /\ Waits(k) > 0 => pooledToken[k] # Null /\ held[pooledToken[k]] >= Waits(k)

WaitingKept ==
    \A k \in CKToken :
        HeldFor(k) => \/ HeldFor(k)'
                      \/ \E l \in CKToken \ {k} :
                           roundNumbers'[l] # roundNumbers[l] /\ pooledToken[l] = pooledToken[k]

BatchInv == BatchTypes /\ (\A k \in CKToken : GoodCKToken(k)) /\ WaitingHeld

Claim(k, a) == Output(roundNumbers[k], roundInfos[k], userDeposits[k], a)

\* What an account may withdraw falls only by being sent.
ClaimsKept ==
    \A k \in CKToken, a \in Account :
        Claim(k, a)' >= Claim(k, a) \/ received'[k][a] = received[k][a] + Claim(k, a)

SameRow(k) ==
    /\ roundNumbers'[k] = roundNumbers[k] /\ roundInfos'[k] = roundInfos[k]
    /\ userDeposits'[k] = userDeposits[k] /\ deposited'[k] = deposited[k]
    /\ issued'[k] = issued[k] /\ ckHeld'[k] = ckHeld[k] /\ received'[k] = received[k]

LEMMA ClaimNat ==
    ASSUME NEW n, NEW infos, NEW left, NEW deposits, NEW brought, NEW ck, NEW sent,
           RowType(n, infos, left, deposits, brought, ck, sent), NEW a \in Account
    PROVE  Output(n, infos, left, a) \in Nat
<1> DEFINE S == 0 .. n - 1
           f == PartsOf(infos, left, a)
<1>1. IsFiniteSet(Round) /\ S \in SUBSET Round /\ f \in [Round -> Nat]
  BY Rounds, RowFunctions DEF RowType
<1> HIDE DEF S, f
<1>2. \A i \in Round : f[i] \in Int /\ f[i] >= 0
  BY <1>1
<1>3. \A T \in SUBSET Round : SumFunctionOnSet(f, T) \in Int /\ SumFunctionOnSet(f, T) >= 0
  BY <1>1, <1>2, SumType
<1>4. SumFunctionOnSet(f, S) \in Nat
  BY <1>1, <1>3
<1> QED  BY <1>4 DEF Output, f, S

\* A call on one CKToken leaves the rows of the others.
LEMMA SameRowKept ==
    ASSUME BatchInv, NEW k \in CKToken, SameRow(k)
    PROVE  /\ GoodCKToken(k)' /\ Waits(k)' = Waits(k)
           /\ \A a \in Account : Claim(k, a)' = Claim(k, a) /\ Claim(k, a) \in Nat
<1>1. GoodCKToken(k)
  BY DEF BatchInv
<1>2. GoodCKToken(k)'
  BY <1>1 DEF SameRow, GoodCKToken
<1>3. \A a \in Account : Claim(k, a)' = Claim(k, a) /\ Claim(k, a) \in Nat
  BY <1>1, ClaimNat DEF SameRow, Claim, GoodCKToken, GoodRow
<1> QED  BY <1>2, <1>3 DEF SameRow, Waits

LEMMA OneRow ==
    ASSUME BatchInv, NEW k \in CKToken, GoodCKToken(k)',
           \A l \in CKToken \ {k} : SameRow(l),
           \A a \in Account :
             Claim(k, a)' >= Claim(k, a) \/ received'[k][a] = received[k][a] + Claim(k, a)
    PROVE  (\A l \in CKToken : GoodCKToken(l)') /\ ClaimsKept
<1>1. \A l \in CKToken \ {k} :
        /\ GoodCKToken(l)'
        /\ \A a \in Account : Claim(l, a)' = Claim(l, a) /\ Claim(l, a) \in Nat
  BY SameRowKept
<1>2. \A l \in CKToken \ {k} : \A a \in Account : Claim(l, a)' >= Claim(l, a)
  BY <1>1
<1> QED  BY <1>1, <1>2 DEF ClaimsKept

LEMMA NoRow ==
    ASSUME BatchInv, \A l \in CKToken : SameRow(l)
    PROVE  /\ (\A l \in CKToken : GoodCKToken(l)') /\ ClaimsKept
           /\ \A l \in CKToken : Waits(l)' = Waits(l) /\ Waits(l) \in Nat
<1>1. \A l \in CKToken :
        /\ GoodCKToken(l)' /\ Waits(l)' = Waits(l)
        /\ \A a \in Account : Claim(l, a)' = Claim(l, a) /\ Claim(l, a) \in Nat
  BY SameRowKept
<1>2. \A l \in CKToken : \A a \in Account : Claim(l, a)' >= Claim(l, a)
  BY <1>1
<1>3. \A l \in CKToken : Waits(l) \in Nat
  BY DEF BatchInv, BatchTypes, RoundInfo, Waits
<1> QED  BY <1>1, <1>2, <1>3 DEF ClaimsKept

\* initialize, the manager's settings and removal leave every row.
LEMMA SettingsKeep ==
    ASSUME BatchInv, NEW k \in CKToken, NEW t \in PooledTokens[k] \union {Null},
           NEW rate,
           \/ rate \in Incentives /\ Initialize(k, t, rate)
           \/ UpdatePooledToken(k, t)
           \/ rate \in Incentives /\ UpdateIncentiveRate(k, rate)
           \/ RemoveModule(k)
    PROVE  BatchInv' /\ ClaimsKept /\ WaitingKept
<1>1. BatchTypes /\ (\A l \in CKToken : GoodCKToken(l)) /\ WaitingHeld
  BY DEF BatchInv
<1>2. t \in Pooled \union {Null} /\ (rate \in Incentives => rate \in Nat)
  BY BatchAssumption DEF Pooled
<1>3. \A l \in CKToken : SameRow(l)
  <2>1. CASE rate \in Incentives /\ Initialize(k, t, rate)
    <3>1. roundNumbers' = [roundNumbers EXCEPT ![k] = 0] /\ roundNumbers[k] = 0
      BY <1>1, <2>1 DEF Initialize, WaitingHeld
    <3>2. roundNumbers' = roundNumbers
      BY <1>1, <3>1 DEF BatchTypes
    <3> QED  BY <2>1, <3>2 DEF Initialize, SameRow, history
  <2>2. CASE UpdatePooledToken(k, t)
    BY <2>2 DEF UpdatePooledToken, SameRow, history
  <2>3. CASE rate \in Incentives /\ UpdateIncentiveRate(k, rate)
    BY <2>3 DEF UpdateIncentiveRate, SameRow, history
  <2>4. CASE RemoveModule(k)
    BY <2>4 DEF RemoveModule, SameRow, history
  <2> QED  BY <2>1, <2>2, <2>3, <2>4
<1>4. /\ \A l \in CKToken : GoodCKToken(l)'
      /\ ClaimsKept
      /\ \A l \in CKToken : Waits(l)' = Waits(l) /\ Waits(l) \in Nat
  BY <1>3, NoRow
<1>5. BatchTypes'
  <2>1. CASE rate \in Incentives /\ Initialize(k, t, rate)
    <3>1. roundNumbers' \in [CKToken -> Round]
      BY <1>1, <2>1, BatchAssumption DEF Initialize, BatchTypes, Round
    <3>2. /\ moduleState' \in [CKToken -> {"PENDING", "INITIALIZED", "NONE"}]
          /\ pooledToken' \in [CKToken -> Pooled \union {Null}]
          /\ incentive' \in [CKToken -> Nat]
      BY <1>1, <1>2, <2>1 DEF Initialize, BatchTypes
    <3> QED  BY <1>1, <2>1, <3>1, <3>2 DEF Initialize, BatchTypes, history
  <2>2. CASE UpdatePooledToken(k, t)
    BY <1>1, <1>2, <2>2 DEF UpdatePooledToken, BatchTypes, history
  <2>3. CASE rate \in Incentives /\ UpdateIncentiveRate(k, rate)
    BY <1>1, <1>2, <2>3 DEF UpdateIncentiveRate, BatchTypes, history
  <2>4. CASE RemoveModule(k)
    BY <1>1, <1>2, <2>4 DEF RemoveModule, BatchTypes, history
  <2> QED  BY <2>1, <2>2, <2>3, <2>4
<1>6. held' = held /\ \A l \in CKToken \ {k} : moduleState'[l] = moduleState[l]
                                               /\ pooledToken'[l] = pooledToken[l]
  BY <1>1 DEF Initialize, UpdatePooledToken, UpdateIncentiveRate, RemoveModule, BatchTypes
<1>7. \A l \in CKToken : roundNumbers'[l] = roundNumbers[l]
  BY <1>3 DEF SameRow
<1>8. WaitingHeld'
  <2> SUFFICES ASSUME NEW l \in CKToken, moduleState'[l] = "PENDING"
               PROVE  Waits(l)' = 0 /\ roundNumbers'[l] = 0
    BY DEF WaitingHeld
  <2>1. moduleState[l] = "PENDING"
    BY <1>1 DEF Initialize, UpdatePooledToken, UpdateIncentiveRate, RemoveModule, BatchTypes
  <2> QED  BY <1>1, <1>4, <1>7, <2>1 DEF WaitingHeld
<1>9. WaitingKept
  <2> SUFFICES ASSUME NEW l \in CKToken, HeldFor(l) PROVE HeldFor(l)'
    BY DEF WaitingKept
  <2>1. CASE l # k
    BY <1>4, <1>6, <2>1 DEF HeldFor, Initialized
  <2>2. CASE l = k
    <3>1. CASE rate \in Incentives /\ Initialize(k, t, rate)
      <4>1. Waits(k)' = 0
        BY <1>1, <1>4, <3>1 DEF Initialize, WaitingHeld
      <4> QED  BY <2>2, <4>1 DEF HeldFor
    <3>2. CASE UpdatePooledToken(k, t)
      <4>1. roundInfos[k][roundNumbers[k]].totalCkTokenIssued = 0
        <5>1. roundNumbers[k] \in Round /\ roundNumbers[k] >= roundNumbers[k]
          <6>1. roundNumbers[k] \in Round
            BY <1>1 DEF BatchTypes
          <6>2. roundNumbers[k] \in Nat
            BY <6>1, Rounds
          <6> QED  BY <6>1, <6>2
        <5> QED  BY <1>1, <5>1 DEF GoodCKToken, GoodRow, Frontier
      <4>2. ~(Waits(k)' > 0)
        BY <1>4, <3>2, <4>1 DEF UpdatePooledToken, IsDrained, current, Waits
      <4> QED  BY <2>2, <4>2 DEF HeldFor
    <3>3. CASE rate \in Incentives /\ UpdateIncentiveRate(k, rate)
      BY <1>4, <1>6, <2>2, <3>3 DEF UpdateIncentiveRate, HeldFor, Initialized
    <3>4. CASE RemoveModule(k)
      <4>1. moduleState'[k] = "NONE"
        BY <1>1, <3>4 DEF RemoveModule, BatchTypes
      <4> QED  BY <2>2, <4>1 DEF HeldFor, Initialized
    <3> QED  BY <3>1, <3>2, <3>3, <3>4
  <2> QED  BY <2>1, <2>2
<1> QED  BY <1>4, <1>5, <1>8, <1>9 DEF BatchInv

LEMMA DepositKeeps ==
    ASSUME BatchInv, NEW k \in CKToken, NEW amount \in Amounts, NEW a \in Account,
           Initialized(k), pooledToken[k] # Null, DepositTo(k, amount, a)
    PROVE  BatchInv' /\ ClaimsKept /\ WaitingKept
<1> DEFINE n == roundNumbers[k]
           t == pooledToken[k]
<1>1. BatchTypes /\ (\A l \in CKToken : GoodCKToken(l)) /\ WaitingHeld
  BY DEF BatchInv
<1>2. amount \in Nat /\ n \in Round /\ t \in Pooled
  BY <1>1, BatchAssumption DEF BatchTypes
<1>3. /\ roundInfos' = [roundInfos EXCEPT ![k] =
                          [roundInfos[k] EXCEPT ![n].totalEthDeposited = @ + amount]]
      /\ userDeposits' = [userDeposits EXCEPT ![k] =
                            [userDeposits[k] EXCEPT ![n][a] = @ + amount]]
      /\ deposited' = [deposited EXCEPT ![k] = [deposited[k] EXCEPT ![n][a] = @ + amount]]
      /\ held' = [held EXCEPT ![t] = @ + amount]
      /\ UNCHANGED <<moduleState, roundNumbers, pooledToken, incentive, ckHeld, received, issued>>
  BY DEF DepositTo, CountDeposit, settings
<1>4. /\ roundInfos'[k] = InfosDeposited(n, roundInfos[k], amount)
      /\ userDeposits'[k] = RowsDeposited(n, userDeposits[k], a, amount)
      /\ deposited'[k] = RowsDeposited(n, deposited[k], a, amount)
  BY <1>1, <1>3 DEF BatchTypes, InfosDeposited, RowsDeposited
<1>5. /\ GoodRow(n, roundInfos'[k], userDeposits'[k], deposited'[k], issued[k], ckHeld[k],
                 received[k])
      /\ roundInfos'[k][n].totalEthDeposited = roundInfos[k][n].totalEthDeposited + amount
      /\ \A b \in Account :
           Output(n, roundInfos'[k], userDeposits'[k], b)
             = Output(n, roundInfos[k], userDeposits[k], b)
  <2>1. GoodRow(n, roundInfos[k], userDeposits[k], deposited[k], issued[k], ckHeld[k], received[k])
    BY <1>1 DEF GoodCKToken
  <2> HIDE DEF n
  <2> QED  BY <1>2, <1>4, <2>1, RowDeposits
<1>6. GoodCKToken(k)' /\ Waits(k)' = Waits(k) + amount
  BY <1>3, <1>5 DEF GoodCKToken, Waits
<1>7. \A b \in Account : Claim(k, b)' >= Claim(k, b)
  <2> SUFFICES ASSUME NEW b \in Account PROVE Claim(k, b)' >= Claim(k, b)
    OBVIOUS
  <2>1. Claim(k, b)' = Claim(k, b)
    BY <1>3, <1>5 DEF Claim
  <2>2. Claim(k, b) \in Nat
    BY <1>1, ClaimNat DEF GoodCKToken, GoodRow, Claim
  <2> QED  BY <2>1, <2>2
<1>8. \A l \in CKToken \ {k} : SameRow(l)
  BY <1>1, <1>3 DEF BatchTypes, SameRow
<1>9. (\A l \in CKToken : GoodCKToken(l)') /\ ClaimsKept
  BY <1>6, <1>7, <1>8, OneRow
<1>10. BatchTypes'
  <2>1. /\ roundInfos'[k] \in [Round -> RoundInfo]
        /\ userDeposits'[k] \in [Round -> [Account -> Nat]]
        /\ deposited'[k] \in [Round -> [Account -> Nat]]
    BY <1>6 DEF GoodCKToken, GoodRow, RowType
  <2>2. held' \in [Pooled -> Nat]
    BY <1>1, <1>2, <1>3 DEF BatchTypes
  <2>3. /\ roundInfos' \in [CKToken -> [Round -> RoundInfo]]
        /\ userDeposits' \in [CKToken -> [Round -> [Account -> Nat]]]
        /\ deposited' \in [CKToken -> [Round -> [Account -> Nat]]]
    BY <1>1, <1>3, <1>4, <2>1 DEF BatchTypes
  <2> QED  BY <1>1, <1>3, <2>2, <2>3 DEF BatchTypes
<1>11. \A l \in CKToken : Waits(l) \in Nat
  BY <1>1 DEF BatchTypes, RoundInfo, Waits
<1>12. \A l \in CKToken \ {k} : Waits(l)' = Waits(l)
  BY <1>8 DEF SameRow, Waits
<1>13. \A s \in Pooled : held[s] \in Nat /\ held'[s] = IF s = t THEN held[s] + amount ELSE held[s]
  BY <1>1, <1>3 DEF BatchTypes
<1>14. WaitingHeld'
  <2> SUFFICES ASSUME NEW l \in CKToken, moduleState[l] = "PENDING"
               PROVE  Waits(l)' = 0 /\ roundNumbers[l] = 0
    BY <1>3 DEF WaitingHeld
  <2>1. l # k
    BY DEF Initialized
  <2> QED  BY <1>1, <1>12, <2>1 DEF WaitingHeld
<1>15. WaitingKept
  <2> SUFFICES ASSUME NEW l \in CKToken, HeldFor(l), Initialized(l), Waits(l)' > 0
               PROVE  pooledToken[l] # Null /\ held'[pooledToken[l]] >= Waits(l)'
    BY <1>3 DEF WaitingKept, HeldFor, Initialized
  <2> HIDE DEF t, n
  <2>1. pooledToken[l] \in Pooled \union {Null}
    BY <1>1 DEF BatchTypes
  <2>2. CASE l # k
    <3>1. Waits(l)' = Waits(l) /\ Waits(l) \in Nat
      BY <1>11, <1>12, <2>2
    <3>2. pooledToken[l] # Null /\ held[pooledToken[l]] >= Waits(l)
      BY <3>1 DEF HeldFor
    <3>3. pooledToken[l] \in Pooled
      BY <2>1, <3>2
    <3>4. held'[pooledToken[l]] >= held[pooledToken[l]] /\ held'[pooledToken[l]] \in Nat
          /\ held[pooledToken[l]] \in Nat
      BY <1>2, <1>13, <3>3
    <3> QED  BY <3>1, <3>2, <3>4
  <2>3. CASE l = k
    <3>1. pooledToken[k] # Null /\ pooledToken[k] = t
      BY DEF t
    <3>2. held'[t] = held[t] + amount /\ held[t] \in Nat /\ Waits(k) \in Nat
      BY <1>2, <1>11, <1>13
    <3>3. held[t] >= Waits(k)
      BY <2>3, <3>1, <3>2 DEF HeldFor
    <3>4. held'[t] >= Waits(k)'
      BY <1>2, <1>6, <3>2, <3>3
    <3> QED  BY <2>3, <3>1, <3>4
  <2> QED  BY <2>2, <2>3
<1> QED  BY <1>9, <1>10, <1>14, <1>15 DEF BatchInv

LEMMA IssueKeeps ==
    ASSUME BatchInv, NEW k \in CKToken, NEW minted \in Minted, NEW rest,
           BatchIssue(k, minted, rest)
    PROVE  BatchInv' /\ ClaimsKept /\ WaitingKept
<1> DEFINE n == roundNumbers[k]
           t == pooledToken[k]
<1>1. BatchTypes /\ (\A l \in CKToken : GoodCKToken(l)) /\ WaitingHeld
  BY DEF BatchInv
<1>2. /\ minted \in Nat /\ n \in Round /\ n \in Nat /\ n < MaxRounds /\ t \in Pooled
      /\ t # Null /\ Initialized(k)
  BY <1>1, BatchAssumption, Rounds DEF BatchTypes, BatchIssue
<1>3. /\ roundInfos' = [roundInfos EXCEPT ![k] =
                          [roundInfos[k] EXCEPT ![n].totalCkTokenIssued = minted]]
      /\ issued' = [issued EXCEPT ![k] = [issued[k] EXCEPT ![n] = minted]]
      /\ ckHeld' = [ckHeld EXCEPT ![k] = @ + minted]
      /\ roundNumbers' = [roundNumbers EXCEPT ![k] = @ + 1]
      /\ held' = [held EXCEPT ![t] = 0]
      /\ UNCHANGED <<moduleState, userDeposits, pooledToken, incentive, received, deposited>>
  BY DEF BatchIssue, settings
<1>4. /\ roundInfos'[k] = InfosIssued(n, roundInfos[k], minted)
      /\ issued'[k] = BroughtIssued(n, issued[k], minted)
      /\ ckHeld'[k] = ckHeld[k] + minted /\ roundNumbers'[k] = n + 1
  BY <1>1, <1>3 DEF BatchTypes, InfosIssued, BroughtIssued
<1>5. /\ GoodRow(n + 1, roundInfos'[k], userDeposits[k], deposited[k], issued'[k],
                 ckHeld[k] + minted, received[k])
      /\ roundInfos'[k][n + 1].totalEthDeposited = 0
      /\ \A b \in Account :
           Output(n + 1, roundInfos'[k], userDeposits[k], b)
             >= Output(n, roundInfos[k], userDeposits[k], b)
  <2>1. GoodRow(n, roundInfos[k], userDeposits[k], deposited[k], issued[k], ckHeld[k], received[k])
    BY <1>1 DEF GoodCKToken
  <2> HIDE DEF n
  <2> QED  BY <1>2, <1>4, <2>1, RowIssues
<1>6. GoodCKToken(k)' /\ Waits(k)' = 0
  BY <1>3, <1>4, <1>5 DEF GoodCKToken, Waits
<1>7. \A b \in Account : Claim(k, b)' >= Claim(k, b)
  BY <1>3, <1>4, <1>5 DEF Claim
<1>8. \A l \in CKToken \ {k} : SameRow(l)
  BY <1>1, <1>3 DEF BatchTypes, SameRow
<1>9. (\A l \in CKToken : GoodCKToken(l)') /\ ClaimsKept
  BY <1>6, <1>7, <1>8, OneRow
<1>10. BatchTypes'
  <2>1. /\ roundInfos'[k] \in [Round -> RoundInfo] /\ issued'[k] \in [Round -> Nat]
        /\ ckHeld'[k] \in Nat /\ roundNumbers'[k] \in Round
    BY <1>6 DEF GoodCKToken, GoodRow, RowType
  <2>2. held' \in [Pooled -> Nat]
    BY <1>1, <1>2, <1>3 DEF BatchTypes
  <2>3. /\ roundInfos' \in [CKToken -> [Round -> RoundInfo]]
        /\ issued' \in [CKToken -> [Round -> Nat]]
        /\ ckHeld' \in [CKToken -> Nat] /\ roundNumbers' \in [CKToken -> Round]
    BY <1>1, <1>3, <1>4, <2>1 DEF BatchTypes
  <2> QED  BY <1>1, <1>3, <2>2, <2>3 DEF BatchTypes
<1>11. \A l \in CKToken \ {k} : Waits(l)' = Waits(l) /\ roundNumbers'[l] = roundNumbers[l]
  BY <1>8 DEF SameRow, Waits
<1>12. WaitingHeld'
  <2> SUFFICES ASSUME NEW l \in CKToken, moduleState[l] = "PENDING"
               PROVE  Waits(l)' = 0 /\ roundNumbers'[l] = 0
    BY <1>3 DEF WaitingHeld
  <2>1. l # k
    BY <1>2 DEF Initialized
  <2> QED  BY <1>1, <1>11, <2>1 DEF WaitingHeld
<1>13. roundNumbers'[k] # roundNumbers[k]
  BY <1>2, <1>4
<1>14. WaitingKept
  <2> SUFFICES ASSUME NEW l \in CKToken, HeldFor(l),
                      ~(l # k /\ pooledToken[l] = pooledToken[k])
               PROVE  HeldFor(l)'
    BY <1>13 DEF WaitingKept
  <2>1. CASE l = k
    BY <1>6, <2>1 DEF HeldFor
  <2>2. CASE l # k
    <3> SUFFICES ASSUME Initialized(l), Waits(l) > 0
                 PROVE  pooledToken[l] # Null /\ held'[pooledToken[l]] >= Waits(l)
      BY <1>3, <1>11, <2>2 DEF HeldFor, Initialized
    <3>1. pooledToken[l] # Null /\ held[pooledToken[l]] >= Waits(l)
      BY DEF HeldFor
    <3>2. pooledToken[l] \in Pooled /\ pooledToken[l] # t
      BY <1>1, <2>2, <3>1 DEF BatchTypes
    <3>3. held'[pooledToken[l]] = held[pooledToken[l]]
      <4> HIDE DEF t
      <4> QED  BY <1>1, <1>3, <3>2 DEF BatchTypes
    <3> QED  BY <3>1, <3>3
  <2> QED  BY <2>1, <2>2
<1> QED  BY <1>9, <1>10, <1>12, <1>14 DEF BatchInv

\* outputBalanceOf is the claim the rows give.
LEMMA ClaimIs ==
    ASSUME NEW k \in CKToken, BatchTypes, NEW a \in Account
    PROVE  outputBalanceOf(k, a) = Claim(k, a)
<1>1. /\ roundNumbers[k] \in Round /\ roundInfos[k] \in [Round -> RoundInfo]
      /\ userDeposits[k] \in [Round -> [Account -> Nat]]
  BY DEF BatchTypes
<1>2. outputBalanceOf(k, a)
        = SumFunction([i \in 0 .. roundNumbers[k] - 1 |->
                         Part(roundInfos[k][i], userDeposits[k][i][a])])
  BY DEF outputBalanceOf, withdrawable, Skips, Part
<1> QED  BY <1>1, <1>2, OutputIs DEF Claim

LEMMA WithdrawKeeps ==
    ASSUME BatchInv, NEW k \in CKToken, NEW to \in Account, WithdrawCKTokenTo(k, to)
    PROVE  BatchInv' /\ ClaimsKept /\ WaitingKept
<1> DEFINE n == roundNumbers[k]
           out == Claim(k, to)
<1>1. BatchTypes /\ (\A l \in CKToken : GoodCKToken(l)) /\ WaitingHeld
  BY DEF BatchInv
<1>2. outputBalanceOf(k, to) = out
  BY <1>1, ClaimIs
<1>3. /\ roundInfos' = [roundInfos EXCEPT ![k] =
                          InfosAfter(n, roundInfos[k], userDeposits[k], to)]
      /\ userDeposits' = [userDeposits EXCEPT ![k] =
                            LeftAfter(n, roundInfos[k], userDeposits[k], to)]
  BY DEF WithdrawCKTokenTo, InfosAfter, LeftAfter, Serves, Skipped, Skips, remaining,
         withdrawable, Rest, Part
<1>4. /\ ckHeld' = [ckHeld EXCEPT ![k] = @ - out]
      /\ received' = [received EXCEPT ![k] = [received[k] EXCEPT ![to] = @ + out]]
      /\ UNCHANGED <<moduleState, roundNumbers, pooledToken, incentive, held, deposited, issued>>
  BY <1>2 DEF WithdrawCKTokenTo, settings, history
<1> HIDE DEF out
<1>5. /\ roundInfos'[k] = InfosAfter(n, roundInfos[k], userDeposits[k], to)
      /\ userDeposits'[k] = LeftAfter(n, roundInfos[k], userDeposits[k], to)
      /\ ckHeld'[k] = ckHeld[k] - out /\ received'[k] = [received[k] EXCEPT ![to] = @ + out]
  BY <1>1, <1>3, <1>4 DEF BatchTypes
<1>6. /\ GoodRow(n, roundInfos'[k], userDeposits'[k], deposited[k], issued[k], ckHeld[k] - out,
                 received'[k])
      /\ out \in Nat /\ roundInfos'[k][n] = roundInfos[k][n]
      /\ \A b \in Account \ {to} :
           Output(n, roundInfos'[k], userDeposits'[k], b)
             >= Output(n, roundInfos[k], userDeposits[k], b)
  <2>1. GoodRow(n, roundInfos[k], userDeposits[k], deposited[k], issued[k], ckHeld[k], received[k])
    BY <1>1 DEF GoodCKToken
  <2>2. out = Output(n, roundInfos[k], userDeposits[k], to)
    BY DEF Claim, out
  <2> HIDE DEF n
  <2> QED  BY <1>5, <2>1, <2>2, RowWithdraws
<1>7. GoodCKToken(k)' /\ Waits(k)' = Waits(k)
  BY <1>4, <1>5, <1>6 DEF GoodCKToken, Waits
<1>8. \A b \in Account :
        Claim(k, b)' >= Claim(k, b) \/ received'[k][b] = received[k][b] + Claim(k, b)
  <2> SUFFICES ASSUME NEW b \in Account
               PROVE  Claim(k, b)' >= Claim(k, b) \/ received'[k][b] = received[k][b] + Claim(k, b)
    OBVIOUS
  <2>1. CASE b = to
    <3>1. received[k] \in [Account -> Nat]
      BY <1>1 DEF BatchTypes
    <3>2. received'[k][to] = received[k][to] + out
      BY <1>5, <3>1
    <3> QED  BY <2>1, <3>2 DEF out
  <2>2. CASE b # to
    BY <1>4, <1>6, <2>2 DEF Claim
  <2> QED  BY <2>1, <2>2
<1>9. \A l \in CKToken \ {k} : SameRow(l)
  BY <1>1, <1>3, <1>4 DEF BatchTypes, SameRow
<1>10. (\A l \in CKToken : GoodCKToken(l)') /\ ClaimsKept
  BY <1>7, <1>8, <1>9, OneRow
<1>11. BatchTypes'
  <2>1. /\ roundInfos'[k] \in [Round -> RoundInfo]
        /\ userDeposits'[k] \in [Round -> [Account -> Nat]]
        /\ ckHeld'[k] \in Nat /\ received'[k] \in [Account -> Nat]
    BY <1>7 DEF GoodCKToken, GoodRow, RowType
  <2>2. /\ roundInfos' \in [CKToken -> [Round -> RoundInfo]]
        /\ userDeposits' \in [CKToken -> [Round -> [Account -> Nat]]]
    BY <1>1, <1>3, <1>5, <2>1 DEF BatchTypes
  <2>3. /\ ckHeld' \in [CKToken -> Nat] /\ received' \in [CKToken -> [Account -> Nat]]
    BY <1>1, <1>4, <1>5, <2>1 DEF BatchTypes
  <2> QED  BY <1>1, <1>4, <2>2, <2>3 DEF BatchTypes
<1>12. \A l \in CKToken : Waits(l)' = Waits(l)
  BY <1>7, <1>9 DEF SameRow, Waits
<1>13. WaitingHeld'
  BY <1>1, <1>4, <1>12 DEF WaitingHeld
<1>14. WaitingKept
  BY <1>4, <1>12 DEF WaitingKept, HeldFor, Initialized
<1> QED  BY <1>10, <1>11, <1>13, <1>14 DEF BatchInv

LEMMA InitGood ==
    ASSUME Init
    PROVE  BatchInv
<1>1. BatchTypes
  BY BatchAssumption DEF Init, BatchTypes, Round, RoundInfo
<1>2. ASSUME NEW k \in CKToken
      PROVE  GoodCKToken(k)
  <2> DEFINE infos == [i \in Round |-> [totalEthDeposited |-> 0, totalCkTokenIssued |-> 0]]
             left == [i \in Round |-> [a \in Account |-> 0]]
             brought == [i \in Round |-> 0]
             sent == [a \in Account |-> 0]
  <2>1. GoodRow(0, infos, left, left, brought, 0, sent)
    BY RowStarts
  <2>2. /\ roundNumbers[k] = 0 /\ roundInfos[k] = infos /\ userDeposits[k] = left
        /\ deposited[k] = left /\ issued[k] = brought /\ ckHeld[k] = 0 /\ received[k] = sent
    BY DEF Init
  <2> HIDE DEF infos, left, brought, sent
  <2> QED  BY <2>1, <2>2 DEF GoodCKToken
<1>3. WaitingHeld
  <2>1. 0 \in Round
    BY BatchAssumption DEF Round
  <2> QED  BY <2>1 DEF Init, WaitingHeld, Waits
<1> QED  BY <1>1, <1>2, <1>3 DEF BatchInv

LEMMA StepGood ==
    ASSUME BatchInv, [Next]_vars
    PROVE  BatchInv' /\ ClaimsKept /\ WaitingKept
<1>1. CASE UNCHANGED vars
  <2>1. \A k \in CKToken : SameRow(k)
    BY <1>1 DEF vars, history, SameRow
  <2>2. (\A l \in CKToken : GoodCKToken(l)') /\ ClaimsKept
    BY <2>1, NoRow
  <2>3. BatchTypes'
    BY <1>1 DEF BatchInv, BatchTypes, vars, settings, history
  <2>4. WaitingHeld'
    BY <1>1 DEF BatchInv, WaitingHeld, Waits, vars
  <2>5. WaitingKept
    BY <1>1 DEF WaitingKept, HeldFor, Waits, Initialized, vars, settings
  <2> QED  BY <2>2, <2>3, <2>4, <2>5 DEF BatchInv
<1>2. ASSUME NEW k \in CKToken, NEW t \in PooledTokens[k] \union {Null}, NEW rate \in Incentives,
             Initialize(k, t, rate)
      PROVE  BatchInv' /\ ClaimsKept /\ WaitingKept
  BY <1>2, SettingsKeep
<1>3. ASSUME NEW k \in CKToken, NEW amount \in Amounts, NEW a \in Account,
             DepositEth(k, amount, a) \/ Deposit(k, amount, a)
      PROVE  BatchInv' /\ ClaimsKept /\ WaitingKept
  <2>1. Initialized(k) /\ pooledToken[k] # Null /\ DepositTo(k, amount, a)
    BY <1>3, BatchAssumption DEF DepositEth, Deposit
  <2> QED  BY <2>1, DepositKeeps
<1>4. ASSUME NEW k \in CKToken, NEW minted \in Minted, NEW rest, BatchIssue(k, minted, rest)
      PROVE  BatchInv' /\ ClaimsKept /\ WaitingKept
  BY <1>4, IssueKeeps
<1>5. ASSUME NEW k \in CKToken, NEW to \in Account, WithdrawCKTokenTo(k, to)
      PROVE  BatchInv' /\ ClaimsKept /\ WaitingKept
  BY <1>5, WithdrawKeeps
<1>6. ASSUME NEW k \in CKToken, NEW t \in PooledTokens[k] \union {Null}, UpdatePooledToken(k, t)
      PROVE  BatchInv' /\ ClaimsKept /\ WaitingKept
  BY <1>6, SettingsKeep
<1>7. ASSUME NEW k \in CKToken, NEW rate \in Incentives, UpdateIncentiveRate(k, rate)
      PROVE  BatchInv' /\ ClaimsKept /\ WaitingKept
  BY <1>7, SettingsKeep
<1>8. ASSUME NEW k \in CKToken, RemoveModule(k)
      PROVE  BatchInv' /\ ClaimsKept /\ WaitingKept
  BY <1>8, SettingsKeep
<1> QED  BY <1>1, <1>2, <1>3, <1>4, <1>5, <1>6, <1>7, <1>8 DEF Next

-----------------------------------------------------------------------------
(* The theorems *)

\* Every row stays good, whatever calls follow each other.
THEOREM BatchInvariant == Spec => []BatchInv
<1>1. Init => BatchInv
  BY InitGood
<1>2. BatchInv /\ [Next]_vars => BatchInv'
  BY StepGood
<1> QED  BY <1>1, <1>2, PTL DEF Spec

\* The current round's total is what its depositors put in.
LEMMA TotalIsSum ==
    ASSUME BatchInv, NEW k \in CKToken
    PROVE  current(k).totalEthDeposited = SumFunction(userDeposits[k][roundNumbers[k]])
<1> DEFINE n == roundNumbers[k]
<1>1. n \in Round /\ GoodRound(roundInfos[k][n], userDeposits[k][n], deposited[k][n], issued[k][n])
  BY DEF BatchInv, BatchTypes, GoodCKToken, GoodRow
<1>2. DOMAIN userDeposits[k][n] = Account
  BY <1>1 DEF GoodRound
<1> QED  BY <1>1, <1>2 DEF GoodRound, Total, SumFunction, current

\* Deposits that wait are lost only to another CKToken's round in the same token
\* (updatePooledToken's check, batchIssue's transfer of the whole balance).
THEOREM DepositsWait == Spec => WaitsUntilSwept
<1> DEFINE Kept == \A k \in CKToken :
                     WaitCovered(k) /\ ~WaitCovered(k)' =>
                       \E l \in CKToken \ {k} :
                         roundNumbers'[l] # roundNumbers[l] /\ pooledToken[l] = pooledToken[k]
<1>1. BatchInv => \A k \in CKToken : WaitCovered(k) <=> HeldFor(k)
  BY TotalIsSum DEF WaitCovered, HeldFor, Waits, current
<1>2. BatchInv' => (\A k \in CKToken : WaitCovered(k) <=> HeldFor(k))'
  BY <1>1, PTL
<1>3. BatchInv /\ [Next]_vars => Kept
  <2> SUFFICES ASSUME BatchInv, [Next]_vars PROVE Kept
    OBVIOUS
  <2>1. BatchInv' /\ WaitingKept
    BY StepGood
  <2>2. \A k \in CKToken : WaitCovered(k)' <=> HeldFor(k)'
    BY <1>2, <2>1
  <2> QED  BY <1>1, <2>1, <2>2 DEF WaitingKept
<1>4. BatchInv /\ [Next]_vars => [Kept]_vars
  BY <1>3
<1> QED  BY <1>4, BatchInvariant, PTL DEF Spec, WaitsUntilSwept

\* The module has what every withdrawal still to come will take, in any order
\* (withdrawCKTokenTo, batchIssue).
THEOREM WithdrawalsAreCovered == Spec => []WithdrawalsCovered
<1>1. BatchInv => WithdrawalsCovered
  <2> SUFFICES ASSUME BatchInv PROVE WithdrawalsCovered
    OBVIOUS
  <2>1. BatchTypes /\ (\A k \in CKToken : GoodCKToken(k))
    BY DEF BatchInv
  <2>2. ASSUME NEW k \in CKToken
        PROVE  /\ SumFunction([i \in Round |-> roundInfos[k][i].totalCkTokenIssued]) = ckHeld[k]
               /\ SumFunction([a \in Account |-> outputBalanceOf(k, a)]) <= ckHeld[k]
    <3> DEFINE infos == roundInfos[k]
               f == [a \in Account |-> outputBalanceOf(k, a)]
    <3>1. GoodCKToken(k)
      BY <2>1
    <3>2. SumFunction([i \in Round |-> infos[i].totalCkTokenIssued])
            = SumFunctionOnSet(IssuedOf(infos), Round)
      BY DEF SumFunction, IssuedOf
    <3>3. SumFunctionOnSet(IssuedOf(infos), Round) = ckHeld[k]
      BY <3>1 DEF GoodCKToken, GoodRow
    <3>4. \A a \in Account : f[a] = Output(roundNumbers[k], infos, userDeposits[k], a)
      BY <2>1, ClaimIs DEF Claim
    <3>5. SumFunction(f) = SumFunctionOnSet(f, Account)
      BY DEF SumFunction
    <3> HIDE DEF f, infos
    <3>6. SumFunctionOnSet(f, Account) <= ckHeld[k]
      <4>1. GoodRow(roundNumbers[k], infos, userDeposits[k], deposited[k], issued[k],
                    ckHeld[k], received[k])
        BY <3>1 DEF GoodCKToken, infos
      <4> QED  BY <3>4, <4>1, RowCovered
    <3> QED  BY <3>2, <3>3, <3>5, <3>6 DEF f, infos
  <2> QED  BY <2>2 DEF WithdrawalsCovered
<1> QED  BY <1>1, BatchInvariant, PTL

\* Nobody gains or loses by when they withdraw (withdrawCKTokenTo's division by
\* what is left of a round).
THEOREM SharesAreFair == Spec => []FairShare
<1>1. BatchInv => FairShare
  <2> SUFFICES ASSUME BatchInv, NEW k \in CKToken, NEW a \in Account
               PROVE  FairSent(roundNumbers[k], userDeposits[k], deposited[k], issued[k],
                               received[k], a)
    BY DEF FairShare, FairSent
  <2>1. GoodRow(roundNumbers[k], roundInfos[k], userDeposits[k], deposited[k], issued[k],
                ckHeld[k], received[k])
    BY DEF BatchInv, GoodCKToken
  <2> QED  BY <2>1, FairIs
<1> QED  BY <1>1, BatchInvariant, PTL

\* What an account may withdraw only becomes less by being sent to it
\* (withdrawCKTokenTo, batchIssue).
THEOREM ClaimsStandStill == Spec => ClaimsStand
<1> DEFINE Stands == \A k \in CKToken, a \in Account :
                       outputBalanceOf(k, a)' < outputBalanceOf(k, a) =>
                         received'[k][a] = received[k][a] + outputBalanceOf(k, a)
<1>1. BatchInv /\ [Next]_vars => Stands
  <2> SUFFICES ASSUME BatchInv, [Next]_vars, NEW k \in CKToken, NEW a \in Account,
                      outputBalanceOf(k, a)' < outputBalanceOf(k, a)
               PROVE  received'[k][a] = received[k][a] + outputBalanceOf(k, a)
    OBVIOUS
  <2>1. BatchInv' /\ ClaimsKept /\ WaitingKept
    BY StepGood
  <2>2. outputBalanceOf(k, a) = Claim(k, a) /\ Claim(k, a) \in Nat
    BY ClaimIs, ClaimNat DEF BatchInv, GoodCKToken, GoodRow, Claim
  <2>3. outputBalanceOf(k, a)' = Claim(k, a)' /\ Claim(k, a)' \in Nat
    <3>1. /\ roundNumbers'[k] \in Round /\ roundInfos'[k] \in [Round -> RoundInfo]
          /\ userDeposits'[k] \in [Round -> [Account -> Nat]]
      BY <2>1 DEF BatchInv, BatchTypes
    <3>2. outputBalanceOf(k, a)'
            = SumFunction([i \in 0 .. roundNumbers'[k] - 1 |->
                             Part(roundInfos'[k][i], userDeposits'[k][i][a])])
      BY DEF outputBalanceOf, withdrawable, Skips, Part
    <3>3. outputBalanceOf(k, a)' = Claim(k, a)'
      BY <3>1, <3>2, OutputIs DEF Claim
    <3>4. Claim(k, a)' \in Nat
      BY <2>1, ClaimNat DEF BatchInv, GoodCKToken, GoodRow, Claim
    <3> QED  BY <3>3, <3>4
  <2>4. ~(Claim(k, a)' >= Claim(k, a))
    <3>1. Claim(k, a)' < Claim(k, a)
      BY <2>2, <2>3
    <3> QED  BY <2>2, <2>3, <3>1
  <2> QED  BY <2>1, <2>2, <2>4 DEF ClaimsKept
<1>2. BatchInv /\ [Next]_vars => [Stands]_vars
  BY <1>1
<1> QED  BY <1>2, BatchInvariant, PTL DEF Spec, ClaimsStand
=============================================================================
