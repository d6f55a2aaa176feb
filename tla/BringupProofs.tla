---------------------------- MODULE BringupProofs ----------------------------
(***************************************************************************)
(* Proofs about Bringup, for every delay of the timelock, whatever the     *)
(* node's clock says from one block to the next, and whenever the calls    *)
(* that are not awaited land: what ProgramText establishes of the text     *)
(* holds of the chain that the text brings up.                             *)
(***************************************************************************)
EXTENDS ProgramText, Integers, TLAPS

\* The provers do not know that a literal is a string.
Kind == STRING \cup {"CKToken", "UniswapV2Pair"}

Contract == [kind : Kind, args : Seq(Nat)]

\* The statement before the next one, while there is a next one.
JustRan(op) == Running /\ pc > 1 /\ program[pc - 1].op = op

-----------------------------------------------------------------------------
(* The inductive invariant *)

Typed ==
    /\ program \in Programs
    /\ pc \in 1 .. Len(program) + 1
    /\ contracts \in Seq(Contract)
    /\ inFlight \in Nat /\ stale \in BOOLEAN /\ outcome \in {"fine", "late", "broken"}
    /\ created \in Seq(Nat) /\ pairs \in Seq(Nat)
    /\ now \in Nat /\ lastRead \in Nat /\ queued \in Nat

\* A field has a value once a statement has assigned it, and an address only.
FieldsHoldAddresses ==
    /\ DOMAIN handles =
         {h \in Roles \cup {program[j].handle : j \in 1 .. Len(program)} :
             AssignedBefore(program, pc, h)}
    /\ \A h \in DOMAIN handles : handles[h] \in DOMAIN contracts

AllOf(addresses, kind) ==
    \A x \in DOMAIN addresses :
        addresses[x] \in DOMAIN contracts /\ contracts[addresses[x]].kind = kind

\* What is read back is of the kind it is attached as.
LogsNameTheirKind == AllOf(created, "CKToken") /\ AllOf(pairs, "UniswapV2Pair")

\* A field holds what its latest assignment put there.
FieldsHoldTheirKind ==
    \A h \in DOMAIN handles :
        LET kind == contracts[handles[h]].kind IN
        /\ h \in Roles /\ Keeps(program, 1, pc, h) => kind = KindOfOutside(h)
        /\ \A j \in 1 .. pc - 1 :
             Assigns(program[j], h) /\ Keeps(program, j + 1, pc, h)
                => kind = KindAssigned(program[j])

\* The constructor of c got as many addresses as it has parameters, each of a
\* contract of a kind its parameter stands for.
Fitting(c) ==
    c.kind \in DOMAIN Parameters =>
        /\ Len(c.args) = Len(Parameters[c.kind])
        /\ \A k \in DOMAIN c.args :
             /\ c.args[k] \in DOMAIN contracts
             /\ contracts[c.args[k]].kind \in Stands(Parameters[c.kind][k])

ConstructorsFit == \A a \in DOMAIN contracts : Fitting(contracts[a])

\* What a field held when its contract was deployed with it, it holds as long
\* as neither is assigned again.
ConstructorsGotTheFields ==
    \A j \in 1 .. pc - 1 :
        LET s == program[j] IN
        s.op = "deploy" /\ Keeps(program, j + 1, pc, s.handle) =>
            \A k \in DOMAIN NamesPassed(s) :
                Keeps(program, j, pc, NamesPassed(s)[k]) =>
                    contracts[handles[s.handle]].args[k] = handles[NamesPassed(s)[k]]

ListingsAsk ==
    \A entry \in listed :
        LET a == entry[2] IN
        a \in DOMAIN contracts /\ entry = <<contracts[a].args[asks(contracts[a].kind)], a>>

RegisteredByAStatement ==
    registered # <<>> =>
        \E j \in 1 .. pc - 1 :
            /\ program[j].op = "initialize"
            /\ \A id \in 0 .. 2 : registered[id] = handles[program[j].args[id + 5]]

ModulesAreEnabled ==
    \A h \in DOMAIN handles : \A j \in 1 .. pc - 1 :
        EnabledSince(program, j, pc, h) => handles[h] \in modules

IInv ==
    /\ Typed /\ FieldsHoldAddresses /\ LogsNameTheirKind /\ FieldsHoldTheirKind
    /\ ConstructorsFit /\ ConstructorsGotTheFields /\ ListingsAsk /\ RegisteredByAStatement
    /\ ModulesAreEnabled

-----------------------------------------------------------------------------
(* What the awaited statements rely on *)

\* What the next statement finds, when it comes right after these: unless
\* another block came in between, the log is there and the time is the latest.
Answers ==
    /\ JustRan("create") => created = <<made>> \/ (stale /\ created = <<>>)
    /\ JustRan("createPair") => pairs # <<>> /\ pairs[Len(pairs)] = made
    /\ JustRan("readTime") => lastRead <= now /\ (stale \/ lastRead = now)
    /\ JustRan("queue") => queued <= now + Delay
    /\ JustRan("increaseTime") => queued <= now

\* A statement has thrown only because another block, or the clock, got in
\* between the statement and the one before it.
ThrowsOnlyLate == outcome # "broken"

-----------------------------------------------------------------------------
(* The text *)

\* A program is a sequence of statements, each of them well-formed.
LEMMA TheText ==
    ASSUME NEW p \in Programs
    PROVE  /\ p \in Seq(Statement) /\ Len(p) \in Nat /\ DOMAIN p = 1 .. Len(p)
           /\ \A i \in 1 .. Len(p) : p[i] \in Statement /\ WellFormed(p, i)
           /\ TestsDeployWhatFits(p)
  <1>1. p \in Seq(Statement)
    BY ProgramsAssumption
  <1>2. Len(p) \in Nat /\ DOMAIN p = 1 .. Len(p) /\ \A i \in 1 .. Len(p) : p[i] \in Statement
    BY <1>1
  <1> QED
    BY <1>1, <1>2, ProgramsAssumption

\* Statement i is one of those before statement i + 1, the last of them.
LEMMA OneFurther ==
    ASSUME NEW p, NEW i \in Nat, NEW h
    PROVE  /\ AssignedBefore(p, i + 1, h) <=> AssignedBefore(p, i, h) \/ (i > 0 /\ Assigns(p[i], h))
           /\ \A j \in Nat : Keeps(p, j, i + 1, h) <=>
                               Keeps(p, j, i, h) /\ (j <= i => ~Assigns(p[i], h))
  <1>1. \A j \in Nat : \A k \in Int : k \in j .. (i + 1) - 1 <=> k \in j .. i - 1 \/ (j <= i /\ k = i)
    OBVIOUS
  <1>2. \A k \in Int : k \in 1 .. (i + 1) - 1 <=> k \in 1 .. i - 1 \/ (i > 0 /\ k = i)
    OBVIOUS
  <1>3. AssignedBefore(p, i + 1, h) <=> AssignedBefore(p, i, h) \/ (i > 0 /\ Assigns(p[i], h))
    BY <1>2 DEF AssignedBefore
  <1>4. ASSUME NEW j \in Nat
        PROVE  Keeps(p, j, i + 1, h) <=> Keeps(p, j, i, h) /\ (j <= i => ~Assigns(p[i], h))
    BY <1>1 DEF Keeps
  <1> QED
    BY <1>3, <1>4

\* Reading fields by name and picking what the helper passes on commute.
LEMMA PassedOnNames ==
    ASSUME NEW contract \in DOMAIN DeployHelper, NEW names,
           DOMAIN names = DOMAIN DeployHelper[contract].takes, NEW addresses,
           \A k \in DOMAIN names : addresses[k] = handles[names[k]],
           DOMAIN addresses = DOMAIN names
    PROVE  LET helper == DeployHelper[contract]
           IN  /\ DOMAIN PassedOn(helper, addresses) = DOMAIN helper.passes
               /\ DOMAIN PassedOn(helper, names) = DOMAIN helper.passes
               /\ \A k \in DOMAIN helper.passes :
                    PassedOn(helper, addresses)[k] = handles[PassedOn(helper, names)[k]]
  <1> DEFINE helper == DeployHelper[contract]
             from(k) == CHOOSE j \in DOMAIN helper.takes : helper.takes[j] = helper.passes[k]
  <1>1. \A k \in DOMAIN helper.passes :
            \E j \in DOMAIN helper.takes : helper.takes[j] = helper.passes[k]
    BY TablesAssumption
  <1>2. \A k \in DOMAIN helper.passes : from(k) \in DOMAIN helper.takes
    BY <1>1
  <1>3. /\ PassedOn(helper, addresses) = [k \in DOMAIN helper.passes |-> addresses[from(k)]]
        /\ PassedOn(helper, names) = [k \in DOMAIN helper.passes |-> names[from(k)]]
    BY DEF PassedOn
  <1> HIDE DEF from, helper
  <1>4. \A k \in DOMAIN helper.passes : PassedOn(helper, addresses)[k] = handles[PassedOn(helper, names)[k]]
    BY <1>2, <1>3 DEF helper
  <1> QED
    BY <1>3, <1>4 DEF helper

\* What reaches a constructor has been assigned before.
LEMMA PassedNamesAreAssigned ==
    ASSUME NEW p \in Programs, NEW i \in 1 .. Len(p), p[i].op \in {"deploy", "deployUni"}
    PROVE  \A k \in DOMAIN NamesPassed(p[i]) :
             /\ AssignedBefore(p, i, NamesPassed(p[i])[k])
             /\ \E j \in DOMAIN p[i].args : NamesPassed(p[i])[k] = p[i].args[j]
  <1> DEFINE s == p[i]
             helper == DeployHelper[s.contract]
  <1>1. /\ s.contract \in DOMAIN DeployHelper /\ DOMAIN s.args = DOMAIN helper.takes
        /\ \A j \in DOMAIN s.args : AssignedBefore(p, i, s.args[j])
    BY TheText DEF WellFormed, DeploysWhatFits, ReadsWhatIsAssigned
  <1>2. \A k \in DOMAIN helper.passes :
            \E j \in DOMAIN helper.takes : helper.takes[j] = helper.passes[k]
    BY <1>1, TablesAssumption
  <1>3. \A k \in DOMAIN NamesPassed(s) : \E j \in DOMAIN s.args : NamesPassed(s)[k] = s.args[j]
    BY <1>1, <1>2 DEF NamesPassed, PassedOn
  <1> QED
    BY <1>1, <1>3

-----------------------------------------------------------------------------
(* What a field holds, and what a constructor gets *)

LEMMA FunctionIsSequence ==
    ASSUME NEW S, NEW n \in Nat, NEW f \in [1 .. n -> S]
    PROVE  f \in Seq(S) /\ Len(f) = n
  OBVIOUS

LEMMA AppendedAddress ==
    ASSUME contracts \in Seq(Contract), NEW c \in Contract, contracts' = Append(contracts, c)
    PROVE  /\ contracts' \in Seq(Contract)
           /\ DOMAIN contracts' = DOMAIN contracts \cup {Len(contracts) + 1}
           /\ DOMAIN contracts = 1 .. Len(contracts) /\ Len(contracts) \in Nat
           /\ \A a \in DOMAIN contracts : contracts'[a] = contracts[a]
           /\ contracts'[Len(contracts) + 1] = c
  OBVIOUS

\* What the text says of a field is so.
LEMMA FieldHoldsKind ==
    ASSUME Typed, FieldsHoldAddresses, FieldsHoldTheirKind, NEW h, NEW kinds,
           HoldsOneOf(program, pc, h, kinds)
    PROVE  /\ h \in DOMAIN handles /\ handles[h] \in DOMAIN contracts
           /\ contracts[handles[h]].kind \in kinds
  <1>1. h \in DOMAIN handles
    <2>1. h \in Roles \/ \E j \in 1 .. pc - 1 : Assigns(program[j], h)
      BY DEF HoldsOneOf
    <2>2. \A j \in 1 .. pc - 1 : j \in 1 .. Len(program)
      BY TheText DEF Typed
    <2> QED
      BY <2>1, <2>2 DEF FieldsHoldAddresses, AssignedBefore, Assigns
  <1>2. handles[h] \in DOMAIN contracts
    BY <1>1 DEF FieldsHoldAddresses
  <1>3. contracts[handles[h]].kind \in kinds
    BY <1>1 DEF HoldsOneOf, FieldsHoldTheirKind
  <1> QED
    BY <1>1, <1>2, <1>3

\* A field that a statement reads has a value.
LEMMA FieldHasValue ==
    ASSUME Typed, FieldsHoldAddresses, NEW h, AssignedBefore(program, pc, h)
    PROVE  h \in DOMAIN handles /\ handles[h] \in DOMAIN contracts /\ handles[h] \in Nat
  <1>1. \A j \in 1 .. pc - 1 : j \in 1 .. Len(program)
    BY TheText DEF Typed
  <1>2. h \in DOMAIN handles
    BY <1>1 DEF FieldsHoldAddresses, AssignedBefore, Assigns
  <1>3. DOMAIN contracts \subseteq Nat
    BY DEF Typed
  <1> QED
    BY <1>2, <1>3 DEF FieldsHoldAddresses

\* A contract that is deployed with what fits, fits.
LEMMA DeployedFits ==
    ASSUME Typed, FieldsHoldAddresses, FieldsHoldTheirKind,
           NEW kind \in Kind, NEW S, NEW names \in Seq(S), NEW args,
           Fits(program, pc, kind, names),
           DOMAIN args = DOMAIN names, args \in [DOMAIN names -> Nat],
           \A k \in DOMAIN names : args[k] = handles[names[k]]
    PROVE  /\ [kind |-> kind, args |-> args] \in Contract
           /\ Fitting([kind |-> kind, args |-> args])
  <1>1. DOMAIN names = 1 .. Len(names) /\ Len(names) \in Nat
    OBVIOUS
  <1>2. args \in Seq(Nat) /\ Len(args) = Len(names)
    BY <1>1, FunctionIsSequence
  <1>3. ASSUME kind \in DOMAIN Parameters
        PROVE  /\ Len(args) = Len(Parameters[kind])
               /\ \A k \in DOMAIN args :
                    /\ args[k] \in DOMAIN contracts
                    /\ contracts[args[k]].kind \in Stands(Parameters[kind][k])
    <2>1. /\ Len(names) = Len(Parameters[kind])
          /\ \A k \in DOMAIN names : HoldsOneOf(program, pc, names[k], Stands(Parameters[kind][k]))
      BY <1>3 DEF Fits
    <2> QED
      BY <1>2, <2>1, FieldHoldsKind
  <1> QED
    BY <1>2, <1>3 DEF Contract, Fitting

-----------------------------------------------------------------------------
(* What a statement does to the contracts and the fields *)

Extends ==
    \/ contracts' = contracts
    \/ \E c \in Contract : Fitting(c) /\ contracts' = Append(contracts, c)

Renames ==
    \/ step.op \notin Assigning /\ handles' = handles
    \/ /\ step.op \in Assigning
       /\ \E a \in DOMAIN contracts' :
            Assign(step.handle, a) /\ contracts'[a].kind = KindAssigned(step)

Moves == Running /\ program' = program /\ pc' = pc + 1 /\ Extends /\ Renames

LEMMA StepText ==
    ASSUME Typed, Running
    PROVE  /\ pc \in Nat /\ pc \in 1 .. Len(program) /\ Len(program) \in Nat
           /\ step = program[pc] /\ step \in Statement /\ WellFormed(program, pc)
  BY TheText DEF Typed, Running, step

\* The contract that a helper deploys, and what its constructor gets.
LEMMA DeployMoves ==
    ASSUME Typed, FieldsHoldAddresses, FieldsHoldTheirKind, Running,
           step.op \in {"deploy", "deployUni"}, Deployed
    PROVE  /\ Extends /\ Renames
           /\ contracts' \in Seq(Contract)
           /\ Assign(step.handle, Len(contracts) + 1)
           /\ \A k \in DOMAIN NamesPassed(step) :
                contracts'[Len(contracts) + 1].args[k] = handles[NamesPassed(step)[k]]
  <1> DEFINE helper == DeployHelper[step.contract]
             args == PassedOn(helper, Addresses(step.args))
             names == NamesPassed(step)
             c == [kind |-> step.contract, args |-> args]
  <1>1. /\ step \in Statement /\ step.contract \in DOMAIN DeployHelper
        /\ DOMAIN step.args = DOMAIN helper.takes
        /\ Fits(program, pc, step.contract, names)
        /\ \A k \in DOMAIN step.args : AssignedBefore(program, pc, step.args[k])
    BY StepText DEF WellFormed, DeploysWhatFits, ReadsWhatIsAssigned
  <1>2. step.contract \in Kind /\ step.args \in Seq(STRING)
    BY <1>1 DEF Statement, Kind
  <1>3. /\ DOMAIN Addresses(step.args) = DOMAIN step.args
        /\ \A k \in DOMAIN step.args : Addresses(step.args)[k] = handles[step.args[k]]
    BY DEF Addresses
  <1>4. /\ DOMAIN args = DOMAIN helper.passes /\ DOMAIN names = DOMAIN helper.passes
        /\ \A k \in DOMAIN helper.passes : args[k] = handles[names[k]]
    BY <1>1, <1>3, PassedOnNames DEF NamesPassed
  <1>5. helper.passes \in Seq(STRING)
    BY <1>1, TablesAssumption
  <1>6. \A k \in DOMAIN names : \E j \in DOMAIN step.args : names[k] = step.args[j]
    <2>1. program \in Programs /\ pc \in 1 .. Len(program) /\ step = program[pc]
      BY StepText DEF Typed
    <2> QED
      BY <2>1, PassedNamesAreAssigned
  <1>7. names \in [1 .. Len(helper.passes) -> STRING] /\ Len(helper.passes) \in Nat
    <2>1. names = [k \in DOMAIN helper.passes |-> names[k]]
      BY DEF NamesPassed, PassedOn
    <2>2. DOMAIN helper.passes = 1 .. Len(helper.passes) /\ Len(helper.passes) \in Nat
      BY <1>5
    <2>3. \A k \in DOMAIN helper.passes : names[k] \in STRING
      BY <1>2, <1>4, <1>6
    <2> HIDE DEF names
    <2> QED
      BY <2>1, <2>2, <2>3
  <1>8. names \in Seq(STRING)
    <2> HIDE DEF names
    <2> QED
      BY <1>7, FunctionIsSequence
  <1>9. args \in [DOMAIN names -> Nat]
    <2>1. args = [k \in DOMAIN helper.passes |-> args[k]]
      BY DEF PassedOn
    <2>2. \A k \in DOMAIN helper.passes : args[k] \in Nat
      BY <1>1, <1>4, <1>6, FieldHasValue
    <2> HIDE DEF args, names
    <2> QED
      BY <1>4, <2>1, <2>2
  <1>10. c \in Contract /\ Fitting(c)
    <2> HIDE DEF args, names
    <2> QED
      BY <1>1, <1>2, <1>4, <1>8, <1>9, DeployedFits
  <1>11. contracts' = Append(contracts, c) /\ Assign(step.handle, Len(contracts) + 1)
    BY DEF Deployed, Made, Assign
  <1> HIDE DEF c
  <1>12. /\ contracts' \in Seq(Contract) /\ Len(contracts) + 1 \in DOMAIN contracts'
         /\ contracts'[Len(contracts) + 1] = c
    BY <1>10, <1>11, AppendedAddress DEF Typed
  <1>13. KindAssigned(step) = c.kind
    BY DEF KindAssigned, c
  <1>14. Renames
    BY <1>11, <1>12, <1>13 DEF Renames, Assigning
  <1>15. \A k \in DOMAIN names : c.args[k] = handles[names[k]]
    BY <1>4 DEF c
  <1> QED
    BY <1>10, <1>11, <1>12, <1>14, <1>15 DEF Extends

\* One contract more, named after its kind.
NewContract(kind) ==
    /\ Extends /\ contracts' \in Seq(Contract)
    /\ made' = Len(contracts) + 1 /\ made' \in DOMAIN contracts'
    /\ contracts'[made'].kind = kind
    /\ \A a \in DOMAIN contracts : a \in DOMAIN contracts' /\ contracts'[a] = contracts[a]

LEMMA MadeIsNew ==
    ASSUME Typed, NEW kind, NEW args, [kind |-> kind, args |-> args] \in Contract,
           Fitting([kind |-> kind, args |-> args]), Made(kind, args)
    PROVE  NewContract(kind)
  <1> DEFINE c == [kind |-> kind, args |-> args]
  <1>1. c \in Contract /\ Fitting(c) /\ c.kind = kind
    OBVIOUS
  <1>2. contracts' = Append(contracts, c) /\ made' = Len(contracts) + 1
    BY DEF Made
  <1> HIDE DEF c
  <1> QED
    BY <1>1, <1>2, AppendedAddress DEF Typed, NewContract, Extends

LEMMA ProxyMoves ==
    ASSUME IInv, AttachToProxy
    PROVE  Moves
  <1>1. Running /\ step.op = "proxy" /\ Typed /\ FieldsHoldAddresses /\ FieldsHoldTheirKind
    BY DEF IInv, AttachToProxy, At
  <1>2. /\ step \in Statement /\ step.contract \in Kind
        /\ Fits(program, pc, step.contract, <<>>)
    BY <1>1, StepText DEF WellFormed, DeploysWhatFits, Statement, Kind
  <1> DEFINE none == <<>>
  <1>3. none \in Seq(STRING) /\ none \in [DOMAIN none -> Nat] /\ DOMAIN none = {}
    OBVIOUS
  <1>4. Made(step.contract, none) /\ Fits(program, pc, step.contract, none)
    BY <1>2 DEF AttachToProxy
  <1> HIDE DEF none
  <1>5. NewContract(step.contract)
    <2>1. \A k \in DOMAIN none : none[k] = handles[none[k]]
      BY <1>3
    <2>2. /\ [kind |-> step.contract, args |-> none] \in Contract
          /\ Fitting([kind |-> step.contract, args |-> none])
      BY <1>1, <1>2, <1>3, <1>4, <2>1, DeployedFits
    <2> QED
      BY <1>1, <1>4, <2>2, MadeIsNew
  <1>6. KindAssigned(step) = step.contract
    BY <1>1 DEF KindAssigned
  <1> QED
    BY <1>1, <1>5, <1>6 DEF AttachToProxy, Moves, Renames, Continue, NewContract, Assigning

LEMMA CreateMoves ==
    ASSUME IInv, CreateCKToken
    PROVE  Moves /\ NewContract("CKToken")
  <1> DEFINE names == <<"controller", "owner">>
  <1>1. Running /\ step.op = "create" /\ Typed /\ FieldsHoldAddresses /\ FieldsHoldTheirKind
    BY DEF IInv, CreateCKToken, At
  <1>2. /\ Fits(program, pc, "CKToken", names)
        /\ \A h \in {"controller", "owner"} : AssignedBefore(program, pc, h)
    BY <1>1, StepText DEF WellFormed, DeploysWhatFits
  <1>3. /\ names \in Seq({"controller", "owner"}) /\ "CKToken" \in Kind
        /\ \A k \in DOMAIN names : names[k] \in {"controller", "owner"}
    <2>1. DOMAIN names = {1, 2} /\ names[1] = "controller" /\ names[2] = "owner"
      OBVIOUS
    <2>2. names \in Seq({"controller", "owner"})
      OBVIOUS
    <2> QED
      BY <2>1, <2>2 DEF Kind
  <1> HIDE DEF names
  <1>4. /\ DOMAIN Addresses(names) = DOMAIN names
        /\ Addresses(names) \in [DOMAIN names -> Nat]
        /\ \A k \in DOMAIN names : Addresses(names)[k] = handles[names[k]]
    BY <1>1, <1>2, <1>3, FieldHasValue DEF Addresses
  <1>5. /\ [kind |-> "CKToken", args |-> Addresses(names)] \in Contract
        /\ Fitting([kind |-> "CKToken", args |-> Addresses(names)])
    BY <1>1, <1>2, <1>3, <1>4, DeployedFits
  <1>6. NewContract("CKToken")
    BY <1>1, <1>5, MadeIsNew DEF CreateCKToken, names
  <1> QED
    BY <1>1, <1>6 DEF CreateCKToken, Moves, Renames, Continue, NewContract, Assigning

LEMMA CreatePairMoves ==
    ASSUME IInv, CreatePair
    PROVE  Moves /\ NewContract("UniswapV2Pair")
  <1> DEFINE none == <<>>
  <1>1. /\ Running /\ step.op = "createPair" /\ Typed /\ FieldsHoldAddresses
        /\ FieldsHoldTheirKind
    BY DEF IInv, CreatePair, At
  <1>2. none \in Seq(STRING) /\ none \in [DOMAIN none -> Nat] /\ DOMAIN none = {}
    OBVIOUS
  <1>3. Made("UniswapV2Pair", none) /\ Fits(program, pc, "UniswapV2Pair", none)
    BY <1>1, StepText DEF WellFormed, DeploysWhatFits, CreatePair
  <1> HIDE DEF none
  <1>4. NewContract("UniswapV2Pair")
    <2>1. "UniswapV2Pair" \in Kind /\ \A k \in DOMAIN none : none[k] = handles[none[k]]
      BY <1>2 DEF Kind
    <2>2. /\ [kind |-> "UniswapV2Pair", args |-> none] \in Contract
          /\ Fitting([kind |-> "UniswapV2Pair", args |-> none])
      BY <1>1, <1>2, <1>3, <2>1, DeployedFits
    <2> QED
      BY <1>1, <1>3, <2>2, MadeIsNew
  <1> QED
    BY <1>1, <1>4 DEF CreatePair, Moves, Renames, Continue, NewContract, Assigning

LEMMA ReadBackMoves ==
    ASSUME IInv, getCreatedCKTokenAddress \/ AttachToPair
    PROVE  Moves
  <1>1. Typed /\ LogsNameTheirKind /\ Running
    BY DEF IInv, getCreatedCKTokenAddress, AttachToPair, At
  <1>2. CASE getCreatedCKTokenAddress
    <2> DEFINE a == created[Len(created)]
    <2>1. created \in Seq(Nat) /\ created # <<>> /\ step.op = "readCreated"
      BY <1>1, <1>2 DEF Typed, getCreatedCKTokenAddress, At, HasLog
    <2>2. Len(created) \in DOMAIN created
      BY <2>1
    <2>3. a \in DOMAIN contracts /\ contracts[a].kind = KindAssigned(step)
      BY <1>1, <2>1, <2>2 DEF LogsNameTheirKind, AllOf, KindAssigned
    <2>4. contracts' = contracts /\ Assign(step.handle, a)
      BY <1>2, <2>1 DEF getCreatedCKTokenAddress, newestLog
    <2> QED
      BY <1>1, <1>2, <2>1, <2>3, <2>4
      DEF getCreatedCKTokenAddress, Moves, Extends, Renames, Continue, Assigning
  <1>3. CASE AttachToPair
    <2> DEFINE a == pairs[Len(pairs)]
    <2>1. pairs \in Seq(Nat) /\ pairs # <<>> /\ step.op = "readPair"
      BY <1>1, <1>3 DEF Typed, AttachToPair, At
    <2>2. Len(pairs) \in DOMAIN pairs
      BY <2>1
    <2>3. a \in DOMAIN contracts /\ contracts[a].kind = KindAssigned(step)
      BY <1>1, <2>1, <2>2 DEF LogsNameTheirKind, AllOf, KindAssigned
    <2>4. contracts' = contracts /\ Assign(step.handle, a)
      BY <1>3 DEF AttachToPair, newestPair
    <2> QED
      BY <1>1, <1>3, <2>1, <2>3, <2>4
      DEF AttachToPair, Moves, Extends, Renames, Continue, Assigning
  <1> QED
    BY <1>2, <1>3

\* Every statement adds one contract at most, a fitting one, and assigns the
\* field that the text says, with what the text says.
LEMMA AdvanceMoves ==
    ASSUME IInv, Advance
    PROVE  Moves
  <1>1. CASE DeployContract \/ DeployUni
    <2>1. /\ Running /\ step.op \in {"deploy", "deployUni"} /\ Deployed
          /\ program' = program /\ pc' = pc + 1
      BY <1>1 DEF DeployContract, DeployUni, At, Continue
    <2> QED
      BY <2>1, DeployMoves DEF IInv, Moves
  <1>2. CASE SendTransaction \/ SendWithoutAwait \/ InitializeController \/ AddModule
    BY <1>2 DEF SendTransaction, SendWithoutAwait, InitializeController, AddModule, At, Continue,
                Moves, Extends, Renames, Assigning
  <1>3. CASE SupportMarket \/ getLastBlockTimestamp \/ QueueTransaction
    BY <1>3 DEF SupportMarket, getLastBlockTimestamp, QueueTransaction, At, Continue,
                Moves, Extends, Renames, Assigning
  <1>4. CASE increaseTimeAsync \/ ExecuteTransaction
    BY <1>4 DEF increaseTimeAsync, ExecuteTransaction, At, Continue,
                Moves, Extends, Renames, Assigning
  <1> QED
    BY <1>1, <1>2, <1>3, <1>4, ProxyMoves, CreateMoves, CreatePairMoves, ReadBackMoves DEF Advance

-----------------------------------------------------------------------------
(* Each part of the invariant, one statement later *)

\* Contracts stay what they are.
LEMMA ContractsStay ==
    ASSUME Typed, Extends
    PROVE  /\ contracts' \in Seq(Contract)
           /\ \A a \in DOMAIN contracts : a \in DOMAIN contracts' /\ contracts'[a] = contracts[a]
           /\ ConstructorsFit => ConstructorsFit'
  <1>1. contracts \in Seq(Contract)
    BY DEF Typed
  <1>2. CASE contracts' = contracts
    BY <1>1, <1>2 DEF ConstructorsFit, Fitting
  <1>3. CASE \E c \in Contract : Fitting(c) /\ contracts' = Append(contracts, c)
    <2>1. PICK c \in Contract : Fitting(c) /\ contracts' = Append(contracts, c)
      BY <1>3
    <2>2. /\ contracts' \in Seq(Contract)
          /\ DOMAIN contracts' = DOMAIN contracts \cup {Len(contracts) + 1}
          /\ \A a \in DOMAIN contracts : contracts'[a] = contracts[a]
          /\ contracts'[Len(contracts) + 1] = c
      BY <1>1, <2>1, AppendedAddress
    <2>3. ASSUME NEW d, Fitting(d)
          PROVE  Fitting(d)'
      BY <2>2, <2>3 DEF Fitting
    <2>4. ASSUME ConstructorsFit, NEW a \in DOMAIN contracts'
          PROVE  Fitting(contracts[a])'
      <3>1. CASE a \in DOMAIN contracts
        BY <2>2, <2>3, <2>4, <3>1 DEF ConstructorsFit
      <3>2. CASE a = Len(contracts) + 1
        BY <2>1, <2>2, <2>3, <3>2
      <3> QED
        BY <2>2, <2>4, <3>1, <3>2
    <2> QED
      BY <2>2, <2>4 DEF ConstructorsFit
  <1> QED
    BY <1>2, <1>3 DEF Extends

\* What the text says of the fields, one statement later.
LEMMA TextMovesOn ==
    ASSUME Typed, Moves
    PROVE  /\ program' = program /\ pc' = pc + 1 /\ pc \in Nat /\ pc >= 1 /\ pc <= Len(program)
           /\ Len(program) \in Nat /\ step = program[pc]
           /\ \A h : AssignedBefore(program, pc', h)
                       <=> AssignedBefore(program, pc, h) \/ Assigns(step, h)
           /\ \A h : \A j \in Nat :
                Keeps(program, j, pc', h)
                  <=> Keeps(program, j, pc, h) /\ (j <= pc => ~Assigns(step, h))
  <1>1. /\ program' = program /\ pc' = pc + 1 /\ pc \in Nat /\ pc >= 1 /\ pc <= Len(program)
        /\ Len(program) \in Nat /\ step = program[pc]
    BY StepText DEF Moves
  <1>2. ASSUME NEW h
        PROVE  /\ AssignedBefore(program, pc + 1, h)
                    <=> AssignedBefore(program, pc, h) \/ (pc > 0 /\ Assigns(program[pc], h))
               /\ \A j \in Nat : Keeps(program, j, pc + 1, h) <=>
                                   Keeps(program, j, pc, h) /\ (j <= pc => ~Assigns(program[pc], h))
    BY <1>1, OneFurther
  <1> QED
    BY <1>1, <1>2

\* A field that the statement does not assign is what it was.
LEMMA OtherFieldsStay ==
    ASSUME Moves, NEW h, ~Assigns(step, h)
    PROVE  /\ h \in DOMAIN handles' <=> h \in DOMAIN handles
           /\ h \in DOMAIN handles => handles'[h] = handles[h]
  BY DEF Moves, Renames, Assign, Assigns

LEMMA AssignedField ==
    ASSUME Moves, NEW h, Assigns(step, h)
    PROVE  /\ h \in DOMAIN handles' /\ handles'[h] \in DOMAIN contracts'
           /\ contracts'[handles'[h]].kind = KindAssigned(step)
  BY DEF Moves, Renames, Assign, Assigns

LEMMA FieldsMove ==
    ASSUME Typed, FieldsHoldAddresses, FieldsHoldTheirKind, Moves
    PROVE  FieldsHoldAddresses' /\ FieldsHoldTheirKind'
  <1>1. \A a \in DOMAIN contracts : a \in DOMAIN contracts' /\ contracts'[a] = contracts[a]
    BY ContractsStay DEF Moves
  <1>2. \A h : h \in DOMAIN handles' <=> h \in DOMAIN handles \/ Assigns(step, h)
    BY OtherFieldsStay, AssignedField DEF Moves, Renames, Assign, Assigns
  <1>3. \A h : Assigns(step, h) => h \in {program[j].handle : j \in 1 .. Len(program)}
    BY TextMovesOn DEF Assigns
  <1>4. DOMAIN handles' =
          {h \in Roles \cup {program[j].handle : j \in 1 .. Len(program)} :
              AssignedBefore(program, pc', h)}
    BY <1>2, <1>3, TextMovesOn DEF FieldsHoldAddresses
  <1>5. \A h \in DOMAIN handles' : handles'[h] \in DOMAIN contracts'
    BY <1>1, <1>2, OtherFieldsStay, AssignedField DEF FieldsHoldAddresses
  <1>6. ASSUME NEW h \in DOMAIN handles'
        PROVE  LET kind == contracts'[handles'[h]].kind IN
               /\ h \in Roles /\ Keeps(program, 1, pc', h) => kind = KindOfOutside(h)
               /\ \A j \in 1 .. pc :
                    Assigns(program[j], h) /\ Keeps(program, j + 1, pc', h)
                       => kind = KindAssigned(program[j])
    <2>1. CASE Assigns(step, h)
      <3>1. ~Keeps(program, 1, pc', h)
        BY <2>1, TextMovesOn
      <3>2. ASSUME NEW j \in 1 .. pc, Keeps(program, j + 1, pc', h)
            PROVE  j = pc
        <4>1. j + 1 \in Nat /\ j \in Nat
          BY TextMovesOn
        <4>2. ~(j + 1 <= pc)
          BY <2>1, <3>2, <4>1, TextMovesOn
        <4> QED
          BY <4>1, <4>2, TextMovesOn
      <3> QED
        BY <2>1, <3>1, <3>2, AssignedField, TextMovesOn
    <2>2. CASE ~Assigns(step, h)
      <3>1. h \in DOMAIN handles /\ handles'[h] = handles[h] /\ handles[h] \in DOMAIN contracts
        BY <2>2, OtherFieldsStay DEF FieldsHoldAddresses
      <3>2. contracts'[handles'[h]] = contracts[handles[h]]
        BY <1>1, <3>1
      <3>3. \A j \in 1 .. pc : Assigns(program[j], h) => j \in 1 .. pc - 1
        BY <2>2, TextMovesOn
      <3>4. \A j \in Nat : Keeps(program, j, pc', h) => Keeps(program, j, pc, h)
        BY TextMovesOn
      <3>5. \A j \in 1 .. pc : j \in Nat /\ j + 1 \in Nat
        BY TextMovesOn
      <3> QED
        BY <3>1, <3>2, <3>3, <3>4, <3>5 DEF FieldsHoldTheirKind
    <2> QED
      BY <2>1, <2>2
  <1>7. pc' - 1 = pc /\ program' = program
    BY TextMovesOn
  <1>8. FieldsHoldAddresses'
    BY <1>4, <1>5, <1>7 DEF FieldsHoldAddresses
  <1>9. FieldsHoldTheirKind'
    BY <1>6, <1>7 DEF FieldsHoldTheirKind
  <1> QED
    BY <1>8, <1>9

\* What was assigned before an earlier statement still is.
LEMMA StaysAssigned ==
    ASSUME Typed, FieldsHoldAddresses, NEW j \in 1 .. pc, NEW h,
           AssignedBefore(program, j, h) \/ (j < pc /\ Assigns(program[j], h))
    PROVE  h \in DOMAIN handles /\ handles[h] \in DOMAIN contracts
  <1>1. pc \in Nat /\ \A k \in 1 .. j - 1 : k \in 1 .. pc - 1
    BY TheText DEF Typed
  <1>2. j < pc => j \in 1 .. pc - 1
    BY <1>1
  <1>3. AssignedBefore(program, pc, h)
    BY <1>1, <1>2 DEF AssignedBefore
  <1> QED
    BY <1>3, FieldHasValue

LEMMA ConstructorsMove ==
    ASSUME IInv, Advance
    PROVE  ConstructorsGotTheFields'
  <1>1. Typed /\ FieldsHoldAddresses /\ FieldsHoldTheirKind /\ Moves
    BY AdvanceMoves DEF IInv
  <1>2. \A a \in DOMAIN contracts : a \in DOMAIN contracts' /\ contracts'[a] = contracts[a]
    BY <1>1, ContractsStay DEF Moves
  <1>3. /\ program' = program /\ pc' - 1 = pc /\ pc' = pc + 1 /\ pc \in 1 .. Len(program)
        /\ pc \in Nat /\ program \in Programs /\ step = program[pc]
    BY <1>1, TextMovesOn DEF Typed
  <1>4. SUFFICES
          ASSUME NEW j \in 1 .. pc, program[j].op = "deploy",
                 Keeps(program, j + 1, pc', program[j].handle),
                 NEW k \in DOMAIN NamesPassed(program[j]),
                 Keeps(program, j, pc', NamesPassed(program[j])[k])
          PROVE  contracts'[handles'[program[j].handle]].args[k]
                   = handles'[NamesPassed(program[j])[k]]
    BY <1>3 DEF ConstructorsGotTheFields
  <1> DEFINE s == program[j]
             name == NamesPassed(s)[k]
  <1>5. j \in 1 .. Len(program) /\ j \in Nat /\ j <= pc /\ j + 1 \in Nat
    BY <1>3
  <1>6. name \in DOMAIN handles
    BY <1>1, <1>3, <1>4, <1>5, PassedNamesAreAssigned, StaysAssigned
  <1>7. ~Assigns(step, name) /\ Keeps(program, j, pc, name)
    BY <1>1, <1>4, <1>5, TextMovesOn
  <1>8. handles'[name] = handles[name]
    BY <1>1, <1>6, <1>7, OtherFieldsStay
  <1>9. Assigns(s, s.handle)
    BY <1>4 DEF Assigns, Assigning
  <1>10. CASE j = pc
    <2>1. step.op = "deploy" /\ s = step
      BY <1>3, <1>4, <1>10
    <2>2. Running /\ Deployed
      BY <2>1 DEF Advance, DeployContract, SendTransaction, SendWithoutAwait, AttachToProxy,
                  InitializeController, AddModule, CreateCKToken, getCreatedCKTokenAddress,
                  SupportMarket, getLastBlockTimestamp, QueueTransaction, increaseTimeAsync,
                  ExecuteTransaction, DeployUni, CreatePair, AttachToPair, At
    <2>3. /\ Assign(step.handle, Len(contracts) + 1)
          /\ \A m \in DOMAIN NamesPassed(step) :
                contracts'[Len(contracts) + 1].args[m] = handles[NamesPassed(step)[m]]
      BY <1>1, <2>1, <2>2, DeployMoves
    <2>4. handles'[step.handle] = Len(contracts) + 1
      BY <2>3 DEF Assign
    <2> QED
      BY <1>4, <1>8, <2>1, <2>3, <2>4
  <1>11. CASE j < pc
    <2>1. ~Assigns(step, s.handle) /\ Keeps(program, j + 1, pc, s.handle)
      BY <1>1, <1>3, <1>4, <1>5, <1>11, TextMovesOn
    <2>2. s.handle \in DOMAIN handles /\ handles[s.handle] \in DOMAIN contracts
      BY <1>1, <1>9, <1>11, StaysAssigned
    <2>3. handles'[s.handle] = handles[s.handle]
      BY <1>1, <2>1, <2>2, OtherFieldsStay
    <2>4. j \in 1 .. pc - 1
      BY <1>3, <1>5, <1>11
    <2>5. contracts[handles[s.handle]].args[k] = handles[name]
      BY <1>4, <1>7, <2>1, <2>4 DEF IInv, ConstructorsGotTheFields
    <2> QED
      BY <1>2, <1>8, <2>2, <2>3, <2>5
  <1> QED
    BY <1>5, <1>3, <1>10, <1>11

\* A market is listed by the comptroller that its constructor got.
LEMMA ListingsMove ==
    ASSUME IInv, Advance
    PROVE  ListingsAsk'
  <1>1. Typed /\ FieldsHoldAddresses /\ FieldsHoldTheirKind /\ ListingsAsk /\ Moves
    BY AdvanceMoves DEF IInv
  <1>2. \A a \in DOMAIN contracts : a \in DOMAIN contracts' /\ contracts'[a] = contracts[a]
    BY <1>1, ContractsStay DEF Moves
  <1>3. ASSUME NEW entry \in listed
        PROVE  LET a == entry[2] IN
               a \in DOMAIN contracts' /\ entry = <<contracts'[a].args[asks(contracts'[a].kind)], a>>
    BY <1>1, <1>2 DEF ListingsAsk
  <1>4. CASE SupportMarket
    <2> DEFINE h == step.args[1]
               a == handles[h]
    <2>1. /\ pc \in Nat /\ pc \in 1 .. Len(program) /\ step = program[pc] /\ step.op = "support"
          /\ SupportsItsMarket(program, pc)
      BY <1>1, <1>4, StepText DEF WellFormed, SupportMarket, At
    <2>2. PICK j \in 1 .. pc - 1 :
             /\ program[j].op = "deploy" /\ program[j].handle = h
             /\ Keeps(program, j + 1, pc, h) /\ Keeps(program, j, pc, "comptroller")
             /\ asks(program[j].contract) \in DOMAIN NamesPassed(program[j])
             /\ NamesPassed(program[j])[asks(program[j].contract)] = "comptroller"
      BY <2>1 DEF SupportsItsMarket
    <2>3. Assigns(program[j], h) /\ KindAssigned(program[j]) = program[j].contract
      BY <2>2 DEF Assigns, Assigning, KindAssigned
    <2>4. h \in DOMAIN handles /\ a \in DOMAIN contracts
      BY <1>1, <2>1, <2>3, StaysAssigned
    <2>5. contracts[a].kind = program[j].contract
      BY <1>1, <2>2, <2>3, <2>4 DEF FieldsHoldTheirKind
    <2>6. contracts[a].args[asks(program[j].contract)] = handles["comptroller"]
      BY <2>2 DEF IInv, ConstructorsGotTheFields
    <2>7. listed' = listed \cup {<<handles["comptroller"], a>>} /\ contracts' = contracts
      BY <1>4 DEF SupportMarket, listing
    <2>8. \A entry \in listed' : entry \in listed \/ entry = <<handles["comptroller"], a>>
      BY <2>7
    <2> QED
      BY <1>3, <2>4, <2>5, <2>6, <2>7, <2>8 DEF ListingsAsk
  <1>5. CASE ~SupportMarket
    <2>1. listed' = listed
      BY <1>5 DEF Advance, DeployContract, SendTransaction, SendWithoutAwait, AttachToProxy,
                  InitializeController, AddModule, CreateCKToken, getCreatedCKTokenAddress,
                  getLastBlockTimestamp, QueueTransaction, increaseTimeAsync,
                  ExecuteTransaction, DeployUni, CreatePair, AttachToPair, Deployed
    <2> QED
      BY <1>3, <2>1 DEF ListingsAsk
  <1> QED
    BY <1>4, <1>5

\* What the controller registered, its fields still name.
LEMMA RegisteredMove ==
    ASSUME IInv, Advance
    PROVE  RegisteredByAStatement'
  <1>1. Typed /\ FieldsHoldAddresses /\ RegisteredByAStatement /\ Moves
    BY AdvanceMoves DEF IInv
  <1>2. /\ program' = program /\ pc' - 1 = pc /\ pc \in 1 .. Len(program) /\ pc \in Nat
        /\ Len(program) \in Nat /\ program \in Programs /\ step = program[pc]
    BY <1>1, TextMovesOn DEF Typed
  <1>3. CASE InitializeController
    <2>1. step.op = "initialize" /\ registered' = resourcesOf(step.args) /\ handles' = handles
      BY <1>3 DEF InitializeController, At
    <2>2. \A id \in 0 .. 2 : registered'[id] = handles'[program[pc].args[id + 5]]
      BY <1>2, <2>1 DEF resourcesOf
    <2> QED
      BY <1>2, <2>1, <2>2 DEF RegisteredByAStatement
  <1>4. CASE ~InitializeController
    <2>1. registered' = registered
      BY <1>4 DEF Advance, DeployContract, SendTransaction, SendWithoutAwait, AttachToProxy,
                  AddModule, CreateCKToken, getCreatedCKTokenAddress, SupportMarket,
                  getLastBlockTimestamp, QueueTransaction, increaseTimeAsync,
                  ExecuteTransaction, DeployUni, CreatePair, AttachToPair, Deployed
    <2>2. SUFFICES ASSUME registered # <<>>
                   PROVE  RegisteredByAStatement'
      BY <2>1 DEF RegisteredByAStatement
    <2>3. PICK j \in 1 .. pc - 1 :
             /\ program[j].op = "initialize"
             /\ \A id \in 0 .. 2 : registered[id] = handles[program[j].args[id + 5]]
      BY <1>1, <2>2 DEF RegisteredByAStatement
    <2>4. /\ j \in 1 .. Len(program) /\ j \in 1 .. pc /\ pc \in j + 1 .. (Len(program) + 1) - 1
          /\ j \in Nat
      BY <1>2
    <2>5. /\ 5 .. 7 \subseteq DOMAIN program[j].args
          /\ \A id \in 5 .. 7 : Keeps(program, j + 1, Len(program) + 1, program[j].args[id])
          /\ \A k \in DOMAIN program[j].args : AssignedBefore(program, j, program[j].args[k])
      BY <1>2, <2>3, <2>4, TheText DEF WellFormed, InitializesForGood, ReadsWhatIsAssigned
    <2>6. ASSUME NEW id \in 0 .. 2
          PROVE  registered'[id] = handles'[program[j].args[id + 5]]
      <3>1. id + 5 \in 5 .. 7
        OBVIOUS
      <3>2. program[j].args[id + 5] \in DOMAIN handles
        BY <1>1, <2>4, <2>5, <3>1, StaysAssigned
      <3>3. ~Assigns(step, program[j].args[id + 5])
        BY <1>2, <2>4, <2>5, <3>1 DEF Keeps
      <3> QED
        BY <1>1, <2>1, <2>3, <3>2, <3>3, OtherFieldsStay
    <2> QED
      BY <1>2, <2>3, <2>4, <2>6 DEF RegisteredByAStatement
  <1> QED
    BY <1>3, <1>4

LEMMA ModulesMove ==
    ASSUME IInv, Advance
    PROVE  ModulesAreEnabled'
  <1>1. Typed /\ ModulesAreEnabled /\ Moves
    BY AdvanceMoves DEF IInv
  <1>2. /\ program' = program /\ pc' - 1 = pc /\ pc' = pc + 1 /\ pc \in Nat /\ step = program[pc]
    BY <1>1, TextMovesOn
  <1>3. SUFFICES ASSUME NEW h \in DOMAIN handles', NEW j \in 1 .. pc,
                        EnabledSince(program, j, pc', h)
                 PROVE  handles'[h] \in modules'
    BY <1>2 DEF ModulesAreEnabled
  <1>4. Keeps(program, j, pc, h) /\ ~Assigns(step, h)
    BY <1>1, <1>2, <1>3, TextMovesOn DEF EnabledSince
  <1>5. h \in DOMAIN handles /\ handles'[h] = handles[h]
    BY <1>1, <1>4, OtherFieldsStay
  <1>6. \/ modules' = modules \/ modules' = modules \cup {handles[step.args[1]]}
        \/ InitializeController
    BY DEF Advance, DeployContract, SendTransaction, SendWithoutAwait, AttachToProxy,
           AddModule, CreateCKToken, getCreatedCKTokenAddress, SupportMarket,
           getLastBlockTimestamp, QueueTransaction, increaseTimeAsync,
           ExecuteTransaction, DeployUni, CreatePair, AttachToPair, Deployed
  <1>7. CASE j = pc
    <2>1. Enables(step, h)
      BY <1>2, <1>3, <1>7 DEF EnabledSince
    <2>2. CASE step.op = "addModule" /\ step.args[1] = h
      <3>1. AddModule
        BY <2>2 DEF Advance, DeployContract, SendTransaction, SendWithoutAwait, AttachToProxy,
                    InitializeController, CreateCKToken, getCreatedCKTokenAddress,
                    SupportMarket, getLastBlockTimestamp, QueueTransaction, increaseTimeAsync,
                    ExecuteTransaction, DeployUni, CreatePair, AttachToPair, At
      <3> QED
        BY <1>5, <2>2, <3>1 DEF AddModule
    <2>3. CASE step.op = "initialize" /\ \E m \in 2 .. 4 : step.args[m] = h
      <3>1. InitializeController
        BY <2>3 DEF Advance, DeployContract, SendTransaction, SendWithoutAwait, AttachToProxy,
                    AddModule, CreateCKToken, getCreatedCKTokenAddress,
                    SupportMarket, getLastBlockTimestamp, QueueTransaction, increaseTimeAsync,
                    ExecuteTransaction, DeployUni, CreatePair, AttachToPair, At
      <3> QED
        BY <1>5, <2>3, <3>1 DEF InitializeController
    <2> QED
      BY <2>1, <2>2, <2>3 DEF Enables
  <1>8. CASE j < pc
    <2>1. pc \in j + 1 .. pc' - 1 /\ j \in 1 .. pc - 1
      BY <1>2, <1>8
    <2>2. step.op # "initialize"
      BY <1>2, <1>3, <2>1 DEF EnabledSince
    <2>3. \A k \in j + 1 .. pc - 1 : k \in j + 1 .. pc' - 1
      BY <1>2
    <2>4. EnabledSince(program, j, pc, h)
      BY <1>3, <1>4, <2>3 DEF EnabledSince
    <2>5. handles[h] \in modules
      BY <1>1, <1>5, <2>1, <2>4 DEF ModulesAreEnabled
    <2> QED
      BY <1>5, <1>6, <2>2, <2>5 DEF InitializeController, At
  <1> QED
    BY <1>2, <1>7, <1>8

LEMMA LogsMove ==
    ASSUME IInv, Advance
    PROVE  LogsNameTheirKind' /\ created' \in Seq(Nat) /\ pairs' \in Seq(Nat)
  <1>1. Typed /\ LogsNameTheirKind /\ Moves /\ Len(contracts) \in Nat
    BY AdvanceMoves DEF IInv, Typed
  <1>2. \A a \in DOMAIN contracts : a \in DOMAIN contracts' /\ contracts'[a] = contracts[a]
    BY <1>1, ContractsStay DEF Moves
  <1>3. AllOf(created, "CKToken")' \/ created' # created
    BY <1>1, <1>2 DEF LogsNameTheirKind, AllOf
  <1>4. AllOf(pairs, "UniswapV2Pair")' \/ pairs' # pairs
    BY <1>1, <1>2 DEF LogsNameTheirKind, AllOf
  <1>5. CASE CreateCKToken
    <2>1. NewContract("CKToken") /\ created' = <<made'>> /\ pairs' = pairs
      BY <1>5, CreateMoves DEF CreateCKToken
    <2>2. made' \in Nat
      BY <1>1, <2>1 DEF NewContract
    <2>3. created' \in Seq(Nat) /\ \A x \in DOMAIN created' : created'[x] = made'
      BY <2>1, <2>2
    <2> QED
      BY <1>1, <1>4, <2>1, <2>3 DEF LogsNameTheirKind, AllOf, Typed, NewContract
  <1>6. CASE CreatePair
    <2>1. NewContract("UniswapV2Pair") /\ created' = <<>> /\ pairs' = Append(pairs, made')
      BY <1>6, CreatePairMoves DEF CreatePair, Mine
    <2>2. made' \in Nat
      BY <1>1, <2>1 DEF NewContract
    <2>3. /\ pairs' \in Seq(Nat)
          /\ \A x \in DOMAIN pairs' : \/ x \in DOMAIN pairs /\ pairs'[x] = pairs[x]
                                      \/ pairs'[x] = made'
      BY <1>1, <2>1, <2>2 DEF Typed
    <2>4. created' \in Seq(Nat) /\ DOMAIN created' = {}
      BY <2>1
    <2> QED
      BY <1>1, <1>2, <2>1, <2>3, <2>4 DEF LogsNameTheirKind, AllOf, NewContract
  <1>7. CASE ~CreateCKToken /\ ~CreatePair
    <2>1. (created' = created \/ created' = <<>>) /\ pairs' = pairs
      BY <1>7 DEF Advance, DeployContract, SendTransaction, SendWithoutAwait, AttachToProxy,
                  InitializeController, AddModule, getCreatedCKTokenAddress, SupportMarket,
                  getLastBlockTimestamp, QueueTransaction, increaseTimeAsync,
                  ExecuteTransaction, DeployUni, AttachToPair, Deployed, Mine
    <2>2. created' = <<>> => created' \in Seq(Nat) /\ DOMAIN created' = {}
      OBVIOUS
    <2> QED
      BY <1>1, <1>3, <1>4, <2>1, <2>2 DEF LogsNameTheirKind, AllOf, Typed
  <1> QED
    BY <1>5, <1>6, <1>7

LEMMA TypedMoves ==
    ASSUME IInv, Advance
    PROVE  Typed'
  <1>1. Typed /\ Moves
    BY AdvanceMoves DEF IInv
  <1>2. program' \in Programs /\ pc' \in 1 .. Len(program') + 1
    BY <1>1, TextMovesOn DEF Typed
  <1>3. contracts' \in Seq(Contract)
    BY <1>1, ContractsStay DEF Moves
  <1>4. inFlight' \in {inFlight, inFlight + 1} /\ stale' = FALSE /\ outcome' = outcome
    BY DEF Advance, DeployContract, SendTransaction, SendWithoutAwait, AttachToProxy,
           InitializeController, AddModule, CreateCKToken, getCreatedCKTokenAddress,
           SupportMarket, getLastBlockTimestamp, QueueTransaction, increaseTimeAsync,
           ExecuteTransaction, DeployUni, CreatePair, AttachToPair, Continue
  <1>5. /\ \/ now' = now \/ now' \in NextBlock
           \/ now' \in now + Delay + 2 .. now + Delay + 2 + MaxGap
        /\ lastRead' \in {lastRead, now} /\ queued' \in {queued, eta}
    BY DEF Advance, DeployContract, SendTransaction, SendWithoutAwait, AttachToProxy,
           InitializeController, AddModule, CreateCKToken, getCreatedCKTokenAddress,
           SupportMarket, getLastBlockTimestamp, QueueTransaction, increaseTimeAsync,
           ExecuteTransaction, DeployUni, CreatePair, AttachToPair, Deployed, Mine
  <1>6. inFlight' \in Nat /\ stale' \in BOOLEAN /\ outcome' \in {"fine", "late", "broken"}
    <2>1. inFlight \in Nat /\ outcome \in {"fine", "late", "broken"}
      BY <1>1 DEF Typed
    <2>2. inFlight' \in Nat
      BY <1>4, <2>1
    <2>3. stale' \in BOOLEAN /\ outcome' \in {"fine", "late", "broken"}
      BY <1>4, <2>1
    <2> QED
      BY <2>2, <2>3
  <1>7. now' \in Nat /\ lastRead' \in Nat /\ queued' \in Nat
    BY <1>1, <1>5, BringupAssumption DEF Typed, eta, NextBlock
  <1> QED
    BY <1>2, <1>3, <1>6, <1>7, LogsMove DEF Typed

-----------------------------------------------------------------------------
(* The start, what lands late, and what the tests deploy *)

LEMMA InitIInv ==
    ASSUME Init
    PROVE  IInv
  <1>1. /\ Outside \in Seq(STRING) /\ DOMAIN Outside = 1 .. Len(Outside) /\ Len(Outside) \in Nat
        /\ \A role \in Roles : KindOfOutside(role) \in STRING \ DOMAIN Parameters
    BY TablesAssumption
  <1>2. \A i \in DOMAIN Outside : Outside[i] \in Roles
    BY DEF Roles
  <1>3. /\ contracts = [i \in DOMAIN Outside |-> [kind |-> KindOfOutside(Outside[i]), args |-> <<>>]]
        /\ handles = [role \in Roles |-> CHOOSE i \in DOMAIN Outside : Outside[i] = role]
    BY DEF Init, Roles
  <1>4. /\ contracts \in Seq(Contract) /\ DOMAIN contracts = DOMAIN Outside
        /\ \A i \in DOMAIN Outside : contracts[i].kind = KindOfOutside(Outside[i])
    <2>1. <<>> \in Seq(Nat)
      OBVIOUS
    <2>2. \A i \in DOMAIN Outside :
             [kind |-> KindOfOutside(Outside[i]), args |-> <<>>] \in Contract
      BY <1>1, <1>2, <2>1 DEF Contract, Kind
    <2>3. contracts \in [1 .. Len(Outside) -> Contract]
      BY <1>1, <1>3, <2>2
    <2>4. contracts \in Seq(Contract)
      BY <1>1, <2>3, FunctionIsSequence
    <2> QED
      BY <1>3, <2>4
  <1>5. \A role \in Roles : handles[role] \in DOMAIN Outside /\ Outside[handles[role]] = role
    BY <1>3 DEF Roles
  <1>6. program \in Programs /\ pc = 1 /\ Len(program) \in Nat /\ 1 .. pc - 1 = {}
    BY TheText DEF Init
  <1>7. Typed
    <2>1. <<>> \in Seq(Nat)
      OBVIOUS
    <2>2. inFlight \in Nat /\ stale \in BOOLEAN /\ outcome \in {"fine", "late", "broken"}
      BY DEF Init
    <2> QED
      BY <1>4, <1>6, <2>1, <2>2 DEF Typed, Init
  <1>8. FieldsHoldAddresses
    BY <1>3, <1>4, <1>5, <1>6 DEF FieldsHoldAddresses, AssignedBefore
  <1>9. LogsNameTheirKind
    BY DEF LogsNameTheirKind, AllOf, Init
  <1>10. FieldsHoldTheirKind
    BY <1>3, <1>4, <1>5, <1>6 DEF FieldsHoldTheirKind
  <1>11. ConstructorsFit
    BY <1>1, <1>2, <1>4 DEF ConstructorsFit, Fitting
  <1>12. ConstructorsGotTheFields /\ ListingsAsk /\ RegisteredByAStatement /\ ModulesAreEnabled
    BY <1>6 DEF ConstructorsGotTheFields, ListingsAsk, RegisteredByAStatement, ModulesAreEnabled,
                Init
  <1> QED
    BY <1>7, <1>8, <1>9, <1>10, <1>11, <1>12 DEF IInv

\* Between two statements contracts are added, and nothing else matters.
LEMMA BetweenStatements ==
    ASSUME IInv, Extends, Typed', LogsNameTheirKind',
           UNCHANGED <<program, pc, handles, modules, registered, listed>>
    PROVE  IInv'
  <1>1. Typed /\ FieldsHoldAddresses /\ pc \in Nat
    BY DEF IInv, Typed
  <1>2. /\ ConstructorsFit'
        /\ \A a \in DOMAIN contracts : a \in DOMAIN contracts' /\ contracts'[a] = contracts[a]
    BY <1>1, ContractsStay DEF IInv
  <1>3. FieldsHoldAddresses'
    BY <1>1, <1>2 DEF FieldsHoldAddresses
  <1>4. FieldsHoldTheirKind'
    BY <1>1, <1>2 DEF IInv, FieldsHoldTheirKind, FieldsHoldAddresses
  <1>5. ConstructorsGotTheFields'
    <2>1. ASSUME NEW j \in 1 .. pc - 1, program[j].op = "deploy"
          PROVE  contracts'[handles[program[j].handle]] = contracts[handles[program[j].handle]]
      <3>1. Assigns(program[j], program[j].handle) /\ j \in 1 .. pc /\ j < pc
        BY <1>1, <2>1 DEF Assigns, Assigning
      <3> QED
        BY <1>1, <1>2, <3>1, StaysAssigned
    <2> QED
      BY <2>1 DEF IInv, ConstructorsGotTheFields
  <1>6. ListingsAsk'
    BY <1>2 DEF IInv, ListingsAsk
  <1>7. RegisteredByAStatement' /\ ModulesAreEnabled'
    BY DEF IInv, RegisteredByAStatement, ModulesAreEnabled
  <1> QED
    BY <1>2, <1>3, <1>4, <1>5, <1>6, <1>7 DEF IInv

LEMMA LandIInv ==
    ASSUME IInv, Land
    PROVE  IInv'
  <1>1. Extends /\ created' = <<>> /\ pairs' = pairs
        /\ UNCHANGED <<program, pc, handles, modules, registered, listed>>
    BY DEF Land, Mine, Extends
  <1>2. Typed'
    <2>1. <<>> \in Seq(Nat)
      OBVIOUS
    <2>2. /\ inFlight' \in Nat /\ stale' = TRUE /\ now' \in Nat
          /\ UNCHANGED <<outcome, contracts, lastRead, queued>>
      BY BringupAssumption DEF IInv, Typed, Land, Mine, NextBlock
    <2> QED
      BY <1>1, <2>1, <2>2 DEF IInv, Typed
  <1>3. LogsNameTheirKind'
    <2>1. DOMAIN created' = {}
      BY <1>1
    <2> QED
      BY <1>1, <2>1 DEF IInv, LogsNameTheirKind, AllOf, Land
  <1> QED
    BY <1>1, <1>2, <1>3, BetweenStatements

LEMMA ThrowIInv ==
    ASSUME IInv, Throw
    PROVE  IInv'
  <1>1. /\ Extends /\ UNCHANGED <<program, pc, handles, modules, registered, listed>>
        /\ UNCHANGED <<contracts, inFlight, stale, now, created, pairs, lastRead, queued>>
        /\ outcome' \in {"late", "broken"}
    BY DEF Throw, Extends
  <1>2. Typed' /\ LogsNameTheirKind'
    BY <1>1 DEF IInv, Typed, LogsNameTheirKind, AllOf
  <1> QED
    BY <1>1, <1>2, BetweenStatements

LEMMA TestIInv ==
    ASSUME IInv, NEW contract \in DOMAIN DeployHelper, DeployInTest(contract)
    PROVE  IInv'
  <1> DEFINE helper == DeployHelper[contract]
             args == PassedOn(helper, Addresses(helper.takes))
  <1>1. /\ Typed /\ FieldsHoldAddresses /\ FieldsHoldTheirKind /\ LogsNameTheirKind
        /\ program \in Programs /\ pc = Len(program) + 1
    <2>1. Typed /\ Done
      BY DEF IInv, DeployInTest
    <2>2. program \in Programs /\ Len(program) \in Nat
      BY <2>1, TheText DEF Typed
    <2> QED
      BY <2>1, <2>2 DEF IInv, Typed, Done
  <1>2. /\ contract \in STRING /\ helper.takes \in Seq(STRING) /\ helper.passes \in Seq(STRING)
        /\ \A k \in DOMAIN helper.passes :
              \E j \in DOMAIN helper.takes : helper.takes[j] = helper.passes[k]
    BY TablesAssumption
  <1>3. /\ \A k \in DOMAIN helper.takes : helper.takes[k] \in DOMAIN handles
        /\ Made(contract, args)
    BY DEF DeployInTest
  <1>4. Fits(program, pc, contract, helper.passes)
    <2>1. \A k \in DOMAIN helper.takes : AssignedBefore(program, Len(program) + 1, helper.takes[k])
      BY <1>1, <1>3 DEF FieldsHoldAddresses
    <2>2. TestsDeployWhatFits(program)
      BY <1>1, TheText
    <2> QED
      BY <1>1, <2>1, <2>2 DEF TestsDeployWhatFits, DeployInTest
  <1>5. /\ DOMAIN Addresses(helper.takes) = DOMAIN helper.takes
        /\ \A k \in DOMAIN helper.takes : Addresses(helper.takes)[k] = handles[helper.takes[k]]
    BY DEF Addresses
  <1>6. /\ DOMAIN args = DOMAIN helper.passes
        /\ \A k \in DOMAIN helper.passes :
              args[k] = handles[PassedOn(helper, helper.takes)[k]]
    BY <1>5, PassedOnNames
  <1>7. \A k \in DOMAIN helper.passes : PassedOn(helper, helper.takes)[k] = helper.passes[k]
    BY <1>2 DEF PassedOn
  <1>8. args \in [DOMAIN helper.passes -> Nat]
    <2>1. args = [k \in DOMAIN helper.passes |-> args[k]]
      BY DEF PassedOn
    <2>2. DOMAIN contracts \subseteq Nat
      BY <1>1 DEF Typed
    <2>3. \A k \in DOMAIN helper.passes : args[k] \in Nat
      BY <1>1, <1>2, <1>3, <1>6, <1>7, <2>2 DEF FieldsHoldAddresses
    <2> HIDE DEF args
    <2> QED
      BY <2>1, <2>3
  <1> HIDE DEF args
  <1>9. NewContract(contract)
    <2>1. /\ [kind |-> contract, args |-> args] \in Contract
          /\ Fitting([kind |-> contract, args |-> args])
      <3>1. contract \in Kind /\ \A k \in DOMAIN helper.passes : args[k] = handles[helper.passes[k]]
        BY <1>2, <1>6, <1>7 DEF Kind
      <3> HIDE DEF helper
      <3> QED
        BY <1>1, <1>2, <1>4, <1>6, <1>8, <3>1, DeployedFits
    <2> QED
      BY <1>1, <1>3, <2>1, MadeIsNew
  <1>10. Extends /\ contracts' \in Seq(Contract) /\ created' = <<>>
         /\ UNCHANGED <<program, pc, handles, modules, registered, listed, inFlight, stale,
                        outcome, pairs, lastRead, queued>>
         /\ now' \in Nat
    BY <1>1, <1>9, BringupAssumption DEF NewContract, DeployInTest, Mine, NextBlock, Typed
  <1>11. created' \in Seq(Nat) /\ DOMAIN created' = {}
    BY <1>10
  <1>12. Typed'
    BY <1>1, <1>10, <1>11 DEF Typed
  <1>13. LogsNameTheirKind'
    BY <1>1, <1>9, <1>10, <1>11 DEF LogsNameTheirKind, AllOf, NewContract
  <1> QED
    BY <1>10, <1>12, <1>13, BetweenStatements

LEMMA AdvanceIInv ==
    ASSUME IInv, Advance
    PROVE  IInv'
  <1>1. FieldsHoldAddresses' /\ FieldsHoldTheirKind' /\ ConstructorsFit'
    BY AdvanceMoves, FieldsMove, ContractsStay DEF IInv, Moves
  <1> QED
    BY <1>1, TypedMoves, LogsMove, ConstructorsMove, ListingsMove, RegisteredMove, ModulesMove
    DEF IInv

LEMMA NextIInv ==
    ASSUME IInv, [Next]_vars
    PROVE  IInv'
  <1>1. CASE UNCHANGED vars
    <2>1. Typed' /\ LogsNameTheirKind'
      BY <1>1 DEF vars, IInv, Typed, LogsNameTheirKind, AllOf
    <2> QED
      BY <1>1, <2>1, BetweenStatements DEF vars, Extends
  <1> QED
    BY <1>1, AdvanceIInv, LandIInv, ThrowIInv, TestIInv DEF Next

\* What the text promises of every field holds of what the field names on the
\* chain, whenever the calls that are not awaited land.
THEOREM TextHoldsOnChain == Spec => []IInv
  <1> QED
    BY InitIInv, NextIInv, PTL DEF Spec

\* No two addresses are swapped on their way from a fixture to a constructor,
\* and a market is listed by the comptroller it asks: from the moment it is
\* deployed, and for whatever the tests deploy afterwards.
THEOREM AddressesEndUpWhereTheyBelong == Spec => []WiredAndListed
  <1>1. ASSUME IInv
        PROVE  WiredAndListed
    <2>1. Wired
      BY <1>1 DEF IInv, ConstructorsFit, Fitting, Wired
    <2>2. ASSUME NEW entry \in listed
          PROVE  LET a == entry[2] IN
                 <<contracts[a].args[asks(contracts[a].kind)], a>> \in listed
      BY <1>1 DEF IInv, ListingsAsk
    <2>3. ListedWhereItAsks
      BY <2>2 DEF ListedWhereItAsks, asks
    <2> QED
      BY <2>1, <2>3 DEF WiredAndListed
  <1> QED
    BY <1>1, TextHoldsOnChain, PTL

\* The ids lead to the contracts that the fields name, although the registry
\* is deployed twice: the second one before the controller is initialized.
THEOREM IdsLeadToTheFields == Spec => []ResourcesAreTheHandles
  <1>1. ASSUME IInv
        PROVE  ResourcesAreTheHandles
    <2>1. SUFFICES ASSUME registered # <<>>
                   PROVE  /\ registered[0] = handles["integrationRegistry"]
                          /\ registered[1] = handles["priceOracle"]
                          /\ registered[2] = handles["ckValuer"]
      BY DEF ResourcesAreTheHandles
    <2>2. PICK j \in 1 .. pc - 1 :
             /\ program[j].op = "initialize"
             /\ \A id \in 0 .. 2 : registered[id] = handles[program[j].args[id + 5]]
      BY <1>1, <2>1 DEF IInv, RegisteredByAStatement
    <2>3. program \in Programs /\ j \in 1 .. Len(program)
      BY <1>1, TheText DEF IInv, Typed
    <2>4. /\ program[j].args[5] = "integrationRegistry" /\ program[j].args[6] = "priceOracle"
          /\ program[j].args[7] = "ckValuer"
      BY <2>2, <2>3, TheText DEF WellFormed, InitializesForGood
    <2>5. /\ registered[0] = handles[program[j].args[5]]
          /\ registered[1] = handles[program[j].args[6]]
          /\ registered[2] = handles[program[j].args[7]]
      BY <2>2
    <2> QED
      BY <2>4, <2>5
  <1> QED
    BY <1>1, TextHoldsOnChain, PTL

-----------------------------------------------------------------------------
(* What the awaited statements find *)

\* The operation of a statement is the action that runs it.
LEMMA RunsItsOperation ==
    ASSUME Advance
    PROVE  /\ Running /\ stale' = FALSE /\ outcome' = outcome
           /\ step.op = "create" => CreateCKToken
           /\ step.op = "createPair" => CreatePair
           /\ step.op = "readTime" => getLastBlockTimestamp
           /\ step.op = "queue" => QueueTransaction
           /\ step.op = "increaseTime" => increaseTimeAsync
           /\ step.op = "readCreated" => getCreatedCKTokenAddress
           /\ step.op = "readPair" => AttachToPair
  BY DEF Advance, DeployContract, SendTransaction, SendWithoutAwait, AttachToProxy,
         InitializeController, AddModule, CreateCKToken, getCreatedCKTokenAddress,
         SupportMarket, getLastBlockTimestamp, QueueTransaction, increaseTimeAsync,
         ExecuteTransaction, DeployUni, CreatePair, AttachToPair, At, Continue

LEMMA ReadAtOnce ==
    ASSUME Typed, Running
    PROVE  /\ step.op = "readCreated" => JustRan("create")
           /\ step.op = "readPair" => JustRan("createPair")
           /\ step.op \in {"queue", "deployUni"} => JustRan("readTime")
           /\ step.op = "increaseTime" => JustRan("queue")
           /\ step.op = "execute" => JustRan("increaseTime")
  <1>1. ReadsAtOnce(program, pc) /\ step = program[pc]
    BY StepText, AtOnceAssumption DEF Typed
  <1> QED
    BY <1>1 DEF ReadsAtOnce, Follows, JustRan

LEMMA AdvanceAnswers ==
    ASSUME IInv, Answers, Advance
    PROVE  Answers'
  <1>1. Typed /\ Typed' /\ Moves /\ Running
    BY AdvanceMoves, TypedMoves, RunsItsOperation DEF IInv
  <1>2. /\ program' = program /\ pc' = pc + 1 /\ pc' - 1 = pc /\ pc \in Nat /\ pc >= 1
        /\ step = program[pc]
    BY <1>1, TextMovesOn
  <1>3. \A op : JustRan(op)' => step.op = op
    BY <1>2 DEF JustRan
  <1>4. /\ step.op = "queue" => JustRan("readTime")
        /\ step.op = "increaseTime" => JustRan("queue")
    BY <1>1, ReadAtOnce
  <1>5. step.op = "create" => created' = <<made'>>
    BY RunsItsOperation DEF CreateCKToken
  <1>6. step.op = "createPair" => pairs' # <<>> /\ pairs'[Len(pairs')] = made'
    <2>1. step.op = "createPair" => pairs' = Append(pairs, made') /\ made' = Len(contracts) + 1
      BY RunsItsOperation DEF CreatePair, Made
    <2>2. pairs \in Seq(Nat) /\ Len(contracts) + 1 \in Nat
      BY <1>1 DEF Typed
    <2> QED
      BY <2>1, <2>2
  <1>7. step.op = "readTime" => lastRead' <= now' /\ lastRead' = now'
    BY <1>1, RunsItsOperation DEF getLastBlockTimestamp, Typed
  <1>8. step.op = "queue" => queued' <= now' + Delay
    <2>1. step.op = "queue" => lastRead <= now
      BY <1>4 DEF Answers
    <2>2. step.op = "queue" => queued' = lastRead + Delay + 1 /\ now' \in NextBlock
      BY RunsItsOperation DEF QueueTransaction, eta, Mine
    <2>3. Delay \in Nat /\ lastRead \in Nat /\ now \in Nat /\ MaxGap \in Nat
      BY <1>1, BringupAssumption DEF Typed
    <2>4. \A t \in NextBlock : lastRead <= now => lastRead + Delay + 1 <= t + Delay
      BY <2>3 DEF NextBlock
    <2> QED
      BY <2>1, <2>2, <2>4
  <1>9. step.op = "increaseTime" => queued' <= now'
    <2>1. step.op = "increaseTime" => queued <= now + Delay
      BY <1>4 DEF Answers
    <2>2. step.op = "increaseTime" =>
             queued' = queued /\ now' \in now + Delay + 2 .. now + Delay + 2 + MaxGap
      BY RunsItsOperation DEF increaseTimeAsync
    <2> QED
      BY <1>1, <2>1, <2>2, BringupAssumption DEF Typed
  <1> QED
    BY <1>3, <1>5, <1>6, <1>7, <1>8, <1>9 DEF Answers

\* A block that lands takes the log away and makes the time that was read old.
LEMMA LandAnswers ==
    ASSUME IInv, Answers, Land
    PROVE  Answers'
  <1>1. /\ now \in Nat /\ queued \in Nat /\ lastRead \in Nat /\ now' \in NextBlock
        /\ stale' = TRUE /\ created' = <<>>
        /\ UNCHANGED <<program, pc, outcome, pairs, made, lastRead, queued>>
    BY DEF IInv, Typed, Land, Mine
  <1>2. \A op : JustRan(op)' <=> JustRan(op)
    BY <1>1 DEF JustRan, Running
  <1>3. now' \in Nat /\ now <= now'
    BY <1>1, BringupAssumption DEF NextBlock
  <1>4. /\ queued <= now => queued <= now'
        /\ queued <= now + Delay => queued <= now' + Delay
        /\ lastRead <= now => lastRead <= now'
    <2>1. now \in Nat /\ queued \in Nat /\ lastRead \in Nat /\ Delay \in Nat
      BY <1>1, BringupAssumption
    <2>2. queued <= now => queued <= now'
      BY <1>3, <2>1
    <2>3. queued <= now + Delay => queued <= now' + Delay
      <3>1. \A t \in Nat : now <= t => (queued <= now + Delay => queued <= t + Delay)
        BY <2>1
      <3> QED
        BY <1>3, <3>1
    <2>4. lastRead <= now => lastRead <= now'
      BY <1>3, <2>1
    <2> QED
      BY <2>2, <2>3, <2>4
  <1> QED
    BY <1>1, <1>2, <1>4 DEF Answers

LEMMA StoppedAnswers ==
    ASSUME IInv, Throw \/ \E contract \in DOMAIN DeployHelper : DeployInTest(contract)
    PROVE  Answers'
  <1>1. Len(program) \in Nat /\ pc \in Nat
    BY TheText DEF IInv, Typed
  <1>2. ~Running'
    BY <1>1 DEF Running, Done, DeployInTest, Throw
  <1> QED
    BY <1>2 DEF Answers, JustRan

\* Whatever is mined between two statements, what the next one relies on is
\* what the last one did, or is known to have been overtaken.
THEOREM AnswersAreFreshOrStale == Spec => []Answers
  <1>1. Init => Answers
    BY DEF Init, Answers, JustRan
  <1>2. IInv /\ Answers /\ [Next]_vars => Answers'
    <2>1. ASSUME Answers, UNCHANGED vars
          PROVE  Answers'
      BY <2>1 DEF vars, Answers, JustRan, Running
    <2> QED
      BY <2>1, AdvanceAnswers, LandAnswers, StoppedAnswers DEF Next
  <1> QED
    BY <1>1, <1>2, TextHoldsOnChain, PTL DEF Spec

\* A handle read back from the chain is what this caller's own call created,
\* although the read asks for the latest block, whichever that is by then.
THEOREM OwnCreationIsReadBack == Spec => CreatedIsReturned
  <1>1. ASSUME IInv, Answers, [Next]_vars
        PROVE  [Running /\ step.op \in {"readCreated", "readPair"} /\ pc' = pc + 1
                  => handles'[step.handle] = made]_vars
    <2>1. SUFFICES ASSUME Running, step.op \in {"readCreated", "readPair"}, pc' = pc + 1
                   PROVE  handles'[step.handle] = made
      OBVIOUS
    <2>2. Typed /\ pc \in Nat
      BY <1>1 DEF IInv, Typed
    <2>3. Advance
      BY <1>1, <2>1, <2>2 DEF Next, Land, Throw, DeployInTest, vars
    <2>4. /\ step.op = "readCreated" => JustRan("create")
          /\ step.op = "readPair" => JustRan("createPair")
      BY <2>1, <2>2, ReadAtOnce
    <2>5. CASE step.op = "readCreated"
      <3>1. created # <<>> /\ Assign(step.handle, created[Len(created)])
        BY <2>3, <2>5, RunsItsOperation DEF getCreatedCKTokenAddress, HasLog, newestLog
      <3>2. created = <<made>>
        BY <1>1, <2>4, <2>5, <3>1 DEF Answers
      <3> QED
        BY <3>1, <3>2 DEF Assign
    <2>6. CASE step.op = "readPair"
      <3>1. pairs[Len(pairs)] = made
        BY <1>1, <2>4, <2>6 DEF Answers
      <3>2. Assign(step.handle, pairs[Len(pairs)])
        BY <2>3, <2>6, RunsItsOperation DEF AttachToPair, newestPair
      <3> QED
        BY <3>1, <3>2 DEF Assign
    <2> QED
      BY <2>1, <2>5, <2>6
  <1> QED
    BY <1>1, TextHoldsOnChain, AnswersAreFreshOrStale, PTL DEF Spec, CreatedIsReturned

\* A statement that comes in time does not throw: it reads no field that is not
\* assigned yet, misses no argument, module, log or pair, and the timelock and
\* the token accept the times that they are given.
LEMMA InTimeGoesThrough ==
    ASSUME IInv, Answers, Throw
    PROVE  outcome' = "late"
  <1>1. Running /\ Typed /\ FieldsHoldAddresses
    BY DEF IInv, Throw
  <1>2. step = program[pc] /\ WellFormed(program, pc) /\ pc \in Nat
    BY <1>1, StepText
  <1>3. PICK t \in NextBlock : /\ Defined => Reverts(t) \/ Missing
                               /\ outcome' = IF Late(t) THEN "late" ELSE "broken"
    BY DEF Throw
  <1>4. Defined
    BY <1>1, <1>2, FieldHasValue DEF WellFormed, ReadsWhatIsAssigned, Defined
  <1>5. SUFFICES ASSUME ~Late(t)
                 PROVE  ~Reverts(t) /\ ~Missing
    BY <1>3, <1>4
  <1>6. /\ step.op = "readCreated" => JustRan("create")
        /\ step.op = "readPair" => JustRan("createPair")
        /\ step.op \in {"queue", "deployUni"} => JustRan("readTime")
        /\ step.op = "execute" => JustRan("increaseTime")
    BY <1>1, ReadAtOnce
  <1>7. /\ t \in Nat /\ t >= now + 1 /\ now \in Nat
        /\ step.op \in {"readCreated", "queue", "deployUni"} => ~stale /\ t = now + 1
    BY <1>1, <1>4, <1>5, BringupAssumption DEF Late, NextBlock, Typed
  <1>8. step.op = "create" => ModulesEnabled
    <2>1. SUFFICES ASSUME step.op = "create", NEW k \in DOMAIN step.args
                   PROVE  handles[step.args[k]] \in modules
      BY DEF ModulesEnabled
    <2>2. step.args[k] \in DOMAIN handles
      BY <1>4 DEF Defined
    <2>3. \E j \in 1 .. pc - 1 : EnabledSince(program, j, pc, step.args[k])
      BY <1>2, <2>1 DEF WellFormed, EnablesItsModules
    <2> QED
      BY <2>2, <2>3 DEF IInv, ModulesAreEnabled
  <1>9. ~Missing
    <2>1. step.op = "readCreated" => HasLog
      BY <1>6, <1>7 DEF Answers, HasLog
    <2>2. step.op = "readPair" => pairs # <<>>
      BY <1>6 DEF Answers
    <2>3. step.op \in {"deploy", "deployUni"} => TakesAll(step.contract)
      BY <1>2 DEF WellFormed, DeploysWhatFits
    <2> QED
      BY <2>1, <2>2, <2>3 DEF Missing
  <1>10. /\ step.op = "queue" => ~(eta < t + Delay)
         /\ step.op = "execute" => ~(t < queued)
         /\ step.op = "deployUni" => ~(mintingAllowedAfter < t)
    <2>1. step.op \in {"queue", "deployUni"} => lastRead = now
      BY <1>6, <1>7 DEF Answers
    <2>2. step.op = "execute" => queued <= now
      BY <1>6 DEF Answers
    <2> QED
      BY <1>1, <1>7, <2>1, <2>2, BringupAssumption DEF Typed, eta, mintingAllowedAfter
  <1> QED
    BY <1>8, <1>9, <1>10 DEF Reverts

\* No hook fails but for a block, or a second, that came between a statement
\* and what it relies on: a call that was not awaited, or the node's clock.
THEOREM HooksThrowOnlyWhenLate == Spec => []ThrowsOnlyLate
  <1>1. Init => ThrowsOnlyLate
    BY DEF Init, ThrowsOnlyLate
  <1>2. IInv /\ Answers /\ ThrowsOnlyLate /\ [Next]_vars => ThrowsOnlyLate'
    <2>1. Throw \/ outcome' = outcome \/ ~[Next]_vars
      BY RunsItsOperation DEF Next, Land, DeployInTest, vars
    <2> QED
      BY <2>1, InTimeGoesThrough DEF ThrowsOnlyLate
  <1> QED
    BY <1>1, <1>2, TextHoldsOnChain, AnswersAreFreshOrStale, PTL DEF Spec
=============================================================================
