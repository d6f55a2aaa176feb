----------------------------- MODULE ProgramText -----------------------------
(***************************************************************************)
(* What the text of a program of Fixtures promises, before it runs: every  *)
(* field is assigned before it is read, holds the kind of contract that it *)
(* is passed for, and what is read back from the chain is read by the next *)
(* statement.  The programs have no branches, so that a statement knows    *)
(* what stands before it; it does not know when the calls that are not     *)
(* awaited land, nor what the node's clock says.                           *)
(***************************************************************************)
EXTENDS Bringup

Statement == [op : STRING, handle : STRING, contract : STRING, args : Seq(STRING),
              uses : SUBSET STRING]

Roles == {Outside[i] : i \in DOMAIN Outside}

Assigning == {"deploy", "deployUni", "proxy", "readCreated", "readPair"}

Assigns(s, h) == s.op \in Assigning /\ s.handle = h

\* Before statement i of program p, h has a value.
AssignedBefore(p, i, h) == h \in Roles \/ \E j \in 1 .. i - 1 : Assigns(p[j], h)

\* From statement j to i, i not included, none assigns h.
Keeps(p, j, i, h) == \A k \in j .. i - 1 : ~Assigns(p[k], h)

KindAssigned(s) ==
    CASE s.op = "readCreated" -> "CKToken"
      [] s.op = "readPair"    -> "UniswapV2Pair"
      [] OTHER                -> s.contract

\* Before statement i, what h names is of one of the kinds.
HoldsOneOf(p, i, h, kinds) ==
    \/ h \in Roles /\ Keeps(p, 1, i, h) /\ KindOfOutside(h) \in kinds
    \/ \E j \in 1 .. i - 1 :
         Assigns(p[j], h) /\ Keeps(p, j + 1, i, h) /\ KindAssigned(p[j]) \in kinds

-----------------------------------------------------------------------------
(* Constructors *)

\* The handles whose addresses reach the constructor.
NamesPassed(s) == PassedOn(DeployHelper[s.contract], s.args)

\* Deployed before statement i with what these handles name, a contract has what
\* its constructor asks for.
Fits(p, i, kind, names) ==
    kind \in DOMAIN Parameters =>
        /\ Len(names) = Len(Parameters[kind])
        /\ \A k \in DOMAIN names : HoldsOneOf(p, i, names[k], Stands(Parameters[kind][k]))

DeploysWhatFits(p, i) ==
    LET s == p[i] IN
    /\ s.op \in {"deploy", "deployUni"} =>
         /\ s.contract \in DOMAIN DeployHelper
         /\ DOMAIN s.args = DOMAIN DeployHelper[s.contract].takes
         /\ TakesAll(s.contract)
         /\ Fits(p, i, s.contract, NamesPassed(s))
    /\ s.op = "proxy" => Fits(p, i, s.contract, <<>>)
    /\ s.op = "createPair" => Fits(p, i, "UniswapV2Pair", <<>>)
    /\ s.op = "create" =>
         /\ \A h \in {"controller", "owner"} : AssignedBefore(p, i, h)
         /\ Fits(p, i, "CKToken", <<"controller", "owner">>)

\* The same for what a test deploys when the program is done.
TestsDeployWhatFits(p) ==
    \A contract \in DOMAIN DeployHelper :
        LET helper == DeployHelper[contract] IN
        TakesAll(contract)
          /\ (\A k \in DOMAIN helper.takes : AssignedBefore(p, Len(p) + 1, helper.takes[k]))
          => Fits(p, Len(p) + 1, contract, helper.passes)

-----------------------------------------------------------------------------
(* Listings and resources *)

\* The parameter in which a market's constructor takes its comptroller.
asks(kind) == IF kind = "CEther" THEN 1 ELSE 2

\* A market is supported by the comptroller that it was deployed with.
SupportsItsMarket(p, i) ==
    p[i].op = "support" =>
        \E j \in 1 .. i - 1 :
            /\ p[j].op = "deploy" /\ p[j].handle = p[i].args[1]
            /\ Keeps(p, j + 1, i, p[i].args[1]) /\ Keeps(p, j, i, "comptroller")
            /\ asks(p[j].contract) \in DOMAIN NamesPassed(p[j])
            /\ NamesPassed(p[j])[asks(p[j].contract)] = "comptroller"

\* The fields that the controller is initialized with keep their contracts.
InitializesForGood(p, i) ==
    p[i].op = "initialize" =>
        /\ 5 .. 7 \subseteq DOMAIN p[i].args
        /\ p[i].args[5] = "integrationRegistry" /\ p[i].args[6] = "priceOracle"
        /\ p[i].args[7] = "ckValuer"
        /\ \A id \in 5 .. 7 : Keeps(p, i + 1, Len(p) + 1, p[i].args[id])

Enables(s, h) ==
    \/ s.op = "addModule" /\ s.args[1] = h
    \/ s.op = "initialize" /\ \E m \in 2 .. 4 : s.args[m] = h

\* Statement j has enabled what h names before i, and nothing has started over since.
EnabledSince(p, j, i, h) ==
    /\ Enables(p[j], h) /\ Keeps(p, j, i, h)
    /\ \A k \in j + 1 .. i - 1 : p[k].op # "initialize"

\* Each module of a new CKToken has been added to the controller.
EnablesItsModules(p, i) ==
    p[i].op = "create" =>
        \A k \in DOMAIN p[i].args : \E j \in 1 .. i - 1 : EnabledSince(p, j, i, p[i].args[k])

-----------------------------------------------------------------------------
(* Every statement *)

\* The operations of Advance.
Operations ==
    {"deploy", "send", "unawaited", "proxy", "initialize", "addModule", "create", "readCreated",
     "support", "readTime", "queue", "increaseTime", "execute", "deployUni", "createPair",
     "readPair"}

ReadsWhatIsAssigned(p, i) ==
    /\ p[i].op \in Operations
    /\ \A h \in p[i].uses : AssignedBefore(p, i, h)
    /\ \A k \in DOMAIN p[i].args : AssignedBefore(p, i, p[i].args[k])

WellFormed(p, i) ==
    /\ ReadsWhatIsAssigned(p, i) /\ DeploysWhatFits(p, i) /\ SupportsItsMarket(p, i)
    /\ InitializesForGood(p, i) /\ EnablesItsModules(p, i)

-----------------------------------------------------------------------------
(* What relies on the statement before it *)

Follows(p, i, op) == i > 1 /\ p[i - 1].op = op

\* What relies on the latest block, or on the last call, comes right after it.
ReadsAtOnce(p, i) ==
    LET op == p[i].op IN
    /\ op = "readCreated" => Follows(p, i, "create")
    /\ op = "readPair" => Follows(p, i, "createPair")
    /\ op \in {"queue", "deployUni"} => Follows(p, i, "readTime")
    /\ op = "increaseTime" => Follows(p, i, "queue")
    /\ op = "execute" => Follows(p, i, "increaseTime")

-----------------------------------------------------------------------------
(* What TLC evaluates, of the four programs and of the tables as they are *)

ASSUME ProgramsAssumption ==
    /\ Programs \subseteq Seq(Statement)
    /\ \A p \in Programs : /\ \A i \in 1 .. Len(p) : WellFormed(p, i)
                           /\ TestsDeployWhatFits(p)

\* No role that exists from the start is a contract that is deployed, and a
\* helper passes on only what it takes.
ASSUME TablesAssumption ==
    /\ Outside \in Seq(STRING)
    /\ \A role \in Roles : KindOfOutside(role) \in STRING \ DOMAIN Parameters
    /\ \A kind \in DOMAIN Parameters : Parameters[kind] \in Seq(STRING)
    /\ \A contract \in DOMAIN DeployHelper :
         LET helper == DeployHelper[contract] IN
         /\ contract \in STRING
         /\ helper \in [takes : Seq(STRING), passes : Seq(STRING)]
         /\ \A k \in DOMAIN helper.passes :
              \E j \in DOMAIN helper.takes : helper.takes[j] = helper.passes[k]

\* Nothing that the hook waits for stands between a call and what relies on it.
ASSUME AtOnceAssumption == \A p \in Programs : \A i \in 1 .. Len(p) : ReadsAtOnce(p, i)
=============================================================================
