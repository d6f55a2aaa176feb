----------------------------- MODULE Controller -----------------------------
(***************************************************************************)
(* protocol/Controller.sol: what governance and the factories enable, kept  *)
(* for each kind of contract in an array, for readers, and in a mapping,    *)
(* for the guards of every other contract.  Resources have an id as well.   *)
(***************************************************************************)
EXTENDS AddressArrayUtils

CONSTANTS
    Address,        \* contracts
    ResourceId,
    Null,           \* address(0)
    FeePercentage,
    InitialLists,   \* arrays governance may initialize with
    InitialIds

ASSUME ControllerAssumption ==
    /\ Null \notin Address
    /\ InitialLists \subseteq Seq(Address)
    /\ InitialIds \subseteq Seq(ResourceId)
    /\ 0 \in FeePercentage

Kind == {"CK", "factory", "module", "resource"}

VARIABLES
    isInitialized,
    list,           \* cks, factories, modules, resources
    enabled,        \* isCK, isFactory, isModule, isResource
    resourceId,
    fee             \* fees, of one fee type

controllerVars == <<isInitialized, list, enabled, resourceId, fee>>

Init ==
    /\ isInitialized = FALSE
    /\ list = [k \in Kind |-> <<>>]
    /\ enabled = [k \in Kind |-> {}]
    /\ resourceId = [id \in ResourceId |-> Null]
    /\ fee = [m \in Address |-> 0]

-----------------------------------------------------------------------------
\* ids gives the resources' ids in order; one that is taken reverts.
Initialize(factories, modules, resources, ids) ==
    /\ ~isInitialized
    /\ Len(resources) = Len(ids) /\ ~hasDuplicate(ids)
    /\ list' = [list EXCEPT !["factory"] = factories, !["module"] = modules,
                            !["resource"] = resources]
    /\ enabled' = [k \in Kind |-> {a \in Address : contains(list'[k], a)}]
    /\ resourceId' = [id \in ResourceId |->
                        IF contains(ids, id) THEN resources[indexOf(ids, id)] ELSE Null]
    /\ isInitialized' = TRUE
    /\ UNCHANGED fee

Enlist(k, a) ==
    /\ isInitialized
    /\ a \notin enabled[k]
    /\ enabled' = [enabled EXCEPT ![k] = @ \union {a}]
    /\ list' = [list EXCEPT ![k] = Append(@, a)]
    /\ UNCHANGED <<isInitialized, fee>>

\* An array that does not contain the address reverts.
Delisted(k, a) == remove(list[k], a)

Delist(k, a) ==
    /\ isInitialized
    /\ a \in enabled[k] /\ contains(list[k], a)
    /\ enabled' = [enabled EXCEPT ![k] = @ \ {a}]
    /\ list' = [list EXCEPT ![k] = Delisted(k, a)]
    /\ UNCHANGED <<isInitialized, fee>>

-----------------------------------------------------------------------------
\* A factory registers a token that it created.
AddCK(factory, ck) ==
    factory \in enabled["factory"] /\ Enlist("CK", ck) /\ UNCHANGED resourceId

RemoveCK(ck) == Delist("CK", ck) /\ UNCHANGED resourceId

AddFactory(f)    == Enlist("factory", f) /\ UNCHANGED resourceId
RemoveFactory(f) == Delist("factory", f) /\ UNCHANGED resourceId

AddModule(m)    == Enlist("module", m) /\ UNCHANGED resourceId
RemoveModule(m) == Delist("module", m) /\ UNCHANGED resourceId

\* Mutant: an id is taken over from another resource.
IsFree_Always(id) == TRUE

IsFree(id) == resourceId[id] = Null

AddResource(r, id) ==
    /\ IsFree(id)
    /\ Enlist("resource", r)
    /\ resourceId' = [resourceId EXCEPT ![id] = r]

RemoveResource(id) ==
    /\ resourceId[id] # Null
    /\ contains(list["resource"], resourceId[id])
    /\ isInitialized
    /\ enabled' = [enabled EXCEPT !["resource"] = @ \ {resourceId[id]}]
    /\ list' = [list EXCEPT !["resource"] = Delisted("resource", resourceId[id])]
    /\ resourceId' = [resourceId EXCEPT ![id] = Null]
    /\ UNCHANGED <<isInitialized, fee>>

\* addFee starts from zero, editFee from anything else.
AddFee(m, new) ==
    /\ isInitialized /\ m \in enabled["module"]
    /\ fee[m] = 0
    /\ fee' = [fee EXCEPT ![m] = new]
    /\ UNCHANGED <<isInitialized, list, enabled, resourceId>>

EditFee(m, new) ==
    /\ isInitialized /\ m \in enabled["module"]
    /\ fee[m] # 0
    /\ fee' = [fee EXCEPT ![m] = new]
    /\ UNCHANGED <<isInitialized, list, enabled, resourceId>>

-----------------------------------------------------------------------------
InitializeNext ==
    \E factories, modules, resources \in InitialLists, ids \in InitialIds :
        Initialize(factories, modules, resources, ids)

RegistryNext ==
    \/ \E a \in Address :
         \/ \E f \in Address : AddCK(f, a)
         \/ RemoveCK(a)
         \/ AddFactory(a) \/ RemoveFactory(a)
         \/ AddModule(a) \/ RemoveModule(a)
         \/ \E id \in ResourceId : AddResource(a, id)
         \/ \E new \in FeePercentage : AddFee(a, new) \/ EditFee(a, new)
    \/ \E id \in ResourceId : RemoveResource(id)

Next == InitializeNext \/ RegistryNext

Spec == Init /\ [][Next]_controllerVars

-----------------------------------------------------------------------------
\* "List of enabled CKs", "... factories", "... Modules", "... Resources": the
\* arrays that getModules and the other getters return list what is enabled.
ListedIsEnabled ==
    \A k \in Kind : \A i \in DOMAIN list[k] : list[k][i] \in enabled[k]

\* Each array lists what its mapping enables, once, so that what is enabled can be
\* removed (remove reverts on an address it does not find) and is removed for good.
RegistriesExact ==
    /\ ListedIsEnabled
    /\ \A k \in Kind : ~hasDuplicate(list[k]) /\ \A a \in enabled[k] : contains(list[k], a)

\* Every enabled resource is found under one id, and an id finds nothing else: a
\* removed price oracle or integration registry is not asked any more.
ResourceIdsExact ==
    /\ \A id \in ResourceId : resourceId[id] # Null => resourceId[id] \in enabled["resource"]
    /\ \A r \in enabled["resource"] : \E id \in ResourceId : resourceId[id] = r
    /\ \A id, other \in ResourceId :
         resourceId[id] = resourceId[other] /\ resourceId[id] # Null => id = other

\* Everything that is enabled is found, by its array and by its id, and nothing
\* else is.
LookupsExact == RegistriesExact /\ ResourceIdsExact
=============================================================================
