-------------------------- MODULE ControllerProofs --------------------------
(***************************************************************************)
(* The Controller's arrays and mappings agree, and so do resources and      *)
(* their ids, if the arrays it is initialized with list nothing twice.      *)
(***************************************************************************)
EXTENDS Controller, LibraryProofs, TLAPS

NoInitialDuplicates == \A L \in InitialLists : ~hasDuplicate(L)

\* One array and its mapping.
Agree(L, S) ==
    /\ L \in Seq(Address) /\ S \subseteq Address
    /\ ~hasDuplicate(L)
    /\ \A x : contains(L, x) <=> x \in S

Lists ==
    /\ DOMAIN list = Kind /\ DOMAIN enabled = Kind
    /\ \A k \in Kind : Agree(list[k], enabled[k])

\* Inductive: nothing is registered before the initialization.
IInv ==
    /\ Lists
    /\ resourceId \in [ResourceId -> Address \union {Null}]
    /\ ResourceIdsExact

-----------------------------------------------------------------------------
LEMMA EnlistStep ==
    ASSUME Lists, NEW k \in Kind, NEW a \in Address, Enlist(k, a)
    PROVE  Lists'
<1>1. Agree(list[k], enabled[k]) /\ a \notin enabled[k]
  BY DEF Lists, Enlist
<1>2. ~contains(list[k], a)
  BY <1>1 DEF Agree
<1>3. /\ Append(list[k], a) \in Seq(Address)
      /\ ~hasDuplicate(Append(list[k], a))
      /\ \A x : contains(Append(list[k], a), x) <=> contains(list[k], x) \/ x = a
  BY <1>1, <1>2, AppendNew DEF Agree
<1>4. Agree(Append(list[k], a), enabled[k] \union {a})
  BY <1>1, <1>3 DEF Agree
<1>5. /\ DOMAIN list' = Kind /\ DOMAIN enabled' = Kind
      /\ list'[k] = Append(list[k], a) /\ enabled'[k] = enabled[k] \union {a}
      /\ \A j \in Kind : j # k => list'[j] = list[j] /\ enabled'[j] = enabled[j]
  BY DEF Lists, Enlist
<1> QED  BY <1>4, <1>5 DEF Lists

\* The arrays after an entry is removed from one.
LEMMA DelistStep ==
    ASSUME Lists, NEW k \in Kind, NEW a \in enabled[k],
           enabled' = [enabled EXCEPT ![k] = @ \ {a}],
           list' = [list EXCEPT ![k] = Delisted(k, a)]
    PROVE  Lists'
<1>1. Agree(list[k], enabled[k]) /\ contains(list[k], a)
  BY DEF Lists, Agree
<1>2. /\ remove(list[k], a) \in Seq(Address)
      /\ ~hasDuplicate(remove(list[k], a))
      /\ \A x : contains(remove(list[k], a), x) <=> contains(list[k], x) /\ x # a
  BY <1>1, RemoveMemory DEF Agree
<1>3. Agree(remove(list[k], a), enabled[k] \ {a})
  BY <1>1, <1>2 DEF Agree
<1>4. /\ DOMAIN list' = Kind /\ DOMAIN enabled' = Kind
      /\ list'[k] = remove(list[k], a) /\ enabled'[k] = enabled[k] \ {a}
      /\ \A j \in Kind : j # k => list'[j] = list[j] /\ enabled'[j] = enabled[j]
  BY DEF Lists, Delisted
<1> QED  BY <1>3, <1>4 DEF Lists

LEMMA InitializeStep ==
    ASSUME NoInitialDuplicates, IInv, InitializeNext
    PROVE  IInv'
<1>1. PICK factories \in InitialLists, modules \in InitialLists,
           resources \in InitialLists, ids \in InitialIds :
             Initialize(factories, modules, resources, ids)
  BY DEF InitializeNext
<1>2. /\ list' = [list EXCEPT !["factory"] = factories, !["module"] = modules,
                              !["resource"] = resources]
      /\ enabled' = [k \in Kind |-> {a \in Address : contains(list'[k], a)}]
      /\ Len(resources) = Len(ids) /\ ~hasDuplicate(ids)
  BY <1>1 DEF Initialize
<1>3. /\ factories \in Seq(Address) /\ modules \in Seq(Address)
      /\ resources \in Seq(Address) /\ ids \in Seq(ResourceId)
      /\ ~hasDuplicate(factories) /\ ~hasDuplicate(modules) /\ ~hasDuplicate(resources)
  BY ControllerAssumption DEF NoInitialDuplicates
<1>4. Lists'
  <2>1. ASSUME NEW L \in Seq(Address), ~hasDuplicate(L)
        PROVE  Agree(L, {a \in Address : contains(L, a)})
    BY <2>1, DomainIsRange DEF Agree, contains
  <2>2. /\ DOMAIN list' = Kind
        /\ list'["CK"] = list["CK"]
        /\ list'["factory"] = factories /\ list'["module"] = modules
        /\ list'["resource"] = resources
    BY <1>2 DEF IInv, Lists, Kind
  <2>3. list["CK"] \in Seq(Address) /\ ~hasDuplicate(list["CK"])
    BY DEF IInv, Lists, Agree, Kind
  <2>4. ASSUME NEW k \in Kind
        PROVE  Agree(list'[k], {a \in Address : contains(list'[k], a)})
    BY <1>3, <2>1, <2>2, <2>3 DEF Kind
  <2> QED  BY <1>2, <2>2, <2>4 DEF Lists
<1>5. /\ Len(ids) \in Nat
      /\ DOMAIN ids = 1 .. Len(ids) /\ DOMAIN resources = 1 .. Len(ids)
      /\ \A i \in 1 .. Len(ids) : ids[i] \in ResourceId /\ resources[i] \in Address
  BY <1>2, <1>3, DomainIsRange
<1>6. \A id \in ResourceId : contains(ids, id) =>
        indexOf(ids, id) \in 1 .. Len(ids) /\ ids[indexOf(ids, id)] = id
  BY <1>2, <1>3, IndexOfElement
<1>7. \A id \in ResourceId :
        resourceId'[id] = IF contains(ids, id) THEN resources[indexOf(ids, id)] ELSE Null
  BY <1>1 DEF Initialize
<1>8. resourceId' \in [ResourceId -> Address \union {Null}]
  BY <1>1, <1>5, <1>6 DEF Initialize
<1>9. enabled'["resource"] = {a \in Address : contains(resources, a)}
  BY <1>2 DEF IInv, Lists, Kind
<1>10. ResourceIdsExact'
  <2>1. ASSUME NEW id \in ResourceId, resourceId'[id] # Null
        PROVE  /\ contains(ids, id) /\ resourceId'[id] = resources[indexOf(ids, id)]
               /\ resourceId'[id] \in enabled'["resource"]
    <3>1. contains(ids, id) /\ resourceId'[id] = resources[indexOf(ids, id)]
      BY <1>7, <2>1
    <3> QED  BY <1>5, <1>6, <1>9, <3>1 DEF contains
  <2>2. ASSUME NEW r \in enabled'["resource"]
        PROVE  \E id \in ResourceId : resourceId'[id] = r
    <3>1. PICK i \in 1 .. Len(ids) : resources[i] = r
      BY <1>5, <1>9 DEF contains
    <3>2. contains(ids, ids[i]) /\ ids[i] \in ResourceId
      BY <1>5 DEF contains
    <3>3. indexOf(ids, ids[i]) = i
      BY <1>2, <1>5, <1>6, <3>2 DEF hasDuplicate
    <3> QED  BY <1>7, <3>1, <3>2, <3>3
  <2>3. ASSUME NEW id \in ResourceId, NEW other \in ResourceId,
               resourceId'[id] = resourceId'[other], resourceId'[id] # Null
        PROVE  id = other
    <3> DEFINE i == indexOf(ids, id)
               j == indexOf(ids, other)
    <3>1. resources[i] = resources[j] /\ i \in 1 .. Len(ids) /\ j \in 1 .. Len(ids)
          /\ ids[i] = id /\ ids[j] = other
      BY <1>6, <2>1, <2>3
    <3> HIDE DEF i, j
    <3>2. i = j
      BY <1>3, <1>5, <3>1 DEF hasDuplicate
    <3> QED  BY <3>1, <3>2
  <2> QED  BY <2>1, <2>2, <2>3 DEF ResourceIdsExact
<1> QED  BY <1>4, <1>8, <1>10 DEF IInv

LEMMA RegistryStep ==
    ASSUME IInv, [RegistryNext]_controllerVars
    PROVE  IInv'
<1>1. ASSUME Lists', UNCHANGED resourceId, enabled'["resource"] = enabled["resource"]
      PROVE  IInv'
  BY <1>1 DEF IInv, ResourceIdsExact
<1>2. Lists /\ \A k \in Kind : enabled[k] \subseteq Address
  BY DEF IInv, Lists, Agree
<1>3. ASSUME NEW k \in Kind \ {"resource"}, NEW a \in Address, Enlist(k, a),
             UNCHANGED resourceId
      PROVE  IInv'
  <2>1. Lists'
    BY <1>2, <1>3, EnlistStep
  <2>2. enabled'["resource"] = enabled["resource"]
    BY <1>2, <1>3 DEF Enlist, Lists, Kind
  <2> QED  BY <1>1, <1>3, <2>1, <2>2
<1>4. ASSUME NEW k \in Kind \ {"resource"}, NEW a \in Address, Delist(k, a),
             UNCHANGED resourceId
      PROVE  IInv'
  <2>1. Lists'
    BY <1>2, <1>4, DelistStep DEF Delist
  <2>2. enabled'["resource"] = enabled["resource"]
    BY <1>2, <1>4 DEF Delist, Lists, Kind
  <2> QED  BY <1>1, <1>4, <2>1, <2>2
<1>5. {"CK", "factory", "module"} \subseteq Kind \ {"resource"} /\ "resource" \in Kind
  BY DEF Kind
<1>6. ASSUME NEW a \in Address, NEW id \in ResourceId, AddResource(a, id)
      PROVE  IInv'
  <2>1. Lists'
    BY <1>2, <1>5, <1>6, EnlistStep DEF AddResource
  <2>2. /\ resourceId' = [resourceId EXCEPT ![id] = a] /\ resourceId[id] = Null
        /\ a \notin enabled["resource"]
        /\ enabled'["resource"] = enabled["resource"] \union {a}
    BY <1>2, <1>5, <1>6 DEF AddResource, IsFree, Enlist, Lists
  <2>3. a # Null
    BY ControllerAssumption
  <2>4. /\ resourceId' \in [ResourceId -> Address \union {Null}]
        /\ \A i \in ResourceId : resourceId'[i] = IF i = id THEN a ELSE resourceId[i]
    BY <2>2 DEF IInv
  <2>5. \A i \in ResourceId : resourceId[i] # a
    BY <2>2, <2>3 DEF IInv, ResourceIdsExact
  <2>6. \A i \in ResourceId : resourceId'[i] # Null => resourceId'[i] \in enabled'["resource"]
    BY <2>2, <2>4 DEF IInv, ResourceIdsExact
  <2>7. \A r \in enabled'["resource"] : \E i \in ResourceId : resourceId'[i] = r
    <3> SUFFICES ASSUME NEW r \in enabled'["resource"]
                 PROVE  \E i \in ResourceId : resourceId'[i] = r
      OBVIOUS
    <3>1. CASE r = a
      BY <3>1, <2>4
    <3>2. CASE r # a
      <4>1. PICK i \in ResourceId : resourceId[i] = r
        BY <3>2, <2>2 DEF IInv, ResourceIdsExact
      <4>2. r # Null
        BY <1>2, <1>5, <3>2, <2>2, ControllerAssumption DEF Lists, Agree
      <4> QED  BY <4>1, <4>2, <2>2, <2>4
    <3> QED  BY <3>1, <3>2
  <2>8. \A i, other \in ResourceId :
          resourceId'[i] = resourceId'[other] /\ resourceId'[i] # Null => i = other
    BY <2>4, <2>5 DEF IInv, ResourceIdsExact
  <2> QED  BY <2>1, <2>4, <2>6, <2>7, <2>8 DEF IInv, ResourceIdsExact
<1>7. ASSUME NEW id \in ResourceId, RemoveResource(id)
      PROVE  IInv'
  <2> DEFINE r == resourceId[id]
  <2>1. r \in enabled["resource"]
    BY <1>7 DEF RemoveResource, IInv, ResourceIdsExact
  <2>2. Lists'
    BY <1>2, <1>5, <1>7, <2>1, DelistStep DEF RemoveResource
  <2>3. /\ resourceId' = [resourceId EXCEPT ![id] = Null] /\ r # Null
        /\ enabled'["resource"] = enabled["resource"] \ {r}
    BY <1>2, <1>5, <1>7 DEF RemoveResource, Lists
  <2> QED  BY <2>1, <2>2, <2>3 DEF IInv, ResourceIdsExact
<1>8. ASSUME NEW m \in Address, NEW new, AddFee(m, new) \/ EditFee(m, new)
      PROVE  IInv'
  BY <1>8 DEF AddFee, EditFee, IInv, Lists, ResourceIdsExact
<1>9. CASE UNCHANGED controllerVars
  BY <1>9 DEF controllerVars, IInv, Lists, ResourceIdsExact
<1> QED
  BY <1>3, <1>4, <1>5, <1>6, <1>7, <1>8, <1>9
  DEF RegistryNext, AddCK, RemoveCK, AddFactory, RemoveFactory, AddModule, RemoveModule

-----------------------------------------------------------------------------
LEMMA ControllerInit ==
    ASSUME Init
    PROVE  IInv
<1>1. Agree(<<>>, {})
  BY DEF Agree, hasDuplicate, contains
<1>2. Lists
  BY <1>1 DEF Init, Lists
<1> QED  BY <1>2 DEF Init, IInv, ResourceIdsExact, Kind

\* The Controller's arrays list exactly what is enabled, each once, and resource ids
\* find exactly the enabled resources, through every order of governance calls and
\* creations, if the arrays given to initialize are free of duplicates.
THEOREM RegistriesAgree ==
    ASSUME NoInitialDuplicates
    PROVE  Spec => []LookupsExact
<1>1. Init => IInv
  BY ControllerInit
<1>2. IInv /\ [Next]_controllerVars => IInv'
  BY InitializeStep, RegistryStep DEF Next
<1>3. IInv => LookupsExact
  BY DomainIsRange
  DEF IInv, Lists, LookupsExact, ResourceIdsExact, Agree, RegistriesExact, ListedIsEnabled, contains
<1> QED  BY <1>1, <1>2, <1>3, PTL DEF Spec
=============================================================================
