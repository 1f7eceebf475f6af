------------------------- MODULE ServiceShardProofs -------------------------
(***************************************************************************)
(* Proofs about ServiceShard.  The inductive invariant says of every       *)
(* service that can be held, and of every one that can be loaded, that it  *)
(* is Good: complete for its document, resolved in it, and with the        *)
(* references that the layout alone determines.  What a call returns       *)
(* follows from it, whatever calls went before.                            *)
(***************************************************************************)
EXTENDS ServiceShard, TLAPS

(* What loading makes of a service, under the given layout.                *)
Good(svc) ==
  /\ svc \in Service
  /\ svc # NoService
  /\ svc.kind = IF ~layout.resourcesRef /\ layout.protocol = "local_templated"
                THEN "local" ELSE "openapi"
  /\ IF layout.resourcesRef THEN IsFragment(svc) ELSE IsWhole(svc)
  /\ svc.doc \in Docs
  /\ svc.kind = "openapi" => svc.rsc \subseteq layout.paths[svc.doc]
  /\ svc.config = (svc.kind = "openapi" /\ ~layout.resourcesRef)
  /\ svc.methodProvider = FALSE

(* The levels every method reaches, and the one its setting comes from.    *)
Reach ==
  {"method", "resource"}
    \cup (IF ~layout.resourcesRef /\ layout.protocol = "http" THEN {"service"} ELSE {})
Found == (layout.declared \cap Reach) \cup {"default"}
Policy == CHOOSE l \in Found : \A m \in Found : Rank[l] <= Rank[m]

IInv ==
  /\ TypeOK
  /\ refValue # NoService => Good(refValue)
  /\ openapi # NoService =>
       IsWhole(openapi) \/ (layout.resourcesRef /\ IsFragment(openapi))
  /\ ShardFitsResource
  /\ RequestsAreIndependent
  /\ \A r \in Resources : settled[r] \in {"unknown", Policy}

(* The nearest level exists, for there are six.                            *)
LEMMA NearestExists ==
  ASSUME NEW S \in SUBSET (Level \cup {"default"}), "default" \in S
  PROVE  \E l \in S : \A m \in S : Rank[l] <= Rank[m]
<1> DEFINE Least(l) == l \in S /\ \A m \in S : Rank[l] <= Rank[m]
<1>1. CASE "method" \in S
  <2>1. Least("method")
    BY <1>1 DEF Rank, Level
  <2> QED
    BY <2>1
<1>2. CASE "method" \notin S /\ "resource" \in S
  <2>1. Least("resource")
    BY <1>2 DEF Rank, Level
  <2> QED
    BY <2>1
<1>3. CASE "method" \notin S /\ "resource" \notin S /\ "service" \in S
  <2>1. Least("service")
    BY <1>3 DEF Rank, Level
  <2> QED
    BY <2>1
<1>4. CASE {"method", "resource", "service"} \cap S = {} /\ "providerService" \in S
  <2>1. Least("providerService")
    BY <1>4 DEF Rank, Level
  <2> QED
    BY <2>1
<1>5. CASE {"method", "resource", "service", "providerService"} \cap S = {}
           /\ "provider" \in S
  <2>1. Least("provider")
    BY <1>5 DEF Rank, Level
  <2> QED
    BY <2>1
<1>6. CASE S = {"default"}
  BY <1>6 DEF Rank
<1> QED
  BY <1>1, <1>2, <1>3, <1>4, <1>5, <1>6 DEF Level

LEMMA PolicyIsNearest ==
  ASSUME layout \in Layout
  PROVE  /\ Policy \in Found
         /\ \A m \in Found : Rank[Policy] <= Rank[m]
         /\ Policy \in Level \cup {"default"}
<1>1. Found \in SUBSET (Level \cup {"default"}) /\ "default" \in Found
  BY DEF Layout, Found, Reach, Level
<1>2. \E l \in Found : \A m \in Found : Rank[l] <= Rank[m]
  BY <1>1, NearestExists
<1> QED
  BY <1>1, <1>2 DEF Policy

(* The methods of a service that is Good have their setting from Policy.   *)
LEMMA GoodPolicy ==
  ASSUME layout \in Layout, NEW svc, Good(svc)
  PROVE  GetRetryPolicy(svc) = Policy
<1>1. Reached(svc) = Reach
  BY DEF Good, Reached, Reach, Layout, Service
<1> QED
  BY <1>1 DEF GetRetryPolicy, Policy, Found

(* The scope of a fragment is the set of its peers.                        *)
LEMMA ScopeIsPeers ==
  ASSUME layout \in Layout, NEW key \in layout.register
  PROVE  /\ Scope(key) = Peers(key)
         /\ getServiceDocRef(key) = Home(key)
         /\ ObtainServiceDocUrl(key) = NoDoc <=> Named(key) = {}
         /\ Peers(key) \subseteq Resources
         /\ Home(key) \in Docs \cup {NoDoc}
<1>1. layout.register \subseteq Resources /\ key \in Resources
  BY DEF Layout
<1>2. \A r \in Resources :
        /\ ObtainServiceDocUrl(r) = NoDoc <=> Named(r) = {}
        /\ Named(r) # {} => ObtainServiceDocUrl(r) = Home(r)
        /\ Home(r) \in Docs \cup {NoDoc}
        /\ getServiceDocRef(r) = Home(r)
  BY KeysAssumption DEF Layout, ObtainServiceDocUrl, Named, Home, getServiceDocRef
<1>3. \A r \in layout.register : r \in Scope(key) <=> r \in Peers(key)
  BY <1>1, <1>2 DEF Scope, Peers
<1> QED
  BY <1>1, <1>2, <1>3 DEF Scope, Peers

(* Merging gives at most one service, which has the resources.             *)
LEMMA MergeGives ==
  ASSUME layout \in Layout, NEW d \in Docs, NEW rscs \in SUBSET Resources,
         NEW svc \in mergeResources(NewService(d), rscs)
  PROVE  /\ svc = [kind |-> "openapi", doc |-> d, rsc |-> rscs, config |-> FALSE,
                   provider |-> FALSE, methodProvider |-> FALSE]
         /\ rscs \subseteq layout.paths[d]
  BY DEF mergeResources, NewService, NoService

(* The service that its document lists.                                    *)
LEMMA WholeLoads ==
  ASSUME layout \in Layout, NEW docRead \in BOOLEAN,
         NEW svc \in RegistryGetService(docRead)
  PROVE  /\ layout.serviceRef \in Docs /\ docRead
         /\ svc \in Service /\ IsWhole(svc) /\ svc.methodProvider = FALSE
         /\ svc.kind = IF layout.protocol = "local_templated" THEN "local" ELSE "openapi"
         /\ svc.config = (svc.kind = "openapi")
         /\ svc.kind = "openapi" => svc.rsc \subseteq layout.paths[svc.doc]
<1>1. layout.serviceRef \in Docs /\ docRead
  BY DEF RegistryGetService, Layout
<1>2. layout.listed[layout.serviceRef] \in SUBSET Resources
  BY <1>1 DEF Layout
<1>3. svc \in LoadServiceDocFromBytes(layout.serviceRef)
  BY <1>1 DEF RegistryGetService
<1>4. CASE layout.protocol = "local_templated"
  <2>1. svc = [kind |-> "local", doc |-> layout.serviceRef,
               rsc |-> layout.listed[layout.serviceRef], config |-> FALSE,
               provider |-> FALSE, methodProvider |-> FALSE]
    BY <1>3, <1>4 DEF LoadServiceDocFromBytes, NewService, NoService
  <2> QED
    BY <1>1, <1>2, <1>4, <2>1, KeysAssumption DEF Service, NoService, IsWhole
<1>5. CASE layout.protocol # "local_templated"
  <2>1. PICK s \in mergeResources(NewService(layout.serviceRef), layout.listed[layout.serviceRef]) :
          svc = [setProvider(s) EXCEPT !.config = TRUE]
    BY <1>3, <1>5 DEF LoadServiceDocFromBytes
  <2>2. /\ s = [kind |-> "openapi", doc |-> layout.serviceRef,
                rsc |-> layout.listed[layout.serviceRef], config |-> FALSE,
                provider |-> FALSE, methodProvider |-> FALSE]
        /\ layout.listed[layout.serviceRef] \subseteq layout.paths[layout.serviceRef]
    BY <1>1, <1>2, <2>1, MergeGives
  <2>3. svc = [kind |-> "openapi", doc |-> layout.serviceRef,
               rsc |-> layout.listed[layout.serviceRef], config |-> TRUE,
               provider |-> TRUE, methodProvider |-> FALSE]
    BY <2>1, <2>2 DEF setProvider
  <2> QED
    BY <1>1, <1>2, <1>5, <2>2, <2>3, KeysAssumption DEF Service, NoService, IsWhole
<1> QED
  BY <1>1, <1>4, <1>5

(* Everything that is loaded as a whole, or returned for a key, is Good.   *)
LEMMA WholeIsGood ==
  ASSUME layout \in Layout, ~layout.resourcesRef, NEW docRead \in BOOLEAN,
         NEW svc \in RegistryGetService(docRead)
  PROVE  Good(svc) /\ layout.serviceRef # NoDoc /\ docRead
<1>1. /\ layout.serviceRef \in Docs /\ docRead
      /\ svc \in Service /\ IsWhole(svc) /\ svc.methodProvider = FALSE
      /\ svc.kind = IF layout.protocol = "local_templated" THEN "local" ELSE "openapi"
      /\ svc.config = (svc.kind = "openapi")
      /\ svc.kind = "openapi" => svc.rsc \subseteq layout.paths[svc.doc]
  BY WholeLoads
<1>2. svc # NoService /\ svc.doc \in Docs
  BY <1>1 DEF IsWhole, NoService
<1> QED
  BY <1>1, <1>2, KeysAssumption DEF Good

LEMMA FragmentIsGood ==
  ASSUME IInv, NEW key \in Key, NEW regRead \in BOOLEAN, NEW docRead \in BOOLEAN,
         NEW svc \in RegistryGetServiceFragment(key, regRead, docRead)
  PROVE  /\ Good(svc)
         /\ layout.resourcesRef =>
              /\ regRead /\ key \in layout.register /\ Home(key) # NoDoc
              /\ \/ HeldByReference(key) /\ svc = refValue
                 \/ ~HeldByReference(key) /\ docRead /\ svc.doc = Home(key)
                    /\ svc.rsc = Peers(key)
         /\ ~layout.resourcesRef => docRead /\ layout.serviceRef # NoDoc
<1>1. layout \in Layout
  BY DEF IInv, TypeOK
<1>2. CASE ~layout.resourcesRef
  BY <1>1, <1>2, WholeIsGood DEF RegistryGetServiceFragment
<1>3. CASE layout.resourcesRef
  <2>1. /\ svc \in FromRegister(key, regRead, docRead)
        /\ regRead
        /\ key \in layout.register
        /\ getServiceDocRef(key) # NoDoc
    BY <1>3 DEF RegistryGetServiceFragment, FromRegister
  <2>2. CASE HeldByReference(key)
    <3>1. svc = refValue /\ refValue # NoService
      BY <2>1, <2>2 DEF FromRegister, HeldByReference
    <3> QED
      BY <1>1, <1>3, <2>1, <2>2, <3>1, ScopeIsPeers DEF IInv
  <2>3. CASE ~HeldByReference(key)
    <3>1. docRead /\ svc \in mergeResources(NewService(Home(key)), Peers(key))
      BY <1>1, <2>1, <2>3, ScopeIsPeers DEF FromRegister, LoadServiceSubset
    <3>2. Home(key) \in Docs /\ Peers(key) \in SUBSET Resources
      BY <1>1, <2>1, ScopeIsPeers
    <3>3. /\ svc = [kind |-> "openapi", doc |-> Home(key), rsc |-> Peers(key),
                    config |-> FALSE, provider |-> FALSE, methodProvider |-> FALSE]
          /\ Peers(key) \subseteq layout.paths[Home(key)]
      BY <1>1, <3>1, <3>2, MergeGives
    <3>4. IsFragment(svc)
      BY <2>1, <3>3 DEF IsFragment
    <3>5. svc \in Service /\ svc # NoService
      BY <3>2, <3>3 DEF Service, NoService
    <3> QED
      BY <1>3, <2>1, <2>3, <3>1, <3>2, <3>3, <3>4, <3>5, KeysAssumption DEF Good
  <2> QED
    BY <2>2, <2>3
<1> QED
  BY <1>2, <1>3

(* A Good service that has the resource fits it.                           *)
LEMMA GoodFits ==
  ASSUME layout \in Layout, NEW svc, Good(svc), NEW key \in svc.rsc
  PROVE  /\ key \in Resources
         /\ svc.kind = "openapi" => key \in layout.paths[svc.doc]
         /\ layout.resourcesRef =>
              /\ svc.kind = "openapi" /\ key \in layout.register
              /\ \/ svc.doc = Home(key)
                 \/ layout.registerDoc = NoDoc /\ svc.doc = layout.serviceRef
<1>1. key \in Resources /\ (svc.kind = "openapi" => key \in layout.paths[svc.doc])
  BY DEF Good, Service
<1>2. ASSUME layout.resourcesRef
      PROVE  /\ svc.kind = "openapi" /\ key \in layout.register
             /\ \/ svc.doc = Home(key)
                \/ layout.registerDoc = NoDoc /\ svc.doc = layout.serviceRef
  <2>1. PICK r \in layout.register : svc.doc = Home(r) /\ svc.rsc = Peers(r)
    BY <1>2 DEF Good, IsFragment
  <2>2. key \in layout.register /\ (Named(r) = {} \/ Home(key) = Home(r))
    BY <2>1 DEF Peers
  <2>3. Named(r) = {} => layout.registerDoc = NoDoc /\ Home(r) = layout.serviceRef
    BY DEF Named, Home
  <2> QED
    BY <1>2, <2>1, <2>2, <2>3 DEF Good
<1> QED
  BY <1>1, <1>2

(* and a fresh handle would have served it, but for the exception.         *)
LEMMA GoodWouldServe ==
  ASSUME layout \in Layout, NEW svc, Good(svc), NEW key \in svc.rsc, ~FreshServes(key)
  PROVE  /\ layout.resourcesRef /\ layout.registerDoc = NoDoc
         /\ layout.ownDoc[key] # NoDoc /\ svc.doc = layout.serviceRef
<1>1. CASE ~layout.resourcesRef
  <2>1. IsWhole(svc) /\ svc.doc \in Docs /\ layout.protocol \in {"http", "local_templated"}
    BY <1>1 DEF Good, Layout
  <2>2. layout.protocol = "http" => svc.rsc \subseteq layout.paths[svc.doc]
    BY <1>1 DEF Good
  <2> QED
    BY <1>1, <2>1, <2>2, KeysAssumption DEF IsWhole, FreshServes
<1>2. CASE layout.resourcesRef
  <2>1. PICK r \in layout.register : svc.doc = Home(r) /\ svc.rsc = Peers(r)
    BY <1>2 DEF Good, IsFragment
  <2>2. /\ key \in layout.register
        /\ svc.doc \in Docs /\ svc.rsc \subseteq layout.paths[svc.doc]
    BY <1>2, GoodFits DEF Good
  <2>3. CASE Named(r) # {}
    <3>1. Named(key) # {} /\ Home(key) = Home(r)
      BY <2>1, <2>3 DEF Peers
    <3>2. Peers(key) = Peers(r)
      BY <2>3, <3>1 DEF Peers
    <3> QED
      BY <1>2, <2>1, <2>2, <3>1, <3>2, KeysAssumption DEF FreshServes
  <2>4. CASE Named(r) = {}
    <3>1. layout.registerDoc = NoDoc /\ Home(r) = layout.serviceRef
      BY <2>4 DEF Named, Home
    <3>2. ASSUME layout.ownDoc[key] = NoDoc PROVE FALSE
      <4>1. Named(key) = {} /\ Home(key) = Home(r)
        BY <3>1, <3>2 DEF Named, Home
      <4>2. Peers(key) = Peers(r)
        BY <2>4, <4>1 DEF Peers
      <4> QED
        BY <1>2, <2>1, <2>2, <4>1, <4>2, KeysAssumption DEF FreshServes
    <3> QED
      BY <1>2, <2>1, <3>1, <3>2
  <2> QED
    BY <2>3, <2>4
<1> QED
  BY <1>1, <1>2

-----------------------------------------------------------------------------
(* The invariant *)

LEMMA InitInv == Init => IInv
<1> SUFFICES ASSUME Init PROVE IInv
  OBVIOUS
<1>1. layout \in Layout
  BY LayoutsAssumption DEF Init
<1>2. NoService \in Service /\ NoService.kind # "local"
  BY DEF Service, NoService
<1>3. TypeOK
  BY <1>1, <1>2 DEF Init, TypeOK, Outcome, Key
<1> QED
  BY <1>3 DEF Init, IInv, ShardFitsResource, ShardGiven, RequestsAreIndependent

(* A call for a shard with what it may return.                             *)
LEMMA ShardOutcome ==
  ASSUME IInv, layout' = layout, NEW key \in Key, NEW res \in {"ok", "error", "panic"},
         NEW svc \in Service, NEW steady \in BOOLEAN,
         Call("shard", key, res, svc, steady),
         res = "ok" => Good(svc) /\ key \in svc.rsc,
         res = "error" /\ steady /\ key # EmptyKey /\ FreshServes(key) =>
           layout.resourcesRef /\ Named(key) = {} /\ svc # NoService
  PROVE  outcome' \in Outcome /\ ShardFitsResource' /\ RequestsAreIndependent'
<1>1. layout \in Layout
  BY DEF IInv, TypeOK
<1>2. outcome' = [op |-> "shard", key |-> key, res |-> res, svc |-> svc,
                  rsc |-> svc.rsc, steady |-> steady]
  BY DEF Call
<1>3. outcome' \in Outcome
  BY <1>2 DEF Outcome, Service
<1>4. ShardFitsResource'
  <2>1. res = "ok" =>
          /\ key \in svc.rsc
          /\ svc.kind = "openapi" => key \in layout.paths[svc.doc]
          /\ layout.resourcesRef =>
               \/ svc.doc = Home(key)
               \/ layout.registerDoc = NoDoc /\ svc.doc = layout.serviceRef
    BY <1>1, GoodFits
  <2> QED
    BY <1>2, <2>1 DEF ShardFitsResource, ShardGiven, Home
<1>5. RequestsAreIndependent'
  <2>1. res = "ok" /\ ~FreshServes(key) =>
          /\ layout.resourcesRef /\ layout.registerDoc = NoDoc
          /\ layout.ownDoc[key] # NoDoc /\ svc.doc = layout.serviceRef
    BY <1>1, GoodWouldServe
  <2>2. FreshServes(key)' <=> FreshServes(key)
    BY DEF FreshServes, Home, Peers, Named
  <2>3. Named(key)' = Named(key)
    BY DEF Named
  <2> QED
    BY <1>2, <2>1, <2>2, <2>3 DEF RequestsAreIndependent, FreshServes, Home, Peers, Named
<1> QED
  BY <1>3, <1>4, <1>5

(* A call for anything else says nothing of shards.                        *)
LEMMA OtherOutcome ==
  ASSUME IInv, outcome' \in Outcome, outcome'.op # "shard"
  PROVE  ShardFitsResource' /\ RequestsAreIndependent'
  BY DEF ShardFitsResource, ShardGiven, RequestsAreIndependent

LEMMA RefValueKept ==
  ASSUME IInv, layout' = layout,
         \/ refValue' = refValue
         \/ \E svc : refValue' = svc /\ Good(svc)
  PROVE  (refValue # NoService => Good(refValue))'
<1>1. CASE refValue' = refValue
  BY <1>1 DEF IInv, Good, IsWhole, IsFragment, Home, Peers, Named
<1>2. ASSUME NEW svc, refValue' = svc, Good(svc)
      PROVE  Good(refValue)'
  BY <1>2 DEF Good, IsWhole, IsFragment, Home, Peers, Named
<1> QED
  BY <1>1, <1>2

LEMMA OpenapiKept ==
  ASSUME IInv, layout' = layout,
         \/ openapi' = openapi
         \/ \E svc : openapi' = svc /\ layout.resourcesRef /\ IsFragment(svc)
         \/ \E svc : openapi' = svc /\ IsWhole(svc)
  PROVE  (openapi # NoService =>
           IsWhole(openapi) \/ (layout.resourcesRef /\ IsFragment(openapi)))'
<1>1. CASE openapi' = openapi
  BY <1>1 DEF IInv, IsWhole, IsFragment, Home, Peers, Named
<1>2. ASSUME NEW svc, openapi' = svc, layout.resourcesRef, IsFragment(svc)
      PROVE  (layout.resourcesRef /\ IsFragment(openapi))'
  BY <1>2 DEF IsFragment, Home, Peers, Named
<1>3. ASSUME NEW svc, openapi' = svc, IsWhole(svc)
      PROVE  IsWhole(openapi)'
  BY <1>3 DEF IsWhole
<1> QED
  BY <1>1, <1>2, <1>3

(* A resource's methods settle on Policy, which does not change.           *)
LEMMA Settling ==
  ASSUME IInv, layout' = layout, NEW key \in Key, NEW svc, Good(svc),
         \/ settled' = settled
         \/ settled' = [settled EXCEPT ![key] = GetRetryPolicy(svc)]
  PROVE  /\ (settled \in [Resources -> Level \cup {"default", "unknown"}])'
         /\ (\A r \in Resources : settled[r] \in {"unknown", Policy})'
<1>1. layout \in Layout /\ settled \in [Resources -> Level \cup {"default", "unknown"}]
  BY DEF IInv, TypeOK
<1>2. GetRetryPolicy(svc) = Policy /\ Policy \in Level \cup {"default"}
  BY <1>1, GoodPolicy, PolicyIsNearest
<1>3. Policy' = Policy
  BY DEF Policy, Found, Reach
<1> QED
  BY <1>1, <1>2, <1>3 DEF IInv

LEMMA ShardHeldInv ==
  ASSUME IInv, NEW key \in Key, ShardHeld(key)
  PROVE  IInv'
<1>1. /\ key \in refValue.rsc
      /\ Call("shard", key, "ok", refValue, TRUE)
      /\ settled' = [settled EXCEPT ![key] = GetRetryPolicy(refValue)]
      /\ UNCHANGED <<layout, handle, cached>>
  BY DEF ShardHeld, PeekServiceFragment
<1>2. refValue # NoService /\ Good(refValue) /\ refValue \in Service
  <2>1. refValue # NoService
    BY <1>1 DEF NoService
  <2> QED
    BY <2>1 DEF IInv, TypeOK
<1>3. outcome' \in Outcome /\ ShardFitsResource' /\ RequestsAreIndependent'
  BY <1>1, <1>2, ShardOutcome
<1>4. /\ (settled \in [Resources -> Level \cup {"default", "unknown"}])'
      /\ (\A r \in Resources : settled[r] \in {"unknown", Policy})'
  BY <1>1, <1>2, Settling
<1>5. TypeOK'
  BY <1>1, <1>3, <1>4 DEF IInv, TypeOK, handle
<1> QED
  BY <1>1, <1>3, <1>4, <1>5, RefValueKept, OpenapiKept DEF IInv, handle

LEMMA ShardLoadedInv ==
  ASSUME IInv, NEW key \in Key, NEW regRead \in BOOLEAN, NEW docRead \in BOOLEAN,
         NEW expands \in BOOLEAN, ShardLoaded(key, regRead, docRead, expands)
  PROVE  IInv'
<1>1. PICK svc \in RegistryGetServiceFragment(key, regRead, docRead) :
        ShardLoaded(key, regRead, docRead, expands)!2!(svc)
  BY DEF ShardLoaded
<1> DEFINE panics == \/ svc.kind = "openapi" /\ layout.serviceRef = NoDoc
                     \/ key = EmptyKey
           ok == key \in svc.rsc /\ expands
           res == IF panics THEN "panic" ELSE IF ok THEN "ok" ELSE "error"
<1>2. /\ KeepService(key, svc)
      /\ refValue' = refValue \/ (refValue' = svc /\ svc.kind = "openapi")
      /\ Call("shard", key, res, svc, regRead /\ docRead /\ expands)
      /\ settled' = settled \/ settled' = [settled EXCEPT ![key] = GetRetryPolicy(svc)]
      /\ UNCHANGED <<layout, cached>>
  BY <1>1 DEF SetServiceRefVal
<1>3. Good(svc) /\ svc \in Service
  BY FragmentIsGood DEF Good
<1>4. outcome' \in Outcome /\ ShardFitsResource' /\ RequestsAreIndependent'
  <2>1. ASSUME res = "error", regRead /\ docRead /\ expands, key # EmptyKey, FreshServes(key)
        PROVE  layout.resourcesRef /\ Named(key) = {} /\ svc # NoService
    <3>1. key \notin svc.rsc
      BY <2>1
    <3>2. CASE ~layout.resourcesRef
      BY <1>3, <2>1, <3>1, <3>2 DEF Good, IsWhole, FreshServes
    <3>3. CASE layout.resourcesRef
      <4>1. key \in layout.register /\ layout \in Layout
        BY <3>3, FragmentIsGood DEF IInv, TypeOK
      <4>2. key \in Peers(key)
        BY <4>1 DEF Peers
      <4>3. HeldByReference(key)
        BY <3>1, <3>3, <4>2, FragmentIsGood
      <4> QED
        BY <1>3, <3>3, <4>1, <4>3, ScopeIsPeers DEF HeldByReference, Good
    <3> QED
      BY <3>2, <3>3
  <2>2. res = "ok" => key \in svc.rsc
    OBVIOUS
  <2>3. res \in {"ok", "error", "panic"} /\ (regRead /\ docRead /\ expands) \in BOOLEAN
    OBVIOUS
  <2> HIDE DEF res
  <2> QED
    BY <1>2, <1>3, <2>1, <2>2, <2>3, ShardOutcome
<1>5. /\ (settled \in [Resources -> Level \cup {"default", "unknown"}])'
      /\ (\A r \in Resources : settled[r] \in {"unknown", Policy})'
  BY <1>2, <1>3, Settling
<1>6. openapi' = openapi \/ (layout.resourcesRef /\ openapi' = svc)
  BY <1>2 DEF KeepService
<1>7. TypeOK'
  BY <1>2, <1>3, <1>4, <1>5, <1>6 DEF IInv, TypeOK, Good
<1>8. layout.resourcesRef => IsFragment(svc)
  BY <1>3 DEF Good
<1> QED
  BY <1>2, <1>3, <1>4, <1>5, <1>6, <1>7, <1>8, RefValueKept, OpenapiKept DEF IInv

LEMMA ShardFailsInv ==
  ASSUME IInv, NEW key \in Key, NEW regRead \in BOOLEAN, NEW docRead \in BOOLEAN,
         ShardFails(key, regRead, docRead)
  PROVE  IInv'
<1>1. /\ RegistryGetServiceFragment(key, regRead, docRead) = {}
      /\ Call("shard", key, "error", NoService, regRead /\ docRead)
      /\ UNCHANGED <<layout, handle, cached, settled>>
  BY DEF ShardFails
<1>2. layout \in Layout /\ NoService \in Service
  BY DEF IInv, TypeOK, Service, NoService
<1>3. ASSUME regRead, docRead, key # EmptyKey, FreshServes(key)
      PROVE  FALSE
  <2>1. CASE ~layout.resourcesRef
    <3>1. layout.serviceRef # NoDoc /\ LoadServiceDocFromBytes(layout.serviceRef) = {}
      BY <1>1, <1>3, <2>1 DEF RegistryGetServiceFragment, RegistryGetService, FreshServes
    <3>2. layout.protocol = "http"
      BY <1>2, <3>1 DEF LoadServiceDocFromBytes, Layout
    <3>3. layout.listed[layout.serviceRef] \subseteq layout.paths[layout.serviceRef]
      BY <1>3, <2>1, <3>2 DEF FreshServes
    <3> DEFINE s == [NewService(layout.serviceRef) EXCEPT
                       !.rsc = layout.listed[layout.serviceRef],
                       !.methodProvider = NewService(layout.serviceRef).provider]
    <3>4. s \in mergeResources(NewService(layout.serviceRef), layout.listed[layout.serviceRef])
      BY <3>3 DEF mergeResources, NewService, NoService
    <3>5. s.rsc # {}
      BY <1>3, <2>1 DEF FreshServes, NewService, NoService
    <3> QED
      BY <3>1, <3>2, <3>4, <3>5 DEF LoadServiceDocFromBytes
  <2>2. CASE layout.resourcesRef
    <3>1. /\ key \in layout.register /\ Home(key) # NoDoc
          /\ Peers(key) \subseteq layout.paths[Home(key)]
      BY <1>3, <2>2 DEF FreshServes
    <3>2. LoadServiceSubset(key, Home(key)) = {}
      BY <1>1, <1>2, <1>3, <2>2, <3>1, ScopeIsPeers
         DEF RegistryGetServiceFragment, FromRegister
    <3>3. Scope(key) \subseteq layout.paths[NewService(Home(key)).doc]
      BY <1>2, <3>1, ScopeIsPeers DEF NewService, NoService
    <3> QED
      BY <3>2, <3>3 DEF LoadServiceSubset, mergeResources
  <2> QED
    BY <2>1, <2>2
<1>4. outcome' \in Outcome /\ ShardFitsResource' /\ RequestsAreIndependent'
  BY <1>1, <1>2, <1>3, ShardOutcome
<1>5. TypeOK' /\ (\A r \in Resources : settled[r] \in {"unknown", Policy})'
  BY <1>1, <1>4 DEF IInv, TypeOK, handle, Policy, Found, Reach
<1> QED
  BY <1>1, <1>4, <1>5, RefValueKept, OpenapiKept DEF IInv, handle

(* Calls that leave refValue and what was settled alone.                   *)
LEMMA OtherCallInv ==
  ASSUME IInv, UNCHANGED <<layout, refValue, settled>>, (cached \in BOOLEAN)',
         (openapi \in Service /\ openapi.kind # "local")',
         \/ openapi' = openapi
         \/ \E svc : openapi' = svc /\ layout.resourcesRef /\ IsFragment(svc)
         \/ \E svc : openapi' = svc /\ IsWhole(svc),
         outcome' \in Outcome, outcome'.op # "shard"
  PROVE  IInv'
<1>1. TypeOK' /\ (\A r \in Resources : settled[r] \in {"unknown", Policy})'
  BY DEF IInv, TypeOK, Policy, Found, Reach
<1> QED
  BY <1>1, OtherOutcome, RefValueKept, OpenapiKept DEF IInv

LEMMA FragmentInv ==
  ASSUME IInv, NEW key \in Key, NEW regRead \in BOOLEAN, NEW docRead \in BOOLEAN,
         Fragment(key, regRead, docRead)
  PROVE  IInv'
<1>1. NoService \in Service
  BY DEF Service, NoService
<1>2. UNCHANGED <<layout, refValue, cached, settled>>
  BY DEF Fragment
<1>3. ASSUME NEW svc \in RegistryGetServiceFragment(key, regRead, docRead),
             KeepService(key, svc), Call("fragment", key, "ok", svc, regRead /\ docRead)
      PROVE  IInv'
  <2>1. Good(svc) /\ svc \in Service
    BY FragmentIsGood DEF Good
  <2>2. outcome' \in Outcome /\ outcome'.op # "shard"
    BY <1>3, <2>1 DEF Call, Outcome, Service
  <2>3. openapi' = openapi \/ (openapi' = svc /\ layout.resourcesRef /\ IsFragment(svc))
    BY <1>3, <2>1 DEF KeepService, Good
  <2>4. (openapi \in Service /\ openapi.kind # "local")' /\ (cached \in BOOLEAN)'
    BY <1>2, <2>1, <2>3 DEF IInv, TypeOK, Good
  <2> QED
    BY <1>2, <2>2, <2>3, <2>4, OtherCallInv
<1>4. ASSUME UNCHANGED openapi, Call("fragment", key, "error", NoService, regRead /\ docRead)
      PROVE  IInv'
  <2>1. outcome' \in Outcome /\ outcome'.op # "shard"
    BY <1>1, <1>4 DEF Call, Outcome, Service
  <2> QED
    BY <1>2, <1>4, <2>1, OtherCallInv DEF IInv, TypeOK
<1> QED
  BY <1>3, <1>4 DEF Fragment

LEMMA GetServiceInv ==
  ASSUME IInv, NEW docRead \in BOOLEAN, GetService(docRead)
  PROVE  IInv'
<1>1. layout \in Layout /\ NoService \in Service
  BY DEF IInv, TypeOK, Service, NoService
<1>2. UNCHANGED <<layout, refValue, cached, settled>>
  BY DEF GetService
<1>3. ASSUME NEW res \in {"ok", "error"}, NEW svc \in Service, UNCHANGED openapi,
             Call("service", EmptyKey, res, svc, docRead)
      PROVE  IInv'
  <2>1. outcome' \in Outcome /\ outcome'.op # "shard"
    BY <1>3 DEF Call, Outcome, Service, Key
  <2> QED
    BY <1>2, <1>3, <2>1, OtherCallInv DEF IInv, TypeOK
<1>4. ASSUME NEW svc \in RegistryGetService(docRead),
             Call("service", EmptyKey, "ok", setProvider(svc), docRead),
             openapi' = IF svc.kind = "openapi" THEN setProvider(svc) ELSE openapi
      PROVE  IInv'
  <2>1. setProvider(svc) \in Service /\ IsWhole(setProvider(svc))
    BY <1>1, WholeLoads DEF setProvider, Service, IsWhole
  <2>2. outcome' \in Outcome /\ outcome'.op # "shard"
    BY <1>4, <2>1 DEF Call, Outcome, Service, Key
  <2>3. openapi' = openapi \/ openapi' = setProvider(svc)
    BY <1>4
  <2>4. (openapi \in Service /\ openapi.kind # "local")' /\ (cached \in BOOLEAN)'
    <3>1. svc.kind = "openapi" => setProvider(svc).kind = "openapi"
      BY <1>1, WholeLoads DEF setProvider, Service
    <3> QED
      BY <1>2, <1>4, <2>1, <3>1 DEF IInv, TypeOK
  <2> QED
    BY <1>2, <2>1, <2>2, <2>3, <2>4, OtherCallInv
<1>5. openapi \in Service /\ refValue \in Service
  BY DEF IInv, TypeOK
<1> QED
  BY <1>1, <1>3, <1>4, <1>5 DEF GetService

LEMMA ResourcesInv ==
  ASSUME IInv, NEW regRead \in BOOLEAN, NEW docRead \in BOOLEAN,
         ResourcesFromRegister(regRead) \/ ResourcesFromService(docRead)
  PROVE  IInv'
<1>1. layout \in Layout /\ NoService \in Service
  BY DEF IInv, TypeOK, Service, NoService
<1>2. UNCHANGED <<layout, refValue, openapi, settled>> /\ (cached \in BOOLEAN)'
  BY DEF ResourcesFromRegister, ResourcesFromService, handle, IInv, TypeOK
<1>3. outcome' \in Outcome /\ outcome'.op # "shard"
  <2>1. CASE ResourcesFromRegister(regRead)
    BY <1>1, <2>1 DEF ResourcesFromRegister, Outcome, Key, Layout
  <2>2. CASE ResourcesFromService(docRead)
    <3>1. ASSUME NEW svc \in Service, NEW res \in {"ok", "error", "panic"},
                 Call("resources", EmptyKey, res, svc, docRead)
          PROVE  outcome' \in Outcome /\ outcome'.op # "shard"
      BY <3>1 DEF Call, Outcome, Service, Key
    <3>2. refValue \in Service /\ \A svc \in RegistryGetService(docRead) : svc \in Service
      BY <1>1, WholeLoads DEF IInv, TypeOK
    <3> QED
      BY <1>1, <2>2, <3>1, <3>2 DEF ResourcesFromService
  <2> QED
    BY <2>1, <2>2
<1> QED
  BY <1>2, <1>3, OtherCallInv DEF IInv, TypeOK

LEMMA Inductive == Spec => []IInv
<1>1. IInv /\ [Next]_vars => IInv'
  <2> SUFFICES ASSUME IInv, [Next]_vars PROVE IInv'
    OBVIOUS
  <2>1. CASE UNCHANGED vars
    <3>1. UNCHANGED <<layout, refValue, openapi, cached, outcome, settled>>
      BY <2>1 DEF vars, handle
    <3>2. TypeOK' /\ (\A r \in Resources : settled[r] \in {"unknown", Policy})'
      BY <3>1 DEF IInv, TypeOK, Policy, Found, Reach
    <3>3. ShardFitsResource'
      BY <3>1 DEF IInv, ShardFitsResource, ShardGiven, Home
    <3>4. RequestsAreIndependent'
      BY <3>1 DEF IInv, RequestsAreIndependent, FreshServes, Home, Peers, Named
    <3> QED
      BY <3>1, <3>2, <3>3, <3>4, RefValueKept, OpenapiKept DEF IInv
  <2>2. ASSUME NEW regRead \in BOOLEAN, NEW docRead \in BOOLEAN, NEW key \in Key,
               \/ ShardHeld(key)
               \/ \E expands \in BOOLEAN : ShardLoaded(key, regRead, docRead, expands)
               \/ ShardFails(key, regRead, docRead)
               \/ Fragment(key, regRead, docRead)
        PROVE  IInv'
    BY <2>2, ShardHeldInv, ShardLoadedInv, ShardFailsInv, FragmentInv
  <2>3. ASSUME NEW regRead \in BOOLEAN, NEW docRead \in BOOLEAN,
               \/ GetService(docRead)
               \/ ResourcesFromRegister(regRead) \/ ResourcesFromService(docRead)
        PROVE  IInv'
    BY <2>3, GetServiceInv, ResourcesInv
  <2> QED
    BY <2>1, <2>2, <2>3 DEF Next
<1> QED
  BY <1>1, InitInv, PTL DEF Spec

-----------------------------------------------------------------------------
(* What a handle holds is always complete for its document.                *)
THEOREM HeldComplete == Spec => [](TypeOK /\ HeldIsComplete)
<1>1. IInv => TypeOK /\ HeldIsComplete
  BY DEF IInv, HeldIsComplete, Good
<1> QED
  BY <1>1, Inductive, PTL

(* GetServiceShard returns a service that fits the resource.               *)
THEOREM ShardFits == Spec => []ShardFitsResource
<1>1. IInv => ShardFitsResource
  BY DEF IInv
<1> QED
  BY <1>1, Inductive, PTL

(* Requests are independent but for the two cases the property names.      *)
THEOREM Independent == Spec => []RequestsAreIndependent
<1>1. IInv => RequestsAreIndependent
  BY DEF IInv
<1> QED
  BY <1>1, Inductive, PTL

(* A setting comes from the nearest of the levels that declare it, or from *)
(* none of them.                                                           *)
THEOREM NearerWin == Spec => []NearerLevelsWin
<1>1. IInv => NearerLevelsWin
  <2> SUFFICES ASSUME IInv, NEW r \in Resources, settled[r] \in Level
               PROVE  /\ settled[r] \in layout.declared
                      /\ \A l \in layout.declared : Rank[settled[r]] <= Rank[l]
    BY DEF NearerLevelsWin
  <2>1. layout \in Layout /\ settled[r] = Policy /\ Policy # "default"
    BY DEF IInv, TypeOK, Level
  <2>2. Policy \in layout.declared \cap Reach
    BY <2>1, PolicyIsNearest DEF Found
  <2>3. ASSUME NEW l \in layout.declared PROVE Rank[Policy] <= Rank[l]
    <3>1. CASE l \in Reach
      BY <2>1, <3>1, PolicyIsNearest DEF Found
    <3>2. CASE l \notin Reach
      <4>1. l \in Level
        BY <2>1 DEF Layout
      <4> QED
        BY <2>2, <3>2, <4>1 DEF Reach, Level, Rank
    <3> QED
      BY <3>1, <3>2
  <2> QED
    BY <2>1, <2>2, <2>3
<1> QED
  BY <1>1, Inductive, PTL

(* Where a setting comes from does not change.                             *)
THEOREM SettingStable == Spec => SettingIsStable
<1>1. IInv /\ IInv' /\ [Next]_vars =>
        [\A r \in Resources : settled[r] # "unknown" => settled'[r] = settled[r]]_vars
  <2> SUFFICES ASSUME IInv, IInv', Next, NEW r \in Resources, settled[r] # "unknown"
               PROVE  settled'[r] = settled[r]
    OBVIOUS
  <2>1. settled[r] = Policy /\ settled'[r] \in {"unknown", Policy'}
    BY DEF IInv
  <2>2. Policy' = Policy
    <3>1. layout' = layout
      <4>1. ASSUME NEW regRead \in BOOLEAN, NEW docRead \in BOOLEAN, NEW key \in Key,
                   \/ ShardHeld(key) \/ ShardFails(key, regRead, docRead)
                   \/ \E expands \in BOOLEAN : ShardLoaded(key, regRead, docRead, expands)
            PROVE  layout' = layout
        BY <4>1 DEF ShardHeld, ShardLoaded, ShardFails
      <4>2. ASSUME NEW regRead \in BOOLEAN, NEW docRead \in BOOLEAN, NEW key \in Key,
                   \/ Fragment(key, regRead, docRead) \/ GetService(docRead)
            PROVE  layout' = layout
        BY <4>2 DEF Fragment, GetService
      <4>3. ASSUME NEW regRead \in BOOLEAN, NEW docRead \in BOOLEAN,
                   ResourcesFromRegister(regRead) \/ ResourcesFromService(docRead)
            PROVE  layout' = layout
        BY <4>3 DEF ResourcesFromRegister, ResourcesFromService
      <4> QED
        BY <4>1, <4>2, <4>3 DEF Next, Key
    <3> QED
      BY <3>1 DEF Policy, Found, Reach
  <2>3. settled'[r] # "unknown"
    <3>1. \/ settled' = settled
          \/ \E key \in Key, svc \in {refValue} \cup Service :
               Good(svc) /\ settled' = [settled EXCEPT ![key] = GetRetryPolicy(svc)]
      <4>1. ASSUME NEW key \in Key, ShardHeld(key)
            PROVE  Good(refValue) /\ settled' = [settled EXCEPT ![key] = GetRetryPolicy(refValue)]
        BY <4>1 DEF ShardHeld, PeekServiceFragment, IInv, NoService
      <4>2. ASSUME NEW key \in Key, NEW regRead \in BOOLEAN, NEW docRead \in BOOLEAN,
                   NEW expands \in BOOLEAN, ShardLoaded(key, regRead, docRead, expands)
            PROVE  \/ settled' = settled
                   \/ \E svc \in Service :
                        Good(svc) /\ settled' = [settled EXCEPT ![key] = GetRetryPolicy(svc)]
        <5>1. PICK svc \in RegistryGetServiceFragment(key, regRead, docRead) :
                ShardLoaded(key, regRead, docRead, expands)!2!(svc)
          BY <4>2 DEF ShardLoaded
        <5>2. Good(svc) /\ svc \in Service
          BY FragmentIsGood DEF Good
        <5> QED
          BY <5>1, <5>2
      <4> QED
        BY <4>1, <4>2 DEF Next, ShardFails, Fragment, GetService,
             ResourcesFromRegister, ResourcesFromService
    <3>2. ASSUME NEW svc, Good(svc) PROVE GetRetryPolicy(svc) # "unknown"
      <4>1. layout \in Layout
        BY DEF IInv, TypeOK
      <4>2. GetRetryPolicy(svc) \in Level \cup {"default"}
        BY <3>2, <4>1, GoodPolicy, PolicyIsNearest
      <4> QED
        BY <4>2 DEF Level
    <3>3. settled \in [Resources -> Level \cup {"default", "unknown"}]
      BY DEF IInv, TypeOK
    <3> QED
      BY <3>1, <3>2, <3>3
  <2> QED
    BY <2>1, <2>2, <2>3
<1> QED
  BY <1>1, Inductive, PTL DEF Spec, SettingIsStable
=============================================================================
