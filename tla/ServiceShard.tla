---------------------------- MODULE ServiceShard ----------------------------
(***************************************************************************)
(* A provider service handle and the services that are read through it     *)
(* (internal/anysdk/providerService.go, loader.go and registry.go, under   *)
(* the discovery store and adapter of public/discovery/discovery.go).      *)
(*                                                                         *)
(* A handle names a service document, or a register of resources which may *)
(* name service documents of their own.  A resource is asked for by key;   *)
(* what is loaded for it, a fragment, may hold other resources too, and is *)
(* kept in the handle, where later calls find it.  Methods look up their   *)
(* settings through the references to the levels above that loading leaves *)
(* in them.                                                                *)
(*                                                                         *)
(* The documents do not change (ProviderCache is about that), but any of   *)
(* them may be unreadable at any time.  Calls on a handle do not overlap.  *)
(***************************************************************************)
EXTENDS Naturals

CONSTANTS
  Resources,  \* resource keys
  Docs,       \* the URLs of service documents
  Layouts     \* the ways of dividing a service into documents

NoDoc == "no document"
EmptyKey == "no resource"  \* the empty string, given for a whole service
Key == Resources \cup {EmptyKey}

(* The levels that may declare a setting, the nearest to a method first,   *)
(* and the fallback.                                                       *)
Rank == [method |-> 1, resource |-> 2, service |-> 3,
         providerService |-> 4, provider |-> 5, default |-> 6]
Level == {"method", "resource", "service", "providerService", "provider"}

(* A layout: what the handle refers to; what the register holds and which  *)
(* documents it names; of each document the resources it lists itself and  *)
(* the ones whose operations it has; and the levels that declare the       *)
(* setting that is looked up.                                              *)
Layout ==
  [protocol: {"http", "local_templated"},
   resourcesRef: BOOLEAN, serviceRef: Docs \cup {NoDoc},
   register: SUBSET Resources, registerDoc: Docs \cup {NoDoc},
   ownDoc: [Resources -> Docs \cup {NoDoc}],
   listed: [Docs -> SUBSET Resources], paths: [Docs -> SUBSET Resources],
   declared: SUBSET Level]

ASSUME KeysAssumption == EmptyKey \notin Resources /\ NoDoc \notin Docs
ASSUME LayoutsAssumption == Layouts \subseteq Layout

VARIABLES
  layout,    \* one of Layouts
  refValue,  \* ServiceRef.Value of the handle
  openapi,   \* OpenAPIService of the handle
  cached,    \* the register is in the persistence system's cache
  outcome,   \* of the last call
  settled    \* of each resource: the level its methods had the setting from

handle == <<refValue, openapi>>
vars == <<layout, handle, cached, outcome, settled>>

(* A service: its kind, document and resources; whether the document's     *)
(* x-stackQL-config was taken over; and whether the service and its        *)
(* methods know the provider and the provider service.                     *)
Service ==
  [kind: {"openapi", "local", "nil"}, doc: Docs \cup {NoDoc}, rsc: SUBSET Resources,
   config: BOOLEAN, provider: BOOLEAN, methodProvider: BOOLEAN]
NoService == [kind |-> "nil", doc |-> NoDoc, rsc |-> {}, config |-> FALSE,
              provider |-> FALSE, methodProvider |-> FALSE]

(* steady: all that was to be read was read, and the namespace analysis    *)
(* succeeded.                                                              *)
Outcome ==
  [op: {"none", "shard", "fragment", "service", "resources"}, key: Key,
   res: {"ok", "error", "panic"}, svc: Service, rsc: SUBSET Resources,
   steady: BOOLEAN]

TypeOK ==
  /\ layout \in Layout
  /\ refValue \in Service /\ refValue.kind # "local"
  /\ openapi \in Service /\ openapi.kind # "local"
  /\ cached \in BOOLEAN
  /\ outcome \in Outcome
  /\ settled \in [Resources -> Level \cup {"default", "unknown"}]

Init ==
  /\ layout \in Layouts
  /\ refValue = NoService
  /\ openapi = NoService
  /\ cached = FALSE
  /\ outcome = [op |-> "none", key |-> EmptyKey, res |-> "ok", svc |-> NoService,
                rsc |-> {}, steady |-> TRUE]
  /\ settled = [r \in Resources |-> "unknown"]

-----------------------------------------------------------------------------
(* Loading.  A service that cannot be loaded is the empty set, one that    *)
(* can is a singleton.                                                     *)

NewService(d) == [NoService EXCEPT !.kind = "openapi", !.doc = d]

(* mergeResources: every operation of every resource is looked up in the   *)
(* document; the methods take the provider from the service.               *)
mergeResources(svc, rscs) ==
  IF rscs \subseteq layout.paths[svc.doc]
  THEN {[svc EXCEPT !.rsc = rscs, !.methodProvider = svc.provider]}
  ELSE {}

(* setProvider and setProviderService: the resources learn of it.  The     *)
(* methods are values of a map, and their copies are told.                 *)
setProvider(svc) == [svc EXCEPT !.provider = TRUE]

(* LoadServiceDocFromBytes: a document with the resources it lists itself; *)
(* it is an error if it lists none.                                        *)
LoadServiceDocFromBytes(d) ==
  IF layout.protocol = "local_templated"
  THEN {[NewService(d) EXCEPT !.kind = "local", !.rsc = layout.listed[d]]}
  ELSE {[setProvider(svc) EXCEPT !.config = TRUE] :
          svc \in {s \in mergeResources(NewService(d), layout.listed[d]) : s.rsc # {}}}

(* Of a resource: its own document, or the register's.                     *)
ObtainServiceDocUrl(key) ==
  IF layout.ownDoc[key] # NoDoc THEN layout.ownDoc[key] ELSE layout.registerDoc

(* Mistakes: only the resource that is asked for; all that there are.      *)
ScopeOne(key) == {key}
ScopeAll(key) == layout.register

(* The resources a fragment is loaded with: the ones with the same         *)
(* document, or all if the resource names none.                            *)
Scope(key) ==
  {r \in layout.register :
     ObtainServiceDocUrl(key) # NoDoc => ObtainServiceDocUrl(r) = ObtainServiceDocUrl(key)}

(* LoadServiceSubsetDocFromBytes *)
LoadServiceSubset(key, d) == mergeResources(NewService(d), Scope(key))

-----------------------------------------------------------------------------
(* What the handle and the registry return, where regRead and docRead say  *)
(* whether the register and the service document can be read.              *)

RegistryGetService(docRead) ==
  IF docRead /\ layout.serviceRef # NoDoc
  THEN LoadServiceDocFromBytes(layout.serviceRef)
  ELSE {}

getServiceDocRef(key) ==
  IF ObtainServiceDocUrl(key) # NoDoc THEN ObtainServiceDocUrl(key) ELSE layout.serviceRef

(* The service reference itself is used, and with it what it holds.        *)
HeldByReference(key) == ObtainServiceDocUrl(key) = NoDoc /\ refValue # NoService

(* GetServiceFragment of a handle with a register: what is held, or the    *)
(* fragment with the resource, which the handle then keeps as its service. *)
FromRegister(key, regRead, docRead) ==
  IF ~regRead \/ key \notin layout.register THEN {}
  ELSE IF getServiceDocRef(key) = NoDoc THEN {}
  ELSE IF HeldByReference(key) THEN {refValue}
  ELSE IF docRead THEN LoadServiceSubset(key, getServiceDocRef(key)) ELSE {}

RegistryGetServiceFragment(key, regRead, docRead) ==
  IF layout.resourcesRef THEN FromRegister(key, regRead, docRead)
  ELSE RegistryGetService(docRead)

(* setService, at the end of GetServiceFragment.                           *)
KeepService(key, svc) ==
  openapi' = IF layout.resourcesRef /\ ~HeldByReference(key) THEN svc ELSE openapi

(* Mistake: what is held is returned without a look at its resources.      *)
PeekAnything(key) == {refValue} \ {NoService}

PeekServiceFragment(key) == {s \in {refValue} : key \in s.rsc}

-----------------------------------------------------------------------------
(* Settings *)

(* The levels a method of a service reaches.                               *)
Reached(svc) ==
  {"method", "resource"}
    \cup (IF svc.kind = "openapi" /\ svc.config THEN {"service"} ELSE {})
    \cup (IF svc.methodProvider THEN {"providerService", "provider"} ELSE {})

(* GetRetryPolicy and GetQueryParamPushdown: the nearest level that        *)
(* declares the setting.                                                   *)
GetRetryPolicy(svc) ==
  LET found == (layout.declared \cap Reached(svc)) \cup {"default"}
  IN CHOOSE l \in found : \A m \in found : Rank[l] <= Rank[m]

-----------------------------------------------------------------------------
(* Calls *)

Call(op, key, res, svc, steady) ==
  outcome' = [op |-> op, key |-> key, res |-> res, svc |-> svc, rsc |-> svc.rsc,
              steady |-> steady]

(* SetServiceRefVal: a service that is not of OpenAPI is not kept.         *)
SetServiceRefVal(svc) == refValue' = IF svc.kind = "openapi" THEN svc ELSE refValue

(* GetServiceShard over PersistServiceShard: the fragment is held already, *)
(* and is returned as it is.                                               *)
ShardHeld(key) ==
  \E svc \in PeekServiceFragment(key) :
    /\ Call("shard", key, IF key \in svc.rsc THEN "ok" ELSE "error", svc, TRUE)
    /\ settled' = IF key \in svc.rsc THEN [settled EXCEPT ![key] = GetRetryPolicy(svc)]
                                     ELSE settled
    /\ UNCHANGED <<layout, handle, cached>>

(* It is loaded and kept, and the resource is looked up in it and its      *)
(* namespace analysed; either may fail with the fragment kept.  The store  *)
(* has no service under the key that is tried before the registry.  For    *)
(* the empty key there is no resource to analyse, and a handle without a   *)
(* service reference has nowhere to keep a fragment: both panic.           *)
ShardLoaded(key, regRead, docRead, expands) ==
  /\ PeekServiceFragment(key) = {}
  /\ \E svc \in RegistryGetServiceFragment(key, regRead, docRead) :
       LET panics == \/ svc.kind = "openapi" /\ layout.serviceRef = NoDoc
                     \/ key = EmptyKey
           ok == key \in svc.rsc /\ expands
       IN /\ KeepService(key, svc)
          /\ IF layout.serviceRef = NoDoc THEN UNCHANGED refValue
                                         ELSE SetServiceRefVal(svc)
          /\ Call("shard", key, IF panics THEN "panic" ELSE IF ok THEN "ok" ELSE "error",
                  svc, regRead /\ docRead /\ expands)
          /\ settled' = IF ok /\ ~panics
                        THEN [settled EXCEPT ![key] = GetRetryPolicy(svc)]
                        ELSE settled
          /\ UNCHANGED <<layout, cached>>

ShardFails(key, regRead, docRead) ==
  /\ PeekServiceFragment(key) = {}
  /\ RegistryGetServiceFragment(key, regRead, docRead) = {}
  /\ Call("shard", key, "error", NoService, regRead /\ docRead)
  /\ UNCHANGED <<layout, handle, cached, settled>>

(* GetServiceFragment of the registry, which the static analysers call.    *)
Fragment(key, regRead, docRead) ==
  /\ \/ \E svc \in RegistryGetServiceFragment(key, regRead, docRead) :
          KeepService(key, svc) /\ Call("fragment", key, "ok", svc, regRead /\ docRead)
     \/ /\ RegistryGetServiceFragment(key, regRead, docRead) = {}
        /\ UNCHANGED openapi
        /\ Call("fragment", key, "error", NoService, regRead /\ docRead)
  /\ UNCHANGED <<layout, refValue, cached, settled>>

(* GetService of the handle: its service, what is held, or what is loaded. *)
GetService(docRead) ==
  /\ IF openapi # NoService
     THEN Call("service", EmptyKey, "ok", openapi, docRead) /\ UNCHANGED openapi
     ELSE IF refValue # NoService
     THEN Call("service", EmptyKey, "ok", refValue, docRead) /\ UNCHANGED openapi
     ELSE \/ \E svc \in RegistryGetService(docRead) :
               /\ Call("service", EmptyKey, "ok", setProvider(svc), docRead)
               /\ openapi' = IF svc.kind = "openapi" THEN setProvider(svc) ELSE openapi
          \/ /\ RegistryGetService(docRead) = {}
             /\ Call("service", EmptyKey, "error", NoService, docRead)
             /\ UNCHANGED openapi
  /\ UNCHANGED <<layout, refValue, cached, settled>>

(* GetResourcesMap with a register: from the cache, or read and put there. *)
ResourcesFromRegister(regRead) ==
  LET found == cached \/ regRead
  IN /\ layout.resourcesRef
     /\ cached' = found
     /\ outcome' = [op |-> "resources", key |-> EmptyKey, svc |-> NoService,
                    res |-> IF found THEN "ok" ELSE "error",
                    rsc |-> IF found THEN layout.register ELSE {}, steady |-> regRead]
     /\ UNCHANGED <<layout, handle, settled>>

(* GetResourcesMap without one: of what is held, or of the document; it is *)
(* an error if there are none.  The document is tried twice.  Without a    *)
(* service either it panics.                                               *)
ResourcesFromService(docRead) ==
  /\ ~layout.resourcesRef
  /\ LET svcs == IF refValue # NoService THEN {refValue} ELSE RegistryGetService(docRead)
     IN \/ \E svc \in svcs :
             Call("resources", EmptyKey, IF svc.rsc = {} THEN "error" ELSE "ok", svc, docRead)
        \/ /\ svcs = {}
           /\ Call("resources", EmptyKey,
                   IF layout.serviceRef = NoDoc THEN "panic" ELSE "error", NoService, docRead)
  /\ UNCHANGED <<layout, handle, cached, settled>>

Next ==
  \E regRead, docRead \in BOOLEAN :
    \/ \E key \in Key :
         \/ ShardHeld(key)
         \/ \E expands \in BOOLEAN : ShardLoaded(key, regRead, docRead, expands)
         \/ ShardFails(key, regRead, docRead)
         \/ Fragment(key, regRead, docRead)
    \/ GetService(docRead)
    \/ ResourcesFromRegister(regRead)
    \/ ResourcesFromService(docRead)

Spec == Init /\ [][Next]_vars

-----------------------------------------------------------------------------
(* Properties *)

(* The document a resource is to be found in, and the resources of the     *)
(* register that are loaded with it.                                       *)
Named(r) == {layout.ownDoc[r], layout.registerDoc} \ {NoDoc}
Home(r) == IF layout.ownDoc[r] # NoDoc THEN layout.ownDoc[r]
           ELSE IF layout.registerDoc # NoDoc THEN layout.registerDoc
           ELSE layout.serviceRef
Peers(r) == {q \in layout.register :
               Named(r) = {} \/ (Named(q) # {} /\ Home(q) = Home(r))}

(* One of the fragments that the register divides the service into.        *)
IsFragment(svc) ==
  \E r \in layout.register : svc.doc = Home(r) /\ svc.rsc = Peers(r)

(* The whole service, as its document lists it.                            *)
IsWhole(svc) == svc.doc = layout.serviceRef /\ svc.rsc = layout.listed[svc.doc]

(* What a handle holds is complete, whatever it was asked for before: with *)
(* a register, a document with all of the register's resources that belong *)
(* to it; without one, all that the document lists (PersistServiceShard,   *)
(* GetServiceFragment, GetService).  With a register GetService may give a *)
(* fragment for the whole.                                                 *)
HeldIsComplete ==
  /\ refValue # NoService =>
       IF layout.resourcesRef THEN IsFragment(refValue) ELSE IsWhole(refValue)
  /\ openapi # NoService =>
       IsWhole(openapi) \/ (layout.resourcesRef /\ IsFragment(openapi))

ShardGiven == outcome.op = "shard" /\ outcome.res = "ok"

(* A service that GetServiceShard returns has the resource, with all of    *)
(* its operations, and was read from the resource's document.  There is    *)
(* one exception: a resource with a document of its own, in a register     *)
(* without one, may be served from the service's document if that has its  *)
(* operations too (mergeResources of all resources, which                  *)
(* PeekServiceFragment then finds).                                        *)
ShardFitsResource ==
  ShardGiven =>
    LET svc == outcome.svc
    IN /\ outcome.key \in svc.rsc
       /\ svc.kind = "openapi" => outcome.key \in layout.paths[svc.doc]
       /\ layout.resourcesRef =>
            \/ svc.doc = Home(outcome.key)
            \/ layout.registerDoc = NoDoc /\ svc.doc = layout.serviceRef

(* GetServiceShard succeeds on a handle that was never used.               *)
FreshServes(key) ==
  IF layout.resourcesRef
  THEN /\ key \in layout.register
       /\ Home(key) # NoDoc
       /\ Peers(key) \subseteq layout.paths[Home(key)]
  ELSE /\ layout.serviceRef # NoDoc
       /\ key \in layout.listed[layout.serviceRef]
       /\ layout.protocol = "http" =>
            layout.listed[layout.serviceRef] \subseteq layout.paths[layout.serviceRef]

(* Whether GetServiceShard finds a resource does not depend on the calls   *)
(* before, when all can be read, but for two cases, both of a register     *)
(* that names no document: a resource without one is refused because the   *)
(* service reference holds the fragment of another resource; one with a    *)
(* document that does not do is found in the service's document.           *)
RequestsAreIndependent ==
  outcome.op = "shard" /\ outcome.steady /\ outcome.key # EmptyKey =>
    LET key == outcome.key
        svc == outcome.svc
    IN /\ outcome.res = "error" /\ FreshServes(key) =>
            layout.resourcesRef /\ Named(key) = {} /\ svc # NoService
       /\ outcome.res = "ok" /\ ~FreshServes(key) =>
            /\ layout.resourcesRef /\ layout.registerDoc = NoDoc
            /\ layout.ownDoc[key] # NoDoc /\ svc.doc = layout.serviceRef

(* The level a setting of a resource's methods comes from does not depend  *)
(* on which of the handle's services the method was reached through, nor   *)
(* on the calls before (GetRetryPolicy over the references that loading    *)
(* leaves in the methods).                                                 *)
SettingIsStable ==
  [][\A r \in Resources : settled[r] # "unknown" => settled'[r] = settled[r]]_vars

(* A setting is never taken from a level while a nearer one declares it    *)
(* (GetRetryPolicy, GetQueryParamPushdown).                                *)
NearerLevelsWin ==
  \A r \in Resources : settled[r] \in Level =>
    settled[r] \in layout.declared /\ \A l \in layout.declared : Rank[settled[r]] <= Rank[l]

(* docs/retry_policy.md: a retry block lives at any of five levels, and    *)
(* the first level that declares one wins, "then a built-in default if     *)
(* nothing is declared".                                                   *)
EveryLevelInherited ==
  \A r \in Resources : settled[r] = "default" => layout.declared = {}
=============================================================================
