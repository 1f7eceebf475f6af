---------------------------- MODULE ProviderCache ----------------------------
(***************************************************************************)
(* The provider documents on disk and what is read from them: pulling,     *)
(* removing and loading versions (internal/anysdk/registry.go over HTTP,   *)
(* pkg/compression), and the discovery store's cache of resources          *)
(* (public/discovery/discovery.go over the key-value table of              *)
(* public/sqlengine).                                                      *)
(*                                                                         *)
(* The remote registry is the environment: it publishes a version of a     *)
(* provider, and may publish it again with other contents, each time as a  *)
(* new edition.  A pull is not atomic: a crash may fall between any two of *)
(* its steps, and sessions read the same directory meanwhile and share one *)
(* cache.  Pulls and removals are commands of one administrator, who       *)
(* issues one at a time; a session does one thing at a time.               *)
(***************************************************************************)
EXTENDS Integers, Sequences, FiniteSetsExt

CONSTANTS
  Provider,      \* names the user gives, such as "google" and "aws"
  Version,       \* the versions, ordered as semver orders them
  MaxEdition,    \* bound: how often a version is published
  Session,       \* the sessions that read documents
  nopVerifier,   \* registry config: signatures are not checked
  allowSrcDownload  \* registry config: single documents may be downloaded

ASSUME ProviderAssumption == Provider \subseteq STRING \ {"none"}
ASSUME VersionAssumption ==  \* there are finitely many
  Version \subseteq Nat /\ \E n \in Version : \A v \in Version : v <= n
ASSUME MaxEditionAssumption == MaxEdition \in Nat \ {0}
ASSUME ConfigAssumption == nopVerifier \in BOOLEAN /\ allowSrcDownload \in BOOLEAN

VARIABLES
  dirs,     \* the version directories that exist
  files,    \* what each file of each version holds
  broken,   \* the versions whose last pull or removal was cut short
  pull,     \* the pull under way
  handle,   \* the provider each session has loaded
  picked,   \* the version it is about to load
  request,  \* its request for resources that missed the cache
  kv        \* the cached resources of each key

disk == <<dirs, files, broken>>
session == <<handle, picked, request, kv>>
vars == <<disk, pull, session>>

-----------------------------------------------------------------------------
(* renameProvider: the directory of a provider.                            *)
renameProvider(p) == IF p = "google" THEN "googleapis.com" ELSE p

Dir == Provider \cup {renameProvider(p) : p \in Provider}
Place == Dir \X Version

(* Mistake: the key names the service alone.                               *)
cacheKeyOfService(p) == "google"

(* The key of a provider's resources in the cache: it names the provider   *)
(* and the service, not the version.                                       *)
cacheKey(p) == IF p \in {"googleapis.com", "google"} THEN "google" ELSE p

Key == {cacheKey(p) : p \in Provider}

(* A version's archive: its documents, each with its signature, after the  *)
(* header of the directory.                                                *)
Archive == <<"provider.yaml", "provider.yaml.sig", "service.yaml", "service.yaml.sig">>
File == {Archive[i] : i \in 1 .. Len(Archive)}
SigOf(f) == CASE f = "provider.yaml" -> "provider.yaml.sig"
              [] f = "service.yaml" -> "service.yaml.sig"

(* A file's contents: of an edition, all of them or a part.                *)
Content == [edition: 0 .. MaxEdition, whole: BOOLEAN]
Absent == [edition |-> 0, whole |-> TRUE]
NoFiles == [f \in File |-> Absent]

(* What was read of a version's document, and whether it was all there.    *)
None == [provider |-> "none", version |-> 0, whole |-> TRUE]
Doc == [provider: Provider, version: Version, whole: BOOLEAN] \cup {None}

(* A pull holds the archive it fetched (edition 0: an answer that is none, *)
(* such as a 404 page, for the status is not looked at) and its progress.  *)
Idle == [pc |-> "idle", place |-> <<"none", 0>>, edition |-> 0, next |-> 1]

(* A request for resources: it is to read the document, or to put what was *)
(* read into the cache.                                                    *)
NoRequest == [pc |-> "none", doc |-> None]
Request == [pc: {"none", "read", "put"}, doc: Doc]

TypeOK ==
  /\ dirs \subseteq Place
  /\ files \in [Place -> [File -> Content]]
  /\ broken \subseteq Place
  /\ pull \in [pc: {"idle", "header", "unpack", "write"}, place: Place \cup {<<"none", 0>>},
               edition: 0 .. MaxEdition, next: 1 .. Len(Archive) + 1]
  /\ handle \in [Session -> Doc]
  /\ picked \in [Session -> Doc]
  /\ request \in [Session -> Request]
  /\ kv \in [Key -> Doc]

Init ==
  /\ dirs = {}
  /\ files = [x \in Place |-> NoFiles]
  /\ broken = {}
  /\ pull = Idle
  /\ handle = [s \in Session |-> None]
  /\ picked = [s \in Session |-> None]
  /\ request = [s \in Session |-> NoRequest]
  /\ kv = [k \in Key |-> None]

-----------------------------------------------------------------------------
(* pullAndPersistProviderArchive *)

(* os.RemoveAll: the places are gone but for the ones kept, where it       *)
(* failed or died with some of the files removed.                          *)
RemoveAll(places, kept) ==
  /\ dirs' = (dirs \ places) \cup kept
  /\ broken' = (broken \ places) \cup kept
  /\ \E left \in SUBSET {e \in kept \X File : files[e[1]][e[2]] # Absent} :
       files' = [x \in Place |->
                   [f \in File |-> IF x \in places /\ <<x, f>> \notin left
                                   THEN Absent ELSE files[x][f]]]

(* Mistake: the old copy is left where it is.                              *)
OutdatedNone(x) == {}

(* The directory that makes room for the new copy.                         *)
Outdated(x) == {x}

(* The archive is fetched, a transport error ending the pull with nothing  *)
(* changed, and the old copy is removed.                                   *)
StartPull(p, v) ==
  LET x == <<renameProvider(p), v>>
  IN /\ pull = Idle
     /\ RemoveAll(Outdated(x), {})
     /\ \E edition \in 0 .. MaxEdition :
          pull' = [pc |-> "header", place |-> x, edition |-> edition, next |-> 1]
     /\ UNCHANGED session

(* The old copy could not be removed: the error is returned.               *)
RemoveFails(p, v) ==
  LET x == <<renameProvider(p), v>>
  IN /\ pull = Idle
     /\ x \in dirs
     /\ RemoveAll(Outdated(x), {x})
     /\ UNCHANGED <<pull, session>>

(* DecompressToPath, the first header: the version's directory.            *)
MakeDirectory ==
  /\ pull.pc = "header"
  /\ pull.edition > 0
  /\ dirs' = dirs \cup {pull.place}
  /\ broken' = broken \cup {pull.place}
  /\ pull' = [pull EXCEPT !.pc = "unpack"]
  /\ UNCHANGED <<files, session>>

(* The next header: a file is created.                                     *)
CreateFile ==
  /\ pull.pc = "unpack"
  /\ pull.next <= Len(Archive)
  /\ files' = [files EXCEPT ![pull.place][Archive[pull.next]] =
                 [edition |-> pull.edition, whole |-> FALSE]]
  /\ pull' = [pull EXCEPT !.pc = "write"]
  /\ UNCHANGED <<dirs, broken, session>>

(* Its contents are copied.                                                *)
CopyFile ==
  /\ pull.pc = "write"
  /\ files' = [files EXCEPT ![pull.place][Archive[pull.next]].whole = TRUE]
  /\ pull' = [pull EXCEPT !.pc = "unpack", !.next = @ + 1]
  /\ UNCHANGED <<dirs, broken, session>>

(* Mistake: any error from the archive's reader is taken for its end.      *)
PullSucceedsTruncated ==
  /\ pull.pc = "unpack"
  /\ broken' = broken \ {pull.place}
  /\ pull' = Idle
  /\ UNCHANGED <<dirs, files, session>>

(* The end of the archive.                                                 *)
PullSucceeds ==
  /\ pull.pc = "unpack"
  /\ pull.next > Len(Archive)
  /\ broken' = broken \ {pull.place}
  /\ pull' = Idle
  /\ UNCHANGED <<dirs, files, session>>

(* An answer that is no archive, a full disk or a broken connection: the   *)
(* error is returned and what was written stays.                           *)
UnpackFails ==
  /\ pull # Idle
  /\ pull' = Idle
  /\ UNCHANGED <<disk, session>>

(* The process of a session dies, and with it the pull, if it was the one  *)
(* that pulls; disk and cache stay as they are.                            *)
Crash(s) ==
  /\ pull' \in {pull, Idle}
  /\ handle' = [handle EXCEPT ![s] = None]
  /\ picked' = [picked EXCEPT ![s] = None]
  /\ request' = [request EXCEPT ![s] = NoRequest]
  /\ UNCHANGED <<disk, kv>>

(* RemoveProviderVersion, which may be cut short.                          *)
RemoveProviderVersion(p, v) ==
  LET x == <<renameProvider(p), v>>
  IN /\ pull = Idle
     /\ \E kept \in SUBSET ({x} \cap dirs) : RemoveAll({x}, kept)
     /\ UNCHANGED <<pull, session>>

(* ClearProviderCache, which may be cut short: the directory of the name   *)
(* as it was given.                                                        *)
ClearProviderCache(p) ==
  LET places == {<<p, v>> : v \in Version}
  IN /\ pull = Idle
     /\ \E kept \in SUBSET (places \cap dirs) : RemoveAll(places, kept)
     /\ UNCHANGED <<pull, session>>

-----------------------------------------------------------------------------
(* Reading documents *)

LocalVersions(p) == {v \in Version : <<renameProvider(p), v>> \in dirs}

(* getLatestAvailableVersion, over the directories that exist.             *)
getLatestAvailableVersion(p) == Max(LocalVersions(p))

(* Mistake: a document whose signature does not fit is taken on trust.     *)
AcceptedUnsigned(local, f) == local[f] # Absent

(* checkSignature: the signature is that of these contents.                *)
Accepted(local, f) ==
  /\ local[f] # Absent
  /\ nopVerifier \/ (local[SigOf(f)] = local[f] /\ local[f].whole)

(* getVerifiedDocResponse, for a registry over HTTP: what may be read, a   *)
(* document that is absent for an error.  A local file is read if its      *)
(* signature fits and not at all if it does not; a missing one may be      *)
(* downloaded, if the registry has it, in whichever edition it has then.   *)
getVerifiedDoc(p, v, f) ==
  LET local == files[renameProvider(p), v]
  IN CASE Accepted(local, f) -> {local[f]}
       [] local[f] = Absent /\ allowSrcDownload ->
            {[edition |-> e, whole |-> TRUE] : e \in 0 .. MaxEdition}
       [] OTHER -> {Absent}

(* What parsing makes of it: a document that was cut off may still parse.  *)
Parsed(p, v, f) ==
  LET docs == getVerifiedDoc(p, v, f)
  IN {[provider |-> p, version |-> v, whole |-> d.whole] : d \in docs \ {Absent}}
       \cup IF \E d \in docs : d = Absent \/ ~d.whole THEN {None} ELSE {}

(* A session that is in the middle of nothing.                             *)
Free(s) == picked[s] = None /\ request[s] = NoRequest

(* ProcessProviderDiscoveryDoc, first half: which version.                 *)
PickVersion(s, p) ==
  /\ Free(s)
  /\ LocalVersions(p) # {}
  /\ picked' = [picked EXCEPT ![s] =
       [provider |-> p, version |-> getLatestAvailableVersion(p), whole |-> TRUE]]
  /\ UNCHANGED <<disk, pull, handle, request, kv>>

(* Second half: LoadProviderByName, which may find it gone.                *)
LoadProvider(s) ==
  /\ picked[s] # None
  /\ \E doc \in Parsed(picked[s].provider, picked[s].version, "provider.yaml") :
       handle' = [handle EXCEPT ![s] = doc]
  /\ picked' = [picked EXCEPT ![s] = None]
  /\ UNCHANGED <<disk, pull, request, kv>>

(* processResourcesDiscoveryDoc, CacheStoreGet.  An entry that is found is *)
(* served as it is, which changes nothing; this is the other case: there   *)
(* is none, or the store fails, which is taken for the same.               *)
MissResources(s) ==
  /\ Free(s)
  /\ handle[s] # None
  /\ request' = [request EXCEPT ![s].pc = "read"]
  /\ UNCHANGED <<disk, pull, handle, picked, kv>>

(* GetResourcesShallowFromProviderService: the document of the version     *)
(* that is loaded is read; an error ends the request.                      *)
ReadResources(s) ==
  /\ request[s].pc = "read"
  /\ \E doc \in Parsed(handle[s].provider, handle[s].version, "service.yaml") :
       request' = [request EXCEPT ![s] =
                     IF doc = None THEN NoRequest ELSE [pc |-> "put", doc |-> doc]]
  /\ UNCHANGED <<disk, pull, handle, picked, kv>>

(* CacheStorePut: the entry, if another session has put one meanwhile, is  *)
(* replaced; or the transaction fails, and the request with it.            *)
PutResources(s) ==
  /\ request[s].pc = "put"
  /\ kv' \in {kv, [kv EXCEPT ![cacheKey(handle[s].provider)] = request[s].doc]}
  /\ request' = [request EXCEPT ![s] = NoRequest]
  /\ UNCHANGED <<disk, pull, handle, picked>>

PullStep == MakeDirectory \/ CreateFile \/ CopyFile \/ PullSucceeds \/ UnpackFails

SessionStep(s) ==
  \/ \E p \in Provider : PickVersion(s, p)
  \/ LoadProvider(s)
  \/ MissResources(s)
  \/ ReadResources(s)
  \/ PutResources(s)
  \/ Crash(s)

Next ==
  \/ \E p \in Provider, v \in Version :
       StartPull(p, v) \/ RemoveFails(p, v) \/ RemoveProviderVersion(p, v)
  \/ \E p \in Provider : ClearProviderCache(p)
  \/ PullStep
  \/ \E s \in Session : SessionStep(s)

Spec == Init /\ [][Next]_vars

-----------------------------------------------------------------------------
(* PROPERTIES *)

(* The files of a version are never of two editions, not even while a pull *)
(* runs or after one was cut short: the old copy is removed before the new *)
(* one is unpacked (pullAndPersistProviderArchive).                        *)
NeverMixed ==
  \A x \in Place : \A f, g \in File :
    (files[x][f].edition > 0 /\ files[x][g].edition > 0) =>
      files[x][f].edition = files[x][g].edition

(* Unless its own last pull or removal was cut short, a version that is    *)
(* found on disk can be loaded, provider document and service document: no *)
(* other command harms it, and a repeated pull repairs whatever a crash    *)
(* left (getLatestAvailableVersion, getVerifiedDocResponse, the pull).     *)
FoundVersionLoads ==
  \A p \in Provider : \A v \in LocalVersions(p) :
    <<renameProvider(p), v>> \notin broken =>
      \A f \in {"provider.yaml", "service.yaml"} : None \notin Parsed(p, v, f)

(* With signatures, no document that was cut off is loaded, read for the   *)
(* cache or held in it, whichever step of a pull or a removal it is read   *)
(* at and whichever session puts it there (getVerifiedDocResponse,         *)
(* processResourcesDiscoveryDoc).                                          *)
VerifiedIsWhole ==
  ~nopVerifier =>
    /\ \A s \in Session : handle[s].whole /\ request[s].doc.whole
    /\ \A k \in Key : kv[k].whole

(* Whichever sessions miss, read and put at once, what is cached where a   *)
(* session looks for its provider's resources was read from a document of  *)
(* that provider, under either of its names (processResourcesDiscoveryDoc, *)
(* renameProvider); of which version it was, nothing tells.                *)
ServedIsOwnProvider ==
  \A s \in Session :
    LET entry == kv[cacheKey(handle[s].provider)]
    IN (handle[s] # None /\ entry # None) =>
         renameProvider(entry.provider) = renameProvider(handle[s].provider)

(* What is read of the documents and cached for later calls is whole, and  *)
(* it is the provider's own (processResourcesDiscoveryDoc).                *)
CachedIsOwnAndWhole == VerifiedIsWhole /\ ServedIsOwnProvider

(* A pull touches no version but its own, whether it succeeds or not.      *)
PullSparesOthers ==
  [][pull # Idle \/ pull' # Idle =>
       \A x \in Place \ {pull.place, pull'.place} :
         files'[x] = files[x] /\ (x \in dirs' <=> x \in dirs)]_vars

=============================================================================
