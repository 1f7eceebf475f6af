------------------------- MODULE ProviderCacheProofs -------------------------
(***************************************************************************)
(* Proofs about ProviderCache, for every set of providers and versions and *)
(* any number of editions.                                                 *)
(***************************************************************************)
EXTENDS ProviderCache, WellFoundedInduction, TLAPS

(* A copy that is all there.                                               *)
Complete(x) ==
  \E e \in 1 .. MaxEdition : \A f \in File : files[x][f] = [edition |-> e, whole |-> TRUE]

(* What a pull has done so far: nothing but its own edition is where it    *)
(* works, the files up to the next one are all there, and the version      *)
(* counts as broken from the first file on.                                *)
PullInHand ==
  pull # Idle =>
    /\ pull.pc \in {"header", "unpack", "write"}
    /\ pull.place \in Place
    /\ pull.place \in dirs => pull.place \in broken
    /\ \A f \in File : files[pull.place][f].edition \in {0, pull.edition}
    /\ \A i \in 1 .. Len(Archive) : i < pull.next =>
         files[pull.place][Archive[i]] = [edition |-> pull.edition, whole |-> TRUE]
    /\ pull.pc \in {"unpack", "write"} => pull.edition > 0
    /\ pull.pc = "write" =>
         /\ pull.next <= Len(Archive)
         /\ files[pull.place][Archive[pull.next]].edition = pull.edition

(* A version that is found and not broken is complete.                     *)
UnbrokenComplete == \A x \in dirs \ broken : Complete(x)

(* What a session that is to fill the cache has in hand: the provider it   *)
(* loaded, of which the document is; it loads no other meanwhile.          *)
RequestInHand ==
  \A s \in Session :
    /\ request[s].pc # "none" => handle[s] # None /\ picked[s] = None
    /\ request[s].pc = "put" => request[s].doc.provider = handle[s].provider

(* Every entry is under its own provider's key.                            *)
OwnKeys == \A k \in Key : kv[k] # None => cacheKey(kv[k].provider) = k

(* The inductive invariant.                                                *)
IInv ==
  /\ TypeOK /\ NeverMixed /\ PullInHand /\ UnbrokenComplete
  /\ VerifiedIsWhole /\ RequestInHand /\ OwnKeys

-----------------------------------------------------------------------------
(* The archive has four files, no two of them the same.                    *)
LEMMA ArchiveFiles ==
  /\ Len(Archive) = 4
  /\ \A i \in 1 .. 4 : Archive[i] \in File
  /\ \A f \in File : \E i \in 1 .. 4 : f = Archive[i]
  /\ \A i, j \in 1 .. 4 : Archive[i] = Archive[j] => i = j
BY DEF Archive, File

(* The documents and their signatures are files of the archive.            *)
LEMMA Documents ==
  \A f \in {"provider.yaml", "service.yaml"} : f \in File /\ SigOf(f) \in File
<1>1. \A i \in 1 .. 4 : Archive[i] \in File
  BY ArchiveFiles
<1>2. /\ Archive[1] = "provider.yaml" /\ Archive[2] = "provider.yaml.sig"
      /\ Archive[3] = "service.yaml" /\ Archive[4] = "service.yaml.sig"
  BY DEF Archive
<1>3. /\ SigOf("provider.yaml") = "provider.yaml.sig"
      /\ SigOf("service.yaml") = "service.yaml.sig"
  BY DEF SigOf
<1> QED
  BY <1>1, <1>2, <1>3

(* Every version of every provider has its place.                          *)
LEMMA Places ==
  ASSUME NEW p \in Provider, NEW v \in Version
  PROVE  <<renameProvider(p), v>> \in Place /\ <<p, v>> \in Place
BY DEF Place, Dir

(* The least-number principle.                                             *)
LEMMA Least ==
  ASSUME NEW S \in SUBSET Nat, S # {}
  PROVE  \E m \in S : \A n \in S : m <= n
<1>1. PICK m \in S : \A n \in S : <<n, m>> \notin OpToRel(<, Nat)
  BY NatLessThanWellFounded, WFMin
<1>2. \A n \in S : ~(n < m)
  BY <1>1 DEF OpToRel
<1> QED
  BY <1>2

(* A provider with versions on disk has a latest one.                      *)
LEMMA LatestVersion ==
  ASSUME NEW p \in Provider, LocalVersions(p) # {}
  PROVE  getLatestAvailableVersion(p) \in LocalVersions(p)
<1> DEFINE L == LocalVersions(p)
<1>1. L \subseteq Version /\ L \subseteq Nat
  BY VersionAssumption DEF LocalVersions
<1>2. PICK n \in Nat : \A v \in L : v <= n
  BY <1>1, VersionAssumption
<1>3. {n - v : v \in L} \in SUBSET Nat /\ {n - v : v \in L} # {}
  BY <1>1, <1>2
<1>4. PICK m \in {n - v : v \in L} : \A k \in {n - v : v \in L} : m <= k
  BY <1>3, Least
<1>5. PICK w \in L : m = n - w
  BY <1>4
<1>6. \A y \in L : w >= y
  <2> SUFFICES ASSUME NEW y \in L PROVE w >= y
    OBVIOUS
  <2>1. n - w <= n - y
    BY <1>4, <1>5
  <2> QED
    BY <2>1, <1>1
<1> HIDE DEF L
<1>7. Max(L) \in L
  BY <1>5, <1>6 DEF Max
<1> QED
  BY <1>7 DEF getLatestAvailableVersion, L

(* What is read of a document is a document; with signatures it is whole.  *)
LEMMA ParsedDoc ==
  ASSUME TypeOK, NEW p \in Provider, NEW v \in Version,
         NEW f \in {"provider.yaml", "service.yaml"},
         NEW d \in Parsed(p, v, f)
  PROVE  d \in Doc /\ (~nopVerifier => d.whole)
<1> DEFINE local == files[renameProvider(p), v]
<1>1. local \in [File -> Content]
  BY Places DEF TypeOK
<1>2. Absent \in Content /\ Absent.whole
  BY MaxEditionAssumption DEF Absent, Content
<1>3. \A c \in getVerifiedDoc(p, v, f) : c.whole \in BOOLEAN /\ (~nopVerifier => c.whole)
  <2> SUFFICES ASSUME NEW c \in getVerifiedDoc(p, v, f)
               PROVE  c.whole \in BOOLEAN /\ (~nopVerifier => c.whole)
    OBVIOUS
  <2>1. CASE Accepted(local, f)
    <3>1. c = local[f]
      BY <2>1 DEF getVerifiedDoc, Accepted
    <3>2. ~nopVerifier => local[f].whole
      BY <2>1 DEF Accepted
    <3> QED
      BY <3>1, <3>2, <1>1, Documents DEF Content
  <2>2. CASE ~Accepted(local, f) /\ local[f] = Absent /\ allowSrcDownload
    <3>1. c \in {[edition |-> e, whole |-> TRUE] : e \in 0 .. MaxEdition}
      BY <2>2 DEF getVerifiedDoc
    <3>2. PICK e \in 0 .. MaxEdition : c = [edition |-> e, whole |-> TRUE]
      BY <3>1
    <3>3. c.whole = TRUE
      BY <3>2
    <3> QED
      BY <3>3
  <2>3. CASE ~Accepted(local, f) /\ ~(local[f] = Absent /\ allowSrcDownload)
    <3>1. c = Absent
      BY <2>3 DEF getVerifiedDoc
    <3> QED
      BY <3>1, <1>2 DEF Absent
  <2> QED
    BY <2>1, <2>2, <2>3
<1>4. CASE d = None
  BY <1>4 DEF None, Doc
<1>5. CASE d # None
  <2>1. PICK c \in getVerifiedDoc(p, v, f) : d = [provider |-> p, version |-> v, whole |-> c.whole]
    BY <1>5 DEF Parsed
  <2> QED
    BY <2>1, <1>3 DEF Doc
<1> QED
  BY <1>4, <1>5

-----------------------------------------------------------------------------
(* The parts of the invariant that only the disk and the pull matter to.   *)
DiskInv ==
  /\ dirs \subseteq Place
  /\ files \in [Place -> [File -> Content]]
  /\ broken \subseteq Place
  /\ NeverMixed
  /\ UnbrokenComplete

(* A removal, cut short or not, keeps the disk in order, clears the places *)
(* it was to clear except the ones kept, and leaves the others alone.      *)
LEMMA RemoveAllKeeps ==
  ASSUME DiskInv, NEW places \in SUBSET Place, NEW kept \in SUBSET (places \cap dirs),
         RemoveAll(places, kept)
  PROVE  /\ DiskInv'
         /\ \A x \in Place \ places :
              files'[x] = files[x] /\ (x \in dirs' <=> x \in dirs)
         /\ \A x \in places \ kept : x \notin dirs' /\ \A f \in File : files'[x][f] = Absent
<1>1. PICK left : files' = [x \in Place |->
                              [f \in File |-> IF x \in places /\ <<x, f>> \notin left
                                              THEN Absent ELSE files[x][f]]]
                  /\ left \subseteq kept \X File
  BY DEF RemoveAll
<1>2. Absent \in Content /\ Absent.edition = 0
  BY MaxEditionAssumption DEF Absent, Content
<1>3. \A x \in Place, f \in File : files'[x][f] \in {Absent, files[x][f]}
  BY <1>1
<1>4. \A x \in Place \ places : files'[x] = files[x]
  <2> SUFFICES ASSUME NEW x \in Place \ places
               PROVE  files'[x] = files[x]
    OBVIOUS
  <2>1. files'[x] = [f \in File |-> files[x][f]]
    BY <1>1
  <2>2. files[x] \in [File -> Content]
    BY DEF DiskInv
  <2> QED
    BY <2>1, <2>2
<1>5. dirs' = (dirs \ places) \cup kept /\ broken' = (broken \ places) \cup kept
  BY DEF RemoveAll
<1>6. files' \in [Place -> [File -> Content]]
  <2>1. files \in [Place -> [File -> Content]]
    BY DEF DiskInv
  <2> QED
    BY <1>1, <1>2, <2>1
<1>7. NeverMixed'
  BY <1>2, <1>3 DEF NeverMixed, DiskInv
<1>8. UnbrokenComplete'
  <2> SUFFICES ASSUME NEW x \in dirs' \ broken'
               PROVE  Complete(x)'
    BY DEF UnbrokenComplete
  <2>1. x \in dirs \ places /\ x \notin broken
    BY <1>5
  <2>2. Complete(x) /\ x \in Place \ places
    BY <2>1 DEF DiskInv, UnbrokenComplete
  <2> QED
    BY <2>2, <1>4 DEF Complete
<1>9. \A x \in places \ kept : \A f \in File : files'[x][f] = Absent
  BY <1>1
<1> QED
  BY <1>4, <1>5, <1>6, <1>7, <1>8, <1>9 DEF DiskInv

(* The initial state.                                                      *)
LEMMA InitInv == Init => IInv
<1> SUFFICES ASSUME Init PROVE IInv
  OBVIOUS
<1>1. Absent \in Content /\ Absent.edition = 0
  BY MaxEditionAssumption DEF Absent, Content
<1>2. files \in [Place -> [File -> Content]]
  BY <1>1 DEF Init, NoFiles
<1>3. Idle.pc = "idle" /\ Idle.place = <<"none", 0>> /\ Idle.edition = 0 /\ Idle.next = 1
  BY DEF Idle
<1>4. pull \in [pc: {"idle", "header", "unpack", "write"}, place: Place \cup {<<"none", 0>>},
                edition: 0 .. MaxEdition, next: 1 .. Len(Archive) + 1]
  BY ArchiveFiles, MaxEditionAssumption DEF Init, Idle
<1>5. None \in Doc /\ None.whole
  BY ProviderAssumption DEF None, Doc
<1>6. TypeOK
  <2>1. request \in [Session -> Request]
    BY <1>5 DEF Init, NoRequest, Request
  <2> QED
    BY <1>2, <1>4, <1>5, <2>1 DEF TypeOK, Init
<1>7. NeverMixed
  BY <1>1 DEF Init, NoFiles, NeverMixed
<1>8. PullInHand /\ UnbrokenComplete
  BY DEF Init, PullInHand, UnbrokenComplete
<1>9. VerifiedIsWhole
  BY <1>5 DEF Init, VerifiedIsWhole, NoRequest
<1>10. RequestInHand /\ OwnKeys
  BY DEF Init, RequestInHand, OwnKeys, NoRequest
<1> QED
  BY <1>6, <1>7, <1>8, <1>9, <1>10 DEF IInv

-----------------------------------------------------------------------------
(* A pull's type.                                                          *)
PullType ==
  [pc: {"idle", "header", "unpack", "write"}, place: Place \cup {<<"none", 0>>},
   edition: 0 .. MaxEdition, next: 1 .. Len(Archive) + 1]

(* The part of the invariant that is about the sessions and the cache.     *)
SessionInv ==
  /\ handle \in [Session -> Doc]
  /\ picked \in [Session -> Doc]
  /\ request \in [Session -> Request]
  /\ kv \in [Key -> Doc]
  /\ VerifiedIsWhole /\ RequestInHand /\ OwnKeys

(* The parts that make up the invariant.                                   *)
LEMMA Assembled ==
  IInv <=> /\ DiskInv
           /\ pull \in PullType
           /\ PullInHand
           /\ SessionInv
BY DEF IInv, DiskInv, TypeOK, PullType, SessionInv

(* No pull under way, or one that has just ended.                          *)
LEMMA IdleInHand == pull = Idle => PullInHand /\ pull \in PullType
BY ArchiveFiles, MaxEditionAssumption DEF PullInHand, Idle, PullType

(* A session that is left alone keeps its part of the invariant.           *)
LEMMA SessionKept ==
  ASSUME IInv, UNCHANGED session
  PROVE  SessionInv'
<1>1. SessionInv
  BY Assembled
<1> QED
  BY <1>1 DEF SessionInv, session, VerifiedIsWhole, RequestInHand, OwnKeys

LEMMA DiskKept ==
  ASSUME IInv, UNCHANGED disk
  PROVE  DiskInv'
<1>1. DiskInv
  BY Assembled
<1> QED
  BY <1>1 DEF disk, DiskInv, NeverMixed, UnbrokenComplete, Complete

LEMMA PullKept ==
  ASSUME IInv, UNCHANGED <<disk, pull>>
  PROVE  PullInHand' /\ (pull \in PullType)'
<1>1. PullInHand /\ pull \in PullType
  BY Assembled
<1> QED
  BY <1>1 DEF disk, PullInHand, PullType

(* The primed form of Assembled.                                           *)
LEMMA AssembledNext ==
  ASSUME DiskInv', (pull \in PullType)', PullInHand', SessionInv'
  PROVE  IInv'
BY DEF IInv, DiskInv, TypeOK, PullType, SessionInv

LEMMA StartPullInv ==
  ASSUME IInv, NEW p \in Provider, NEW v \in Version, StartPull(p, v)
  PROVE  IInv'
<1> DEFINE x == <<renameProvider(p), v>>
<1>1. DiskInv /\ x \in Place
  BY Assembled, Places
<1>2. RemoveAll({x}, {})
  BY DEF StartPull, Outdated
<1>3. /\ DiskInv'
      /\ x \notin dirs'
      /\ \A f \in File : files'[x][f] = Absent
  <2> DEFINE places == {x}
             kept == {}
  <2>1. places \in SUBSET Place /\ kept \in SUBSET (places \cap dirs)
    BY <1>1
  <2>2. x \in places \ kept
    OBVIOUS
  <2>3. RemoveAll(places, kept)
    BY <1>2
  <2> HIDE DEF x, places, kept
  <2> QED
    BY <1>1, <2>1, <2>2, <2>3, RemoveAllKeeps
<1>4. PICK e \in 0 .. MaxEdition :
        pull' = [pc |-> "header", place |-> x, edition |-> e, next |-> 1]
  BY DEF StartPull
<1> HIDE DEF x
<1>5. PullInHand'
  <2>1. Absent.edition = 0
    BY DEF Absent
  <2> QED
    BY <1>1, <1>3, <1>4, <2>1 DEF PullInHand
<1>6. (pull \in PullType)'
  BY <1>1, <1>4, ArchiveFiles DEF PullType
<1>7. UNCHANGED session
  BY DEF StartPull
<1> QED
  BY <1>3, <1>5, <1>6, <1>7, SessionKept, AssembledNext

LEMMA CreateFileInv ==
  ASSUME IInv, CreateFile
  PROVE  IInv'
<1> DEFINE x == pull.place
           g == Archive[pull.next]
<1>1. DiskInv /\ PullInHand /\ pull \in PullType
  BY Assembled
<1>2. pull # Idle /\ pull.pc = "unpack" /\ pull.next <= Len(Archive)
  BY DEF CreateFile, Idle
<1>3. x \in Place /\ pull.next \in 1 .. 4 /\ g \in File /\ pull.edition \in 0 .. MaxEdition
  BY <1>1, <1>2, ArchiveFiles DEF PullInHand, PullType
<1>4. files \in [Place -> [File -> Content]]
  BY <1>1 DEF DiskInv
<1>5. files' = [files EXCEPT ![x][g] = [edition |-> pull.edition, whole |-> FALSE]]
  BY DEF CreateFile
<1>6. pull' = [pull EXCEPT !.pc = "write"] /\ UNCHANGED session
  BY DEF CreateFile
<1>7. dirs' = dirs /\ broken' = broken /\ (x \in dirs => x \in broken) /\ pull.edition > 0
  BY <1>1, <1>2 DEF CreateFile, PullInHand
<1>8. \A f \in File : files[x][f].edition \in {0, pull.edition}
  BY <1>1, <1>2 DEF PullInHand
<1>9. \A i \in 1 .. Len(Archive) : i < pull.next =>
         files[x][Archive[i]] = [edition |-> pull.edition, whole |-> TRUE]
  BY <1>1, <1>2 DEF PullInHand
<1>10. [edition |-> pull.edition, whole |-> FALSE] \in Content
  BY <1>3 DEF Content
<1> HIDE DEF x, g
<1>11. files' \in [Place -> [File -> Content]]
  BY <1>3, <1>4, <1>5, <1>10
<1>12. /\ \A y \in Place : y # x => files'[y] = files[y]
       /\ \A f \in File : f # g => files'[x][f] = files[x][f]
       /\ files'[x][g] = [edition |-> pull.edition, whole |-> FALSE]
  BY <1>3, <1>4, <1>5
<1>13. \A f \in File : files'[x][f].edition \in {0, pull.edition}
  BY <1>8, <1>12
<1>14. NeverMixed'
  BY <1>1, <1>12, <1>13 DEF NeverMixed, DiskInv
<1>15. UnbrokenComplete'
  <2> SUFFICES ASSUME NEW y \in dirs' \ broken'
               PROVE  Complete(y)'
    BY DEF UnbrokenComplete
  <2>1. y \in dirs \ broken /\ y # x /\ y \in Place
    BY <1>1, <1>7 DEF DiskInv
  <2>2. Complete(y)
    BY <2>1, <1>1 DEF DiskInv, UnbrokenComplete
  <2> QED
    BY <2>1, <2>2, <1>12 DEF Complete
<1>16. DiskInv'
  BY <1>1, <1>3, <1>7, <1>11, <1>14, <1>15 DEF DiskInv
<1>17. /\ pull'.pc = "write" /\ pull'.place = x
       /\ pull'.edition = pull.edition /\ pull'.next = pull.next
  BY <1>1, <1>6 DEF PullType, x
<1>18. (pull \in PullType)'
  BY <1>1, <1>6 DEF PullType
<1>19. \A i \in 1 .. Len(Archive) : i < pull.next => Archive[i] \in File /\ Archive[i] # g
  BY <1>3, ArchiveFiles DEF g
<1>20. PullInHand'
  <2>1. \A i \in 1 .. Len(Archive) : i < pull.next =>
           files'[x][Archive[i]] = [edition |-> pull.edition, whole |-> TRUE]
    BY <1>9, <1>12, <1>19
  <2>2. files'[x][Archive[pull.next]].edition = pull.edition
    BY <1>12 DEF g
  <2> QED
    BY <1>2, <1>3, <1>7, <1>13, <1>17, <2>1, <2>2 DEF PullInHand
<1>21. UNCHANGED session
  BY <1>6
<1> QED
  BY <1>16, <1>18, <1>20, <1>21, SessionKept, AssembledNext
LEMMA CopyFileInv ==
  ASSUME IInv, CopyFile
  PROVE  IInv'
<1> DEFINE x == pull.place
           g == Archive[pull.next]
<1>1. DiskInv /\ PullInHand /\ pull \in PullType
  BY Assembled
<1>2. pull # Idle /\ pull.pc = "write"
  BY DEF CopyFile, Idle
<1>3. /\ x \in Place /\ pull.next \in 1 .. 4 /\ g \in File
      /\ pull.edition \in 0 .. MaxEdition /\ pull.edition > 0
      /\ files[x][g].edition = pull.edition
      /\ x \in dirs => x \in broken
  BY <1>1, <1>2, ArchiveFiles DEF PullInHand, PullType
<1>4. files \in [Place -> [File -> Content]]
  BY <1>1 DEF DiskInv
<1>5. files' = [files EXCEPT ![x][g].whole = TRUE]
  BY DEF CopyFile
<1>6. /\ pull' = [pull EXCEPT !.pc = "unpack", !.next = @ + 1]
      /\ UNCHANGED <<dirs, broken, session>>
  BY DEF CopyFile
<1>7. \A f \in File : files[x][f].edition \in {0, pull.edition}
  BY <1>1, <1>2 DEF PullInHand
<1>8. \A i \in 1 .. Len(Archive) : i < pull.next =>
         files[x][Archive[i]] = [edition |-> pull.edition, whole |-> TRUE]
  BY <1>1, <1>2 DEF PullInHand
<1> DEFINE c == [files[x][g] EXCEPT !.whole = TRUE]
<1>9. c = [edition |-> pull.edition, whole |-> TRUE] /\ c \in Content
  <2>1. files[x][g] \in [edition: 0 .. MaxEdition, whole: BOOLEAN]
    BY <1>3, <1>4 DEF Content
  <2> DEFINE old == files[x][g]
  <2>2. old \in [edition: 0 .. MaxEdition, whole: BOOLEAN] /\ old.edition = pull.edition
    BY <2>1, <1>3
  <2> HIDE DEF old
  <2> DEFINE new == [old EXCEPT !.whole = TRUE]
  <2>3. new \in [edition: 0 .. MaxEdition, whole: BOOLEAN]
    BY <2>2
  <2>4. new.edition = pull.edition /\ new.whole = TRUE
    BY <2>2
  <2>5. c = new
    BY DEF old
  <2> HIDE DEF new, c
  <2>6. new = [edition |-> pull.edition, whole |-> TRUE]
    BY <2>3, <2>4
  <2> QED
    BY <2>3, <2>5, <2>6 DEF Content
<1>10. files' = [files EXCEPT ![x][g] = c]
  BY <1>3, <1>4, <1>5
<1> HIDE DEF x, g, c
<1>11. files' \in [Place -> [File -> Content]]
  BY <1>3, <1>4, <1>9, <1>10
<1>12. /\ \A y \in Place : y # x => files'[y] = files[y]
       /\ \A f \in File : f # g => files'[x][f] = files[x][f]
       /\ files'[x][g] = c
  BY <1>3, <1>4, <1>10
<1>13. \A f \in File : files'[x][f].edition \in {0, pull.edition}
  BY <1>7, <1>9, <1>12
<1>14. NeverMixed'
  BY <1>1, <1>12, <1>13 DEF NeverMixed, DiskInv
<1>15. UnbrokenComplete'
  <2> SUFFICES ASSUME NEW y \in dirs' \ broken'
               PROVE  Complete(y)'
    BY DEF UnbrokenComplete
  <2>1. y \in dirs \ broken /\ y # x /\ y \in Place
    BY <1>1, <1>3, <1>6 DEF DiskInv
  <2>2. Complete(y)
    BY <2>1, <1>1 DEF DiskInv, UnbrokenComplete
  <2> QED
    BY <2>1, <2>2, <1>12 DEF Complete
<1>16. DiskInv'
  BY <1>1, <1>6, <1>11, <1>14, <1>15 DEF DiskInv
<1>17. /\ pull'.pc = "unpack" /\ pull'.place = x
       /\ pull'.edition = pull.edition /\ pull'.next = pull.next + 1
  BY <1>1, <1>6 DEF PullType, x
<1>18. (pull \in PullType)'
  <2>1. pull.next + 1 \in 1 .. Len(Archive) + 1
    BY <1>3, ArchiveFiles
  <2>2. Len(Archive) + 1 = 5
    BY ArchiveFiles
  <2> QED
    BY <1>1, <1>6, <2>1, <2>2 DEF PullType
<1>19. \A i \in 1 .. Len(Archive) : i < pull.next => Archive[i] \in File /\ Archive[i] # g
  BY <1>3, ArchiveFiles DEF g
<1>20. PullInHand'
  <2>1. \A i \in 1 .. Len(Archive) : i < pull.next + 1 =>
           files'[x][Archive[i]] = [edition |-> pull.edition, whole |-> TRUE]
    <3> SUFFICES ASSUME NEW i \in 1 .. Len(Archive), i < pull.next + 1
                 PROVE  files'[x][Archive[i]] = [edition |-> pull.edition, whole |-> TRUE]
      OBVIOUS
    <3>1. CASE i < pull.next
      BY <3>1, <1>8, <1>12, <1>19
    <3>2. CASE i = pull.next
      BY <3>2, <1>9, <1>12 DEF g
    <3> QED
      BY <3>1, <3>2, <1>3, ArchiveFiles
  <2> QED
    BY <1>3, <1>6, <1>13, <1>17, <2>1 DEF PullInHand
<1>21. UNCHANGED session
  BY <1>6
<1> QED
  BY <1>16, <1>18, <1>20, <1>21, SessionKept, AssembledNext

LEMMA PullSucceedsInv ==
  ASSUME IInv, PullSucceeds
  PROVE  IInv'
<1> DEFINE x == pull.place
<1>1. DiskInv /\ PullInHand /\ pull \in PullType
  BY Assembled
<1>2. pull # Idle /\ pull.edition > 0 /\ pull.next > Len(Archive)
  BY <1>1 DEF PullSucceeds, Idle, PullInHand
<1>3. /\ dirs' = dirs /\ files' = files /\ broken' = broken \ {x}
      /\ pull' = Idle /\ UNCHANGED session
  BY DEF PullSucceeds
<1>4. \A f \in File : files[x][f] = [edition |-> pull.edition, whole |-> TRUE]
  <2>1. \A i \in 1 .. 4 : files[x][Archive[i]] = [edition |-> pull.edition, whole |-> TRUE]
    BY <1>1, <1>2, ArchiveFiles DEF PullInHand, PullType
  <2> QED
    BY <2>1, ArchiveFiles
<1>5. Complete(x)
  <2>1. pull.edition \in 1 .. MaxEdition
    BY <1>1, <1>2, MaxEditionAssumption DEF PullType
  <2> QED
    BY <2>1, <1>4 DEF Complete
<1> HIDE DEF x
<1>6. UnbrokenComplete'
  BY <1>1, <1>3, <1>5 DEF DiskInv, UnbrokenComplete, Complete
<1>7. DiskInv'
  BY <1>1, <1>3, <1>6 DEF DiskInv, NeverMixed
<1>8. PullInHand' /\ (pull \in PullType)'
  BY <1>3, ArchiveFiles, MaxEditionAssumption DEF PullInHand, Idle, PullType
<1>9. UNCHANGED session
  BY <1>3
<1> QED
  BY <1>7, <1>8, <1>9, SessionKept, AssembledNext

(* A removal while no pull is under way, whatever is kept.                 *)
LEMMA RemovalInv ==
  ASSUME IInv, NEW places \in SUBSET Place, NEW kept \in SUBSET (places \cap dirs),
         RemoveAll(places, kept), pull' = Idle, UNCHANGED session
  PROVE  IInv'
<1>1. DiskInv'
  BY Assembled, RemoveAllKeeps
<1>2. PullInHand' /\ (pull \in PullType)'
  BY ArchiveFiles, MaxEditionAssumption DEF PullInHand, Idle, PullType
<1> QED
  BY <1>1, <1>2, SessionKept, AssembledNext

LEMMA RemoveFailsInv ==
  ASSUME IInv, NEW p \in Provider, NEW v \in Version, RemoveFails(p, v)
  PROVE  IInv'
<1> DEFINE x == <<renameProvider(p), v>>
           places == {x}
<1>1. /\ places \in SUBSET Place /\ places \in SUBSET (places \cap dirs)
      /\ RemoveAll(places, places) /\ pull' = Idle /\ UNCHANGED session
  BY Places DEF RemoveFails, Outdated
<1> HIDE DEF x, places
<1> QED
  BY <1>1, RemovalInv

LEMMA RemoveProviderVersionInv ==
  ASSUME IInv, NEW p \in Provider, NEW v \in Version, RemoveProviderVersion(p, v)
  PROVE  IInv'
<1> DEFINE x == <<renameProvider(p), v>>
           places == {x}
<1>1. PICK kept \in SUBSET (places \cap dirs) : RemoveAll(places, kept)
  BY DEF RemoveProviderVersion
<1>2. places \in SUBSET Place /\ pull' = Idle /\ UNCHANGED session
  BY Places DEF RemoveProviderVersion
<1> HIDE DEF x, places
<1> QED
  BY <1>1, <1>2, RemovalInv

LEMMA ClearProviderCacheInv ==
  ASSUME IInv, NEW p \in Provider, ClearProviderCache(p)
  PROVE  IInv'
<1> DEFINE places == {<<p, v>> : v \in Version}
<1>1. PICK kept \in SUBSET (places \cap dirs) : RemoveAll(places, kept)
  BY DEF ClearProviderCache
<1>2. places \in SUBSET Place /\ pull' = Idle /\ UNCHANGED session
  BY Places DEF ClearProviderCache
<1> HIDE DEF places
<1> QED
  BY <1>1, <1>2, RemovalInv

LEMMA MakeDirectoryInv ==
  ASSUME IInv, MakeDirectory
  PROVE  IInv'
<1> DEFINE x == pull.place
<1>1. DiskInv /\ PullInHand /\ pull \in PullType
  BY Assembled
<1>2. pull # Idle /\ pull.pc = "header" /\ pull.edition > 0
  BY DEF MakeDirectory, Idle
<1>3. /\ dirs' = dirs \cup {x} /\ broken' = broken \cup {x} /\ files' = files
      /\ pull' = [pull EXCEPT !.pc = "unpack"] /\ UNCHANGED session
  BY DEF MakeDirectory
<1>4. x \in Place
  BY <1>1, <1>2 DEF PullInHand
<1>5. /\ pull'.pc = "unpack" /\ pull'.place = x /\ pull'.edition = pull.edition
      /\ pull'.next = pull.next
  BY <1>1, <1>3 DEF PullType
<1> HIDE DEF x
<1>6. UnbrokenComplete'
  BY <1>1, <1>3 DEF DiskInv, UnbrokenComplete, Complete
<1>7. DiskInv'
  BY <1>1, <1>3, <1>4, <1>6 DEF DiskInv, NeverMixed
<1>8. (pull \in PullType)'
  BY <1>1, <1>3 DEF PullType
<1>9. PullInHand'
  <2>1. /\ \A f \in File : files[x][f].edition \in {0, pull.edition}
        /\ \A i \in 1 .. Len(Archive) : i < pull.next =>
             files[x][Archive[i]] = [edition |-> pull.edition, whole |-> TRUE]
    BY <1>1, <1>2 DEF PullInHand, x
  <2>2. dirs' = dirs \cup {x} /\ broken' = broken \cup {x} /\ files' = files
    BY <1>3
  <2> QED
    BY <1>2, <1>4, <1>5, <2>1, <2>2 DEF PullInHand
<1> QED
  BY <1>3, <1>7, <1>8, <1>9, SessionKept, AssembledNext

LEMMA UnpackFailsInv ==
  ASSUME IInv, UnpackFails
  PROVE  IInv'
<1>1. UNCHANGED disk /\ UNCHANGED session /\ pull' = Idle
  BY DEF UnpackFails
<1>2. PullInHand' /\ (pull \in PullType)'
  BY <1>1, ArchiveFiles, MaxEditionAssumption DEF PullInHand, Idle, PullType
<1> QED
  BY <1>1, <1>2, DiskKept, SessionKept, AssembledNext

(* A step of a session that leaves disk and pull alone.                    *)
LEMMA SessionSteps ==
  ASSUME IInv, UNCHANGED <<disk, pull>>, SessionInv'
  PROVE  IInv'
BY DiskKept, PullKept, AssembledNext DEF disk

(* What a session may be in: nothing.                                      *)
LEMMA Nothing ==
  /\ None \in Doc /\ None.whole
  /\ NoRequest \in Request /\ NoRequest.pc = "none" /\ NoRequest.doc.whole
<1>1. None \in Doc /\ None.whole
  BY ProviderAssumption DEF None, Doc
<1> QED
  BY <1>1 DEF NoRequest, Request

LEMMA CrashInv ==
  ASSUME IInv, NEW s \in Session, Crash(s)
  PROVE  IInv'
<1>1. SessionInv
  BY Assembled
<1>2. SessionInv'
  <2>1. /\ handle' \in [Session -> Doc] /\ picked' \in [Session -> Doc]
        /\ request' \in [Session -> Request] /\ kv' = kv
    BY <1>1, Nothing DEF Crash, SessionInv
  <2>2. \A t \in Session :
          \/ handle'[t] = handle[t] /\ picked'[t] = picked[t] /\ request'[t] = request[t]
          \/ handle'[t] = None /\ request'[t] = NoRequest
    BY <1>1 DEF Crash, SessionInv
  <2>3. VerifiedIsWhole' /\ RequestInHand' /\ OwnKeys'
    BY <1>1, <2>1, <2>2, Nothing DEF SessionInv, VerifiedIsWhole, RequestInHand, OwnKeys
  <2> QED
    BY <1>1, <2>1, <2>3 DEF SessionInv
<1>3. UNCHANGED disk
  BY DEF Crash
<1>4. CASE pull' = pull
  BY <1>2, <1>3, <1>4, SessionSteps
<1>5. CASE pull' = Idle
  <2>1. PullInHand' /\ (pull \in PullType)'
    BY <1>5, ArchiveFiles, MaxEditionAssumption DEF PullInHand, Idle, PullType
  <2> QED
    BY <1>2, <1>3, <2>1, DiskKept, AssembledNext
<1> QED
  BY <1>4, <1>5 DEF Crash

LEMMA PickVersionInv ==
  ASSUME IInv, NEW s \in Session, NEW p \in Provider, PickVersion(s, p)
  PROVE  IInv'
<1>1. SessionInv /\ UNCHANGED <<disk, pull>> /\ UNCHANGED <<handle, request, kv>>
  BY Assembled DEF PickVersion
<1> DEFINE doc == [provider |-> p, version |-> getLatestAvailableVersion(p), whole |-> TRUE]
<1>2. doc \in Doc
  <2>1. getLatestAvailableVersion(p) \in Version
    BY LatestVersion DEF PickVersion, LocalVersions
  <2> QED
    BY <2>1 DEF Doc
<1>3. picked' = [picked EXCEPT ![s] = doc] /\ request[s].pc = "none"
  BY Nothing DEF PickVersion, Free
<1> HIDE DEF doc
<1>4. /\ picked' \in [Session -> Doc]
      /\ \A t \in Session : request[t].pc # "none" => picked'[t] = picked[t]
  BY <1>1, <1>2, <1>3 DEF SessionInv
<1>5. VerifiedIsWhole' /\ RequestInHand' /\ OwnKeys'
  BY <1>1, <1>4 DEF SessionInv, VerifiedIsWhole, RequestInHand, OwnKeys
<1>6. SessionInv'
  BY <1>1, <1>4, <1>5 DEF SessionInv
<1> QED
  BY <1>1, <1>6, SessionSteps

LEMMA LoadProviderInv ==
  ASSUME IInv, NEW s \in Session, LoadProvider(s)
  PROVE  IInv'
<1>1. SessionInv /\ UNCHANGED <<disk, pull>> /\ UNCHANGED <<request, kv>> /\ TypeOK
  BY Assembled DEF LoadProvider, IInv
<1>2. picked[s].provider \in Provider /\ picked[s].version \in Version
  BY <1>1 DEF LoadProvider, SessionInv, Doc
<1>3. PICK doc \in Parsed(picked[s].provider, picked[s].version, "provider.yaml") :
        handle' = [handle EXCEPT ![s] = doc]
  BY DEF LoadProvider
<1>4. doc \in Doc /\ (~nopVerifier => doc.whole)
  BY <1>1, <1>2, ParsedDoc
<1>5. /\ handle' \in [Session -> Doc] /\ picked' \in [Session -> Doc]
      /\ handle'[s] = doc /\ request[s].pc = "none"
      /\ \A t \in Session : t # s => handle'[t] = handle[t] /\ picked'[t] = picked[t]
  BY <1>1, <1>3, <1>4, Nothing DEF LoadProvider, SessionInv, RequestInHand
<1>6. VerifiedIsWhole' /\ RequestInHand' /\ OwnKeys'
  BY <1>1, <1>4, <1>5 DEF SessionInv, VerifiedIsWhole, RequestInHand, OwnKeys
<1>7. SessionInv'
  BY <1>1, <1>5, <1>6 DEF SessionInv
<1> QED
  BY <1>1, <1>7, SessionSteps

LEMMA MissResourcesInv ==
  ASSUME IInv, NEW s \in Session, MissResources(s)
  PROVE  IInv'
<1>1. /\ SessionInv /\ UNCHANGED <<disk, pull>> /\ UNCHANGED <<handle, picked, kv>>
      /\ picked[s] = None /\ handle[s] # None
  BY Assembled DEF MissResources, Free
<1>2. /\ request' \in [Session -> Request]
      /\ request'[s].pc = "read" /\ request'[s].doc = request[s].doc
      /\ \A t \in Session : t # s => request'[t] = request[t]
  BY <1>1 DEF MissResources, SessionInv, Request
<1>3. VerifiedIsWhole' /\ RequestInHand' /\ OwnKeys'
  BY <1>1, <1>2 DEF SessionInv, VerifiedIsWhole, RequestInHand, OwnKeys
<1>4. SessionInv'
  BY <1>1, <1>2, <1>3 DEF SessionInv
<1> QED
  BY <1>1, <1>4, SessionSteps

LEMMA ReadResourcesInv ==
  ASSUME IInv, NEW s \in Session, ReadResources(s)
  PROVE  IInv'
<1>1. /\ SessionInv /\ UNCHANGED <<disk, pull>> /\ UNCHANGED <<handle, picked, kv>>
      /\ TypeOK /\ request[s].pc = "read"
  BY Assembled DEF ReadResources, IInv
<1>2. handle[s].provider \in Provider /\ handle[s].version \in Version
  BY <1>1 DEF SessionInv, RequestInHand, Doc
<1>3. PICK doc \in Parsed(handle[s].provider, handle[s].version, "service.yaml") :
        request' = [request EXCEPT ![s] =
                      IF doc = None THEN NoRequest ELSE [pc |-> "put", doc |-> doc]]
  BY DEF ReadResources
<1>4. doc \in Doc /\ (~nopVerifier => doc.whole)
  BY <1>1, <1>2, ParsedDoc
<1>5. doc # None => doc.provider = handle[s].provider
  BY <1>3 DEF Parsed
<1> DEFINE new == IF doc = None THEN NoRequest ELSE [pc |-> "put", doc |-> doc]
<1>6. /\ new \in Request /\ (~nopVerifier => new.doc.whole) /\ new.pc \in {"none", "put"}
      /\ new.pc = "put" => new.doc.provider = handle[s].provider
  BY <1>4, <1>5, Nothing DEF Request
<1>7. request' = [request EXCEPT ![s] = new]
  BY <1>3
<1> HIDE DEF new
<1>8. /\ request' \in [Session -> Request] /\ request'[s] = new
      /\ \A t \in Session : t # s => request'[t] = request[t]
  BY <1>1, <1>6, <1>7 DEF SessionInv
<1>9. VerifiedIsWhole' /\ RequestInHand' /\ OwnKeys'
  BY <1>1, <1>6, <1>8 DEF SessionInv, VerifiedIsWhole, RequestInHand, OwnKeys
<1>10. SessionInv'
  BY <1>1, <1>8, <1>9 DEF SessionInv
<1> QED
  BY <1>1, <1>10, SessionSteps

LEMMA PutResourcesInv ==
  ASSUME IInv, NEW s \in Session, PutResources(s)
  PROVE  IInv'
<1>1. /\ SessionInv /\ UNCHANGED <<disk, pull>> /\ UNCHANGED <<handle, picked>>
      /\ request[s].pc = "put"
  BY Assembled DEF PutResources
<1> DEFINE key == cacheKey(handle[s].provider)
           doc == request[s].doc
<1>2. /\ doc \in Doc /\ (~nopVerifier => doc.whole)
      /\ doc.provider = handle[s].provider /\ handle[s].provider \in Provider
  BY <1>1 DEF SessionInv, RequestInHand, VerifiedIsWhole, Request, Doc
<1>3. key \in Key /\ cacheKey(doc.provider) = key
  BY <1>2 DEF Key
<1>4. kv' = kv \/ kv' = [kv EXCEPT ![key] = doc]
  BY DEF PutResources
<1> HIDE DEF key, doc
<1>5. /\ kv' \in [Key -> Doc]
      /\ \A k \in Key : kv'[k] = kv[k] \/ (k = key /\ kv'[k] = doc)
  BY <1>1, <1>2, <1>3, <1>4 DEF SessionInv
<1>6. /\ request' \in [Session -> Request] /\ request'[s] = NoRequest
      /\ \A t \in Session : t # s => request'[t] = request[t]
  <2>1. request' = [request EXCEPT ![s] = NoRequest] /\ request \in [Session -> Request]
    BY <1>1 DEF PutResources, SessionInv
  <2> QED
    BY <2>1, Nothing
<1>7. OwnKeys'
  BY <1>1, <1>3, <1>5 DEF SessionInv, OwnKeys
<1>8. VerifiedIsWhole' /\ RequestInHand'
  BY <1>1, <1>2, <1>5, <1>6, Nothing DEF SessionInv, VerifiedIsWhole, RequestInHand
<1>9. SessionInv'
  BY <1>1, <1>5, <1>6, <1>7, <1>8 DEF SessionInv
<1> QED
  BY <1>1, <1>9, SessionSteps

(* Every step keeps the invariant.                                         *)
LEMMA StepInv == IInv /\ [Next]_vars => IInv'
<1> SUFFICES ASSUME IInv, [Next]_vars PROVE IInv'
  OBVIOUS
<1>1. CASE \E p \in Provider, v \in Version :
             StartPull(p, v) \/ RemoveFails(p, v) \/ RemoveProviderVersion(p, v)
  BY <1>1, StartPullInv, RemoveFailsInv, RemoveProviderVersionInv
<1>2. CASE \E p \in Provider : ClearProviderCache(p)
  BY <1>2, ClearProviderCacheInv
<1>3. CASE PullStep
  BY <1>3, MakeDirectoryInv, CreateFileInv, CopyFileInv, PullSucceedsInv, UnpackFailsInv
     DEF PullStep
<1>4. CASE \E s \in Session : SessionStep(s)
  BY <1>4, PickVersionInv, LoadProviderInv, MissResourcesInv, ReadResourcesInv,
     PutResourcesInv, CrashInv DEF SessionStep
<1>5. CASE UNCHANGED vars
  <2>1. UNCHANGED disk /\ UNCHANGED session /\ UNCHANGED <<disk, pull>>
    BY <1>5 DEF vars
  <2> QED
    BY <2>1, SessionKept, SessionSteps
<1> QED
  BY <1>1, <1>2, <1>3, <1>4, <1>5 DEF Next

-----------------------------------------------------------------------------
(* The inductive invariant holds in every reachable state.                 *)
THEOREM Invariance == Spec => []IInv
BY InitInv, StepInv, PTL DEF Spec

(* Every variable keeps its type.                                          *)
THEOREM TypeCorrect == Spec => []TypeOK
<1>1. IInv => TypeOK
  BY DEF IInv
<1> QED
  BY Invariance, <1>1, PTL

(* The files of a version are never of two editions, whatever pull, crash  *)
(* or removal came between (pullAndPersistProviderArchive).                *)
THEOREM NeverMixedEditions == Spec => []NeverMixed
<1>1. IInv => NeverMixed
  BY DEF IInv
<1> QED
  BY Invariance, <1>1, PTL

(* With signatures, nothing that was cut off is loaded, read for the cache *)
(* or held in it (getVerifiedDocResponse).                                 *)
THEOREM VerifiedWhole == Spec => []VerifiedIsWhole
<1>1. IInv => VerifiedIsWhole
  BY DEF IInv
<1> QED
  BY Invariance, <1>1, PTL

(* A version that is found and whose last pull or removal came to its end  *)
(* can be loaded, with signatures or without.                              *)
THEOREM FoundLoads == Spec => []FoundVersionLoads
<1>1. IInv => FoundVersionLoads
  <2> SUFFICES ASSUME IInv, NEW p \in Provider, NEW v \in LocalVersions(p),
                      <<renameProvider(p), v>> \notin broken,
                      NEW f \in {"provider.yaml", "service.yaml"}
               PROVE  None \notin Parsed(p, v, f)
    BY DEF FoundVersionLoads
  <2> DEFINE x == <<renameProvider(p), v>>
             local == files[x]
  <2>1. x \in dirs \ broken
    BY DEF LocalVersions
  <2>2. PICK e \in 1 .. MaxEdition : \A g \in File : local[g] = [edition |-> e, whole |-> TRUE]
    BY <2>1 DEF IInv, UnbrokenComplete, Complete
  <2>3. f \in File /\ SigOf(f) \in File
    BY Documents
  <2>4. [edition |-> e, whole |-> TRUE] # Absent
    BY DEF Absent
  <2>5. Accepted(local, f)
    <3>1. local[f] = [edition |-> e, whole |-> TRUE] /\ local[SigOf(f)] = local[f]
      BY <2>2, <2>3
    <3>2. local[f].whole
      BY <3>1
    <3> HIDE DEF local
    <3> QED
      BY <3>1, <3>2, <2>4 DEF Accepted
  <2>6. getVerifiedDoc(p, v, f) = {local[f]}
    BY <2>5 DEF getVerifiedDoc, Accepted
  <2>7. local[f] = [edition |-> e, whole |-> TRUE] /\ local[f] # Absent
    BY <2>2, <2>3, <2>4
  <2> DEFINE c == local[f]
  <2>8. getVerifiedDoc(p, v, f) = {c} /\ c # Absent /\ c.whole
    BY <2>6, <2>7
  <2> HIDE DEF x, local, c
  <2>9. \A d \in Parsed(p, v, f) : d = [provider |-> p, version |-> v, whole |-> c.whole]
    BY <2>8 DEF Parsed
  <2>10. p # "none"
    BY ProviderAssumption
  <2> QED
    BY <2>9, <2>10 DEF None
<1> QED
  BY Invariance, <1>1, PTL

(* A pull touches no version but its own (pullAndPersistProviderArchive).  *)
THEOREM OthersSpared == Spec => PullSparesOthers
<1> DEFINE Spared == \A x \in Place \ {pull.place, pull'.place} :
                       files'[x] = files[x] /\ (x \in dirs' <=> x \in dirs)
           Act == pull # Idle \/ pull' # Idle => Spared
<1>1. IInv /\ [Next]_vars => [Act]_vars
  <2> SUFFICES ASSUME IInv, Next, pull # Idle \/ pull' # Idle
               PROVE  Spared
    BY DEF vars
  <2>1. ASSUME NEW p \in Provider, NEW v \in Version, StartPull(p, v)
        PROVE  Spared
    <3> DEFINE y == <<renameProvider(p), v>>
               places == {y}
               kept == {}
    <3>1. y \in Place /\ DiskInv
      BY Places, Assembled
    <3>2. RemoveAll(places, kept) /\ places \in SUBSET Place
          /\ kept \in SUBSET (places \cap dirs)
      BY <2>1, <3>1 DEF StartPull, Outdated
    <3>3. pull'.place = y
      BY <2>1 DEF StartPull
    <3> HIDE DEF kept
    <3>4. \A x \in Place \ places : files'[x] = files[x] /\ (x \in dirs' <=> x \in dirs)
      <4> HIDE DEF y, places
      <4> QED
        BY <3>1, <3>2, RemoveAllKeeps
    <3> QED
      BY <3>3, <3>4
  <2>2. CASE CreateFile
    <3>1. files \in [Place -> [File -> Content]]
      BY DEF IInv, TypeOK
    <3> QED
      BY <2>2, <3>1 DEF CreateFile
  <2>3. CASE CopyFile
    <3>1. files \in [Place -> [File -> Content]]
      BY DEF IInv, TypeOK
    <3> QED
      BY <2>3, <3>1 DEF CopyFile
  <2>4. CASE PullSucceeds \/ UnpackFails
    BY <2>4 DEF PullSucceeds, UnpackFails, disk
  <2>5. ASSUME NEW p \in Provider, NEW v \in Version,
               RemoveFails(p, v) \/ RemoveProviderVersion(p, v)
        PROVE  FALSE
    BY <2>5 DEF RemoveFails, RemoveProviderVersion
  <2>6. ASSUME NEW p \in Provider, ClearProviderCache(p)
        PROVE  FALSE
    BY <2>6 DEF ClearProviderCache
  <2>7. ASSUME NEW s \in Session, SessionStep(s)
        PROVE  Spared
    BY <2>7 DEF SessionStep, PickVersion, LoadProvider, MissResources, ReadResources,
       PutResources, Crash, disk
  <2>8. CASE MakeDirectory
    BY <2>8 DEF MakeDirectory
  <2> QED
    BY <2>1, <2>2, <2>3, <2>4, <2>5, <2>6, <2>7, <2>8 DEF Next, PullStep
<1> QED
  BY Invariance, <1>1, PTL DEF Spec, PullSparesOthers

(* What is cached where a session looks for its provider's resources is    *)
(* that provider's (processResourcesDiscoveryDoc).                         *)
THEOREM OwnProviderServed == Spec => []ServedIsOwnProvider
<1>1. IInv => ServedIsOwnProvider
  <2> SUFFICES ASSUME IInv, NEW s \in Session, handle[s] # None,
                      kv[cacheKey(handle[s].provider)] # None
               PROVE  renameProvider(kv[cacheKey(handle[s].provider)].provider)
                        = renameProvider(handle[s].provider)
    BY DEF ServedIsOwnProvider
  <2> DEFINE p == handle[s].provider
             q == kv[cacheKey(handle[s].provider)].provider
  <2>1. p \in Provider
    BY DEF IInv, TypeOK, Doc
  <2>2. cacheKey(q) = cacheKey(p)
    BY <2>1 DEF IInv, OwnKeys, Key
  <2> HIDE DEF p, q
  <2>3. renameProvider(q) = renameProvider(p)
    BY <2>2 DEF cacheKey, renameProvider
  <2> QED
    BY <2>3 DEF p, q
<1> QED
  BY Invariance, <1>1, PTL

(* What is read of the documents and cached is whole and the provider's    *)
(* own, whatever pulls, removals, crashes and other sessions do meanwhile  *)
(* (processResourcesDiscoveryDoc).                                         *)
THEOREM OwnAndWhole == Spec => []CachedIsOwnAndWhole
  BY VerifiedWhole, OwnProviderServed, PTL DEF CachedIsOwnAndWhole

=============================================================================
