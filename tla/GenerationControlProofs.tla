----------------------- MODULE GenerationControlProofs -----------------------
(***************************************************************************)
(* Identifiers never repeat and the current generation never goes back,    *)
(* for any number of processes, restarts, rows and overlapping inserts.    *)
(***************************************************************************)
EXTENDS GenerationControl, TLAPS

(* A session id belongs to one insert under way or to one manager, and a   *)
(* new one is above all that were ever given out.                          *)
SessionsOwned ==
  /\ \A p \in Processes : \A s \in pending[p]["session"] :
       /\ s.id <= seq["session"]
       /\ \A m \in managers : m.ssn # s.id
       /\ \A i \in DOMAIN issued : issued[i].ssn # s.id
       /\ \A q \in Processes : \A r \in pending[q]["session"] :
            r.id = s.id => q = p /\ r = s
  /\ \A m \in managers : m.ssn <= seq["session"]
  /\ \A i \in DOMAIN issued : issued[i].ssn <= seq["session"]
  /\ \A m, k \in managers : m.ssn = k.ssn => m = k

(* What a manager has handed out is not above its counters.                *)
CountersAhead ==
  \A m \in managers : \A i \in DOMAIN issued :
    issued[i].ssn = m.ssn =>
      /\ issued[i].kind = "txn" => issued[i].id <= txnID[m.proc]
      /\ issued[i].kind = "insert" => issued[i].id <= m.insertID

(* A reading holds a live row of its name.                                 *)
CurrentOfName ==
  \A n \in Name : current[n] # NoRow => current[n].name = n /\ current[n].live

IInv == TypeOK /\ SessionsOwned /\ CountersAhead /\ CurrentOfName /\ IdsNeverRepeat

-----------------------------------------------------------------------------
(* What was handed out, one by one.                                        *)
LEMMA IssuedType == TypeOK => \A i \in DOMAIN issued : issued[i] \in Issue
<1> SUFFICES ASSUME TypeOK, NEW i \in DOMAIN issued PROVE issued[i] \in Issue
  OBVIOUS
<1>1. issued \in Seq(Issue)
  BY DEF TypeOK
<1> HIDE DEF Issue
<1> QED
  BY <1>1

LEMMA InvInit == Init => IInv
<1> SUFFICES ASSUME Init PROVE IInv
  OBVIOUS
<1>1. TypeOK
  <2>1. engine \in {"sqlite", "postgres"}
    BY EnginesAssumption DEF Init
  <2>2. tries \in [Processes -> 0 .. InitMaxRetries]
    BY BoundsAssumption DEF Init
  <2>3. issued \in Seq(Issue)
    BY DEF Init
  <2>4. current \in [Name -> Row]
    BY DEF Init, NoRow, Row, Name
  <2>5. /\ pending \in [Processes -> [Table -> SUBSET (Row \cup Session)]]
        /\ \A p \in Processes, t \in Table : pending[p][t] = {}
    BY DEF Init
  <2> QED
    BY <2>1, <2>2, <2>3, <2>4, <2>5 DEF Init, TypeOK
<1>2. SessionsOwned
  BY DEF Init, SessionsOwned, Table
<1>3. CountersAhead
  BY DEF Init, CountersAhead
<1>4. CurrentOfName
  BY DEF Init, CurrentOfName
<1>5. IdsNeverRepeat
  BY DEF Init, IdsNeverRepeat
<1> QED
  BY <1>1, <1>2, <1>3, <1>4, <1>5 DEF IInv

(* Steps that leave the sessions, the managers and the counters alone.     *)
LEMMA IdsUntouched ==
  ASSUME IInv, TypeOK', CurrentOfName',
         UNCHANGED memory, seq'["session"] = seq["session"],
         \A p \in Processes : pending'[p]["session"] \subseteq pending[p]["session"]
  PROVE  IInv'
<1>1. SessionsOwned'
  BY DEF IInv, SessionsOwned, memory
<1>2. CountersAhead'
  BY DEF IInv, CountersAhead, memory
<1>3. IdsNeverRepeat'
  BY DEF IInv, IdsNeverRepeat, memory
<1> QED
  BY <1>1, <1>2, <1>3 DEF IInv

-----------------------------------------------------------------------------
LEMMA ConnectInv ==
  ASSUME IInv, NEW p \in Processes, Start(p) \/ Connect(p)
  PROVE  IInv'
<1>0. UNCHANGED <<database, pending, current, memory>>
  BY DEF Start, Connect, Opened, Pinged, DialFails, SetupFails
<1>1. TypeOK'
  <2>1. proc' \in [Processes -> {"down", "open", "ping", "up"}]
    BY DEF IInv, TypeOK, Start, Connect, Opened, Pinged, DialFails, SetupFails
  <2>2. tries' \in [Processes -> 0 .. InitMaxRetries]
    <3>1. tries \in [Processes -> 0 .. InitMaxRetries] /\ InitMaxRetries \in Nat
      BY BoundsAssumption DEF IInv, TypeOK
    <3>2. CASE tries' = [tries EXCEPT ![p] = 0]
      BY <3>1, <3>2
    <3>3. CASE tries' = tries
      BY <3>1, <3>3
    <3>4. CASE tries[p] < InitMaxRetries /\ tries' = [tries EXCEPT ![p] = @ + 1]
      BY <3>1, <3>4
    <3> QED
      BY <3>2, <3>3, <3>4 DEF Start, Connect, Opened, Pinged, DialFails, SetupFails, MayRetry
  <2> QED
    BY <1>0, <2>1, <2>2 DEF IInv, TypeOK, database, memory
<1>2. UNCHANGED <<memory, seq, pending, current>>
  BY <1>0 DEF database
<1>3. CurrentOfName'
  BY <1>2 DEF IInv, CurrentOfName
<1> QED
  BY <1>1, <1>2, <1>3, IdsUntouched

(* An insert into a generation table begins, or gets its id.               *)
LEMMA NextGenerationInv ==
  ASSUME IInv, NEW p \in Processes, NEW t \in Table, t # "session",
         NEW r \in Row,
         pending' = [pending EXCEPT ![p][t] = {r}],
         seq' = seq \/ seq' = [seq EXCEPT ![t] = @ + 1],
         UNCHANGED <<engine, clock, rows, sessions, proc, tries, current, memory>>
  PROVE  IInv'
<1>1. TypeOK'
  <2>1. /\ pending' \in [Processes -> [Table -> SUBSET (Row \cup Session)]]
        /\ \A q \in Processes, u \in Table :
             pending'[q][u] \subseteq IF u = "session" THEN Session ELSE Row
    BY DEF IInv, TypeOK
  <2>2. seq' \in [Table -> Nat]
    <3>1. seq \in [Table -> Nat] /\ seq[t] + 1 \in Nat
      BY DEF IInv, TypeOK
    <3> QED
      BY <3>1
  <2> QED
    BY <2>1, <2>2 DEF IInv, TypeOK, memory
<1>2. CurrentOfName'
  BY DEF IInv, CurrentOfName
<1>3. /\ seq'["session"] = seq["session"]
      /\ \A q \in Processes : pending'[q]["session"] = pending[q]["session"]
  BY DEF IInv, TypeOK, Table
<1> QED
  BY <1>1, <1>2, <1>3, IdsUntouched

LEMMA CommitGenerationInv ==
  ASSUME IInv, NEW p \in Processes, NEW t \in Table,
         CommitGeneration(p, t) \/ InsertFails(p, t)
  PROVE  IInv'
<1>1. /\ pending' = [pending EXCEPT ![p][t] = {}]
      /\ rows' = rows \/ (t # "session" /\ rows' = rows \cup pending[p][t])
      /\ UNCHANGED <<engine, clock, seq, sessions, proc, tries, current, memory>>
  BY DEF CommitGeneration, InsertFails, database
<1>2. TypeOK'
  <2>1. /\ pending' \in [Processes -> [Table -> SUBSET (Row \cup Session)]]
        /\ \A q \in Processes, u \in Table : pending'[q][u] \subseteq pending[q][u]
    BY <1>1 DEF IInv, TypeOK
  <2>2. rows' \subseteq Row
    BY <1>1 DEF IInv, TypeOK
  <2>3. \A q \in Processes, u \in Table :
          pending'[q][u] \subseteq IF u = "session" THEN Session ELSE Row
    BY <2>1 DEF IInv, TypeOK
  <2> QED
    BY <1>1, <2>1, <2>2, <2>3 DEF IInv, TypeOK, memory
<1>3. CurrentOfName'
  BY <1>1 DEF IInv, CurrentOfName
<1>4. \A q \in Processes : pending'[q]["session"] \subseteq pending[q]["session"]
  BY <1>1 DEF IInv, TypeOK, Table
<1> QED
  BY <1>1, <1>2, <1>3, <1>4, IdsUntouched

(* A session insert begins with an id above all others.                    *)
LEMMA NextSessionInv ==
  ASSUME IInv, NEW p \in Processes, NEW g \in Nat, GetNextSessionID(p, g)
  PROVE  IInv'
<1> DEFINE s == [id |-> seq["session"] + 1, gen |-> g]
<1>1. /\ pending[p]["session"] = {}
      /\ pending' = [pending EXCEPT ![p]["session"] = {s}]
      /\ seq' = [seq EXCEPT !["session"] = @ + 1]
      /\ UNCHANGED <<engine, clock, rows, sessions, proc, tries, current, memory>>
  BY DEF GetNextSessionID, NextSessionID, Begin, MayInsert
<1>2. seq["session"] \in Nat /\ s \in Session /\ s.id = seq["session"] + 1
  BY DEF IInv, TypeOK, Table, Session
<1> HIDE DEF s
<1>3. TypeOK'
  <2>1. /\ pending' \in [Processes -> [Table -> SUBSET (Row \cup Session)]]
        /\ \A q \in Processes, u \in Table :
             pending'[q][u] \subseteq IF u = "session" THEN Session ELSE Row
    BY <1>1, <1>2 DEF IInv, TypeOK, Table
  <2>2. seq' \in [Table -> Nat]
    BY <1>1, <1>2 DEF IInv, TypeOK, Table
  <2> QED
    BY <1>1, <2>1, <2>2 DEF IInv, TypeOK, memory
<1>4. /\ seq'["session"] = seq["session"] + 1
      /\ pending'[p]["session"] = {s}
      /\ \A q \in Processes \ {p} : pending'[q]["session"] = pending[q]["session"]
  BY <1>1 DEF IInv, TypeOK, Table
<1>5. SessionsOwned'
  <2>1. /\ \A q \in Processes : \A r \in pending[q]["session"] :
             r.id \in Nat /\ r.id <= seq["session"]
        /\ \A m \in managers : m.ssn \in Nat /\ m.ssn <= seq["session"]
        /\ \A i \in DOMAIN issued : issued[i].ssn \in Nat /\ issued[i].ssn <= seq["session"]
    <3>1. \A q \in Processes : \A r \in pending[q]["session"] : r.id \in Nat
      BY DEF IInv, TypeOK, Session, Table
    <3>2. \A m \in managers : m.ssn \in Nat
      BY DEF IInv, TypeOK, Manager
    <3>3. \A i \in DOMAIN issued : issued[i].ssn \in Nat
      BY IssuedType DEF IInv, Issue
    <3> QED
      BY <3>1, <3>2, <3>3 DEF IInv, SessionsOwned
  <2>2. managers' = managers /\ issued' = issued
    BY <1>1 DEF memory
  <2>3. ASSUME NEW q \in Processes, NEW r \in pending'[q]["session"]
        PROVE  /\ r.id <= seq'["session"]
               /\ \A m \in managers : m.ssn # r.id
               /\ \A i \in DOMAIN issued : issued[i].ssn # r.id
               /\ \A o \in Processes : \A x \in pending'[o]["session"] :
                    x.id = r.id => o = q /\ x = r
    <3>1. CASE q = p
      BY <1>2, <1>4, <2>1, <3>1
    <3>2. CASE q # p
      <4>1. r \in pending[q]["session"] /\ r.id # s.id
        BY <1>2, <1>4, <2>1, <3>2
      <4>2. ASSUME NEW o \in Processes, NEW x \in pending'[o]["session"], x.id = r.id
            PROVE  o = q /\ x = r
        BY <1>4, <4>1, <4>2 DEF IInv, SessionsOwned
      <4>3. r.id <= seq'["session"]
        BY <1>2, <1>4, <2>1, <4>1
      <4> QED
        BY <4>1, <4>2, <4>3 DEF IInv, SessionsOwned
    <3> QED
      BY <3>1, <3>2
  <2>4. /\ \A m \in managers : m.ssn <= seq'["session"]
        /\ \A i \in DOMAIN issued : issued[i].ssn <= seq'["session"]
    BY <1>2, <1>4, <2>1
  <2> QED
    BY <2>2, <2>3, <2>4 DEF IInv, SessionsOwned
<1>6. CountersAhead' /\ CurrentOfName' /\ IdsNeverRepeat'
  BY <1>1 DEF IInv, CountersAhead, CurrentOfName, IdsNeverRepeat, memory
<1> QED
  BY <1>3, <1>5, <1>6 DEF IInv

(* A manager is made of a session id that nothing was issued under.        *)
LEMMA CommitSessionInv ==
  ASSUME IInv, NEW p \in Processes, CommitSession(p)
  PROVE  IInv'
<1> DEFINE new == {NewTxnCounterManager(p, s) : s \in pending[p]["session"]}
<1>1. /\ sessions' = sessions \cup pending[p]["session"]
      /\ managers' = managers \cup new
      /\ pending' = [pending EXCEPT ![p]["session"] = {}]
      /\ UNCHANGED <<engine, clock, seq, rows, proc, tries, current, txnID, issued>>
  BY DEF CommitSession
<1>2. pending[p]["session"] \subseteq Session
  BY DEF IInv, TypeOK, Table
<1>3. \A m \in new : /\ m \in Manager
                     /\ \E s \in pending[p]["session"] :
                          m = NewTxnCounterManager(p, s) /\ m.ssn = s.id
  BY <1>2 DEF NewTxnCounterManager, Session, Manager
<1>4. /\ pending'[p]["session"] = {}
      /\ \A q \in Processes \ {p} : pending'[q]["session"] = pending[q]["session"]
  BY <1>1 DEF IInv, TypeOK, Table
<1>5. TypeOK'
  <2>1. /\ pending' \in [Processes -> [Table -> SUBSET (Row \cup Session)]]
        /\ \A q \in Processes, u \in Table : pending'[q][u] \subseteq pending[q][u]
    BY <1>1 DEF IInv, TypeOK, Table
  <2>2. \A q \in Processes, u \in Table :
          pending'[q][u] \subseteq IF u = "session" THEN Session ELSE Row
    BY <2>1 DEF IInv, TypeOK
  <2>3. sessions' \subseteq Session /\ managers' \subseteq Manager
    BY <1>1, <1>2, <1>3 DEF IInv, TypeOK
  <2> QED
    BY <1>1, <2>1, <2>2, <2>3 DEF IInv, TypeOK
<1> HIDE DEF new
<1>6. SessionsOwned'
  <2>1. ASSUME NEW q \in Processes, NEW r \in pending'[q]["session"]
        PROVE  /\ r.id <= seq["session"]
               /\ \A m \in managers' : m.ssn # r.id
               /\ \A i \in DOMAIN issued : issued[i].ssn # r.id
               /\ \A o \in Processes : \A x \in pending'[o]["session"] :
                    x.id = r.id => o = q /\ x = r
    <3>1. q # p /\ r \in pending[q]["session"]
      BY <1>4
    <3>2. \A m \in new : m.ssn # r.id
      BY <1>3, <3>1 DEF IInv, SessionsOwned
    <3>3. \A o \in Processes : pending'[o]["session"] \subseteq pending[o]["session"]
      BY <1>4
    <3> QED
      BY <1>1, <3>1, <3>2, <3>3 DEF IInv, SessionsOwned
  <2>2. \A m \in managers' : m.ssn <= seq["session"]
    BY <1>1, <1>3 DEF IInv, SessionsOwned
  <2>3. \A m, k \in managers' : m.ssn = k.ssn => m = k
    <3>1. \A m \in new, k \in managers : m.ssn # k.ssn
      BY <1>3 DEF IInv, SessionsOwned
    <3>2. \A m, k \in new : m.ssn = k.ssn => m = k
      BY <1>3 DEF IInv, SessionsOwned
    <3> QED
      BY <1>1, <3>1, <3>2 DEF IInv, SessionsOwned
  <2> QED
    BY <1>1, <2>1, <2>2, <2>3 DEF IInv, SessionsOwned
<1>7. CountersAhead'
  <2>1. \A m \in new : \A i \in DOMAIN issued : issued[i].ssn # m.ssn
    BY <1>3 DEF IInv, SessionsOwned
  <2> QED
    BY <1>1, <2>1 DEF IInv, CountersAhead
<1>8. CurrentOfName' /\ IdsNeverRepeat'
  BY <1>1 DEF IInv, CurrentOfName, IdsNeverRepeat
<1> QED
  BY <1>5, <1>6, <1>7, <1>8 DEF IInv

LEMMA CurrentInv ==
  ASSUME IInv, NEW p \in Processes, NEW n \in Name, GetCurrentGenerationID(p, n)
  PROVE  IInv'
<1>1. UNCHANGED <<database, proc, tries, pending, memory>>
  BY DEF GetCurrentGenerationID
<1>2. PICK r : /\ current' = [current EXCEPT ![n] = r]
               /\ r = NoRow \/ r \in Latest(n)
  BY DEF GetCurrentGenerationID
<1>3. r \in Row
  <2>1. NoRow \in Row
    BY DEF NoRow, Row, Name
  <2>2. Latest(n) \subseteq Row
    BY DEF IInv, TypeOK, Latest
  <2> QED
    BY <1>2, <2>1, <2>2
<1>4. TypeOK'
  BY <1>1, <1>2, <1>3 DEF IInv, TypeOK, database, memory
<1>5. CurrentOfName'
  <2>1. r # NoRow => r.name = n /\ r.live
    BY <1>2 DEF Latest
  <2>2. current'[n] = r /\ \A k \in Name \ {n} : current'[k] = current[k]
    BY <1>2 DEF IInv, TypeOK
  <2> QED
    BY <2>1, <2>2 DEF IInv, CurrentOfName
<1> QED
  BY <1>1, <1>4, <1>5, IdsUntouched DEF database

(* A transaction id is above all that the process handed out so far.       *)
LEMMA HandedOut ==
  ASSUME IInv, NEW m \in managers, NEW kind \in {"txn", "insert"}, NEW id \in Nat,
         issued' = Append(issued, [gen |-> m.gen, ssn |-> m.ssn, kind |-> kind, id |-> id]),
         \A i \in DOMAIN issued :
           issued[i].ssn = m.ssn /\ issued[i].kind = kind => issued[i].id < id
  PROVE  /\ issued' \in Seq(Issue)
         /\ IdsNeverRepeat'
         /\ DOMAIN issued' = DOMAIN issued \cup {Len(issued) + 1}
         /\ \A i \in DOMAIN issued : issued'[i] = issued[i]
         /\ issued'[Len(issued) + 1] = [gen |-> m.gen, ssn |-> m.ssn, kind |-> kind, id |-> id]
<1> DEFINE e == [gen |-> m.gen, ssn |-> m.ssn, kind |-> kind, id |-> id]
<1>1. issued \in Seq(Issue) /\ e \in Issue
  BY DEF IInv, TypeOK, Manager, Issue
<1>2. e.ssn = m.ssn /\ e.kind = kind /\ e.id = id
  OBVIOUS
<1>0. issued' = Append(issued, e)
  OBVIOUS
<1> HIDE DEF e, Issue
<1>3. /\ issued' \in Seq(Issue)
      /\ DOMAIN issued' = DOMAIN issued \cup {Len(issued) + 1}
      /\ \A i \in DOMAIN issued : issued'[i] = issued[i]
      /\ issued'[Len(issued) + 1] = e
  BY <1>0, <1>1
<1>4. \A i \in DOMAIN issued : issued[i] \in Issue /\ issued[i].id \in Nat
  BY IssuedType DEF IInv, Issue
<1>5. \A i \in DOMAIN issued : issued[i] # e
  BY <1>2, <1>4
<1>6. IdsNeverRepeat'
  BY <1>3, <1>5 DEF IInv, IdsNeverRepeat
<1> QED
  BY <1>3, <1>6 DEF e

LEMMA TxnInv ==
  ASSUME IInv, NEW m \in managers, GetNextTxnID(m)
  PROVE  IInv'
<1>1. /\ issued' = Append(issued, [gen |-> m.gen, ssn |-> m.ssn, kind |-> "txn",
                                   id |-> txnID[m.proc] + 1])
      /\ txnID' = [txnID EXCEPT ![m.proc] = @ + 1]
      /\ UNCHANGED <<database, proc, tries, pending, current, managers>>
  BY DEF GetNextTxnID, Hand
<1>2. m \in Manager /\ m.proc \in Processes /\ txnID[m.proc] \in Nat /\ m.ssn \in Nat
  BY DEF IInv, TypeOK, Manager
<1>3. \A i \in DOMAIN issued : issued[i].id \in Nat
  BY IssuedType DEF IInv, Issue
<1>4. \A i \in DOMAIN issued :
        issued[i].ssn = m.ssn /\ issued[i].kind = "txn" => issued[i].id < txnID[m.proc] + 1
  BY <1>2, <1>3 DEF IInv, CountersAhead
<1> DEFINE e == [gen |-> m.gen, ssn |-> m.ssn, kind |-> "txn", id |-> txnID[m.proc] + 1]
<1>5. /\ issued' \in Seq(Issue)
      /\ IdsNeverRepeat'
      /\ DOMAIN issued' = DOMAIN issued \cup {Len(issued) + 1}
      /\ \A i \in DOMAIN issued : issued'[i] = issued[i]
      /\ issued'[Len(issued) + 1] = e
  BY <1>1, <1>2, <1>4, HandedOut
<1>6. e.ssn = m.ssn /\ e.kind = "txn" /\ e.id = txnID[m.proc] + 1
  OBVIOUS
<1> HIDE DEF e
<1>7. TypeOK'
  <2>1. txnID' \in [Processes -> Nat]
    BY <1>1, <1>2 DEF IInv, TypeOK
  <2> QED
    BY <1>1, <1>5, <2>1 DEF IInv, TypeOK, database
<1>8. SessionsOwned'
  <2>1. m.ssn <= seq["session"]
        /\ \A p \in Processes : \A s \in pending[p]["session"] : m.ssn # s.id
    BY DEF IInv, SessionsOwned
  <2>2. seq' = seq /\ pending' = pending /\ managers' = managers
    BY <1>1 DEF database
  <2>3. \A i \in DOMAIN issued' :
          /\ issued'[i].ssn <= seq["session"]
          /\ \A p \in Processes : \A s \in pending[p]["session"] : issued'[i].ssn # s.id
    BY <1>5, <1>6, <2>1 DEF IInv, SessionsOwned
  <2> QED
    BY <2>2, <2>3 DEF IInv, SessionsOwned
<1>9. CountersAhead'
  <2>1. \A k \in managers : /\ k.proc \in Processes /\ txnID[k.proc] \in Nat
                             /\ txnID'[k.proc] \in Nat
                             /\ txnID[k.proc] <= txnID'[k.proc]
    BY <1>1, <1>2 DEF IInv, TypeOK, Manager
  <2>2. txnID'[m.proc] = txnID[m.proc] + 1
    BY <1>1, <1>2 DEF IInv, TypeOK
  <2> SUFFICES ASSUME NEW k \in managers, NEW i \in DOMAIN issued',
                      issued'[i].ssn = k.ssn
               PROVE  /\ issued'[i].kind = "txn" => issued'[i].id <= txnID'[k.proc]
                      /\ issued'[i].kind = "insert" => issued'[i].id <= k.insertID
    BY <1>1 DEF CountersAhead
  <2>3. CASE i \in DOMAIN issued
    BY <1>3, <1>5, <2>1, <2>3 DEF IInv, CountersAhead
  <2>4. CASE i = Len(issued) + 1
    <3>1. k = m
      BY <1>5, <1>6, <2>4 DEF IInv, SessionsOwned
    <3> QED
      BY <1>2, <1>5, <1>6, <2>2, <2>4, <3>1
  <2> QED
    BY <1>5, <2>3, <2>4
<1>10. CurrentOfName'
  BY <1>1 DEF IInv, CurrentOfName
<1> QED
  BY <1>5, <1>7, <1>8, <1>9, <1>10 DEF IInv

(* An insert id is above all that the manager handed out so far.           *)
LEMMA InsertInv ==
  ASSUME IInv, NEW m \in managers, GetNextInsertID(m)
  PROVE  IInv'
<1> DEFINE n == [m EXCEPT !.insertID = @ + 1]
           e == [gen |-> m.gen, ssn |-> m.ssn, kind |-> "insert", id |-> m.insertID + 1]
<1>1. /\ issued' = Append(issued, e)
      /\ managers' = (managers \ {m}) \cup {n}
      /\ UNCHANGED <<database, proc, tries, pending, current, txnID>>
  BY DEF GetNextInsertID, Hand
<1>2. /\ m \in Manager /\ m.insertID \in Nat /\ m.ssn \in Nat
      /\ n \in Manager /\ n.ssn = m.ssn /\ n.proc = m.proc /\ n.insertID = m.insertID + 1
  <2>1. m \in Manager
    BY DEF IInv, TypeOK
  <2> QED
    BY <2>1 DEF Manager
<1>3. \A i \in DOMAIN issued : issued[i].id \in Nat
  BY IssuedType DEF IInv, Issue
<1>4. \A i \in DOMAIN issued :
        issued[i].ssn = m.ssn /\ issued[i].kind = "insert" => issued[i].id < m.insertID + 1
  BY <1>2, <1>3 DEF IInv, CountersAhead
<1>5. /\ issued' \in Seq(Issue)
      /\ IdsNeverRepeat'
      /\ DOMAIN issued' = DOMAIN issued \cup {Len(issued) + 1}
      /\ \A i \in DOMAIN issued : issued'[i] = issued[i]
      /\ issued'[Len(issued) + 1] = e
  BY <1>1, <1>2, <1>4, HandedOut
<1>6. e.ssn = m.ssn /\ e.kind = "insert" /\ e.id = m.insertID + 1
  OBVIOUS
<1> HIDE DEF e, n
<1>7. TypeOK'
  <2>1. managers' \subseteq Manager
    BY <1>1, <1>2 DEF IInv, TypeOK
  <2> QED
    BY <1>1, <1>5, <2>1 DEF IInv, TypeOK, database
<1>8. \A k \in managers' : k.ssn = m.ssn => k = n
  BY <1>1, <1>2 DEF IInv, SessionsOwned
<1>9. SessionsOwned'
  <2>1. m.ssn <= seq["session"]
        /\ \A p \in Processes : \A s \in pending[p]["session"] : m.ssn # s.id
    BY DEF IInv, SessionsOwned
  <2>2. seq' = seq /\ pending' = pending
    BY <1>1 DEF database
  <2>3. \A i \in DOMAIN issued' :
          /\ issued'[i].ssn <= seq["session"]
          /\ \A p \in Processes : \A s \in pending[p]["session"] : issued'[i].ssn # s.id
    BY <1>5, <1>6, <2>1 DEF IInv, SessionsOwned
  <2>4. \A k \in managers' :
          /\ k.ssn <= seq["session"]
          /\ \A p \in Processes : \A s \in pending[p]["session"] : k.ssn # s.id
    BY <1>1, <1>2, <2>1 DEF IInv, SessionsOwned
  <2>5. \A k, j \in managers' : k.ssn = j.ssn => k = j
    BY <1>1, <1>2, <1>8 DEF IInv, SessionsOwned
  <2>6. ASSUME NEW p \in Processes, NEW s \in pending[p]["session"]
        PROVE  /\ s.id <= seq["session"]
               /\ \A q \in Processes : \A r \in pending[q]["session"] :
                    r.id = s.id => q = p /\ r = s
    BY DEF IInv, SessionsOwned
  <2> QED
    BY <2>2, <2>3, <2>4, <2>5, <2>6 DEF SessionsOwned
<1>10. CountersAhead'
  <2> SUFFICES ASSUME NEW k \in managers', NEW i \in DOMAIN issued',
                      issued'[i].ssn = k.ssn
               PROVE  /\ issued'[i].kind = "txn" => issued'[i].id <= txnID[k.proc]
                      /\ issued'[i].kind = "insert" => issued'[i].id <= k.insertID
    BY <1>1 DEF CountersAhead
  <2>1. CASE i \in DOMAIN issued
    <3>1. CASE k \in managers
      BY <1>5, <2>1, <3>1 DEF IInv, CountersAhead
    <3>2. CASE k = n
      <4>1. /\ issued[i].kind = "txn" => issued[i].id <= txnID[m.proc]
            /\ issued[i].kind = "insert" => issued[i].id <= m.insertID
        BY <1>2, <1>5, <2>1, <3>2 DEF IInv, CountersAhead
      <4> QED
        BY <1>2, <1>3, <1>5, <2>1, <3>2, <4>1
    <3> QED
      BY <1>1, <3>1, <3>2
  <2>2. CASE i = Len(issued) + 1
    <3>1. k = n
      BY <1>5, <1>6, <1>8, <2>2
    <3> QED
      BY <1>2, <1>5, <1>6, <2>2, <3>1
  <2> QED
    BY <1>5, <2>1, <2>2
<1>11. CurrentOfName'
  BY <1>1 DEF IInv, CurrentOfName
<1> QED
  BY <1>5, <1>7, <1>9, <1>10, <1>11 DEF IInv

LEMMA EnvironmentInv ==
  ASSUME IInv, Tick \/ \E r \in rows : Collect(r)
  PROVE  IInv'
<1>1. UNCHANGED <<engine, seq, sessions, proc, tries, pending, current, memory>>
  BY DEF Tick, Collect
<1>2. clock' \in Nat /\ rows' \subseteq Row
  <2>1. CASE Tick
    BY <2>1 DEF Tick, IInv, TypeOK
  <2>2. ASSUME NEW r \in rows, Collect(r) PROVE clock' \in Nat /\ rows' \subseteq Row
    BY <2>2 DEF Collect, IInv, TypeOK, Row
  <2> QED
    BY <2>1, <2>2
<1>3. TypeOK'
  BY <1>1, <1>2 DEF IInv, TypeOK, memory
<1>4. CurrentOfName'
  BY <1>1 DEF IInv, CurrentOfName
<1> QED
  BY <1>1, <1>3, <1>4, IdsUntouched

(* A process that ends leaves no manager that could issue an old id again. *)
LEMMA CrashInv ==
  ASSUME IInv, NEW p \in Processes, Crash(p)
  PROVE  IInv'
<1>1. /\ proc' = [proc EXCEPT ![p] = "down"]
      /\ pending' = [pending EXCEPT ![p] = [t \in Table |-> {}]]
      /\ managers' = {m \in managers : m.proc # p}
      /\ txnID' = [txnID EXCEPT ![p] = 0]
      /\ UNCHANGED <<database, tries, current, issued>>
  BY DEF Crash
<1>2. /\ pending' \in [Processes -> [Table -> SUBSET (Row \cup Session)]]
      /\ \A q \in Processes, u \in Table : pending'[q][u] \subseteq pending[q][u]
  BY <1>1 DEF IInv, TypeOK
<1>3. TypeOK'
  <2>1. \A q \in Processes, u \in Table :
          pending'[q][u] \subseteq IF u = "session" THEN Session ELSE Row
    BY <1>2 DEF IInv, TypeOK
  <2>2. txnID' \in [Processes -> Nat]
    BY <1>1 DEF IInv, TypeOK
  <2> QED
    BY <1>1, <1>2, <2>1, <2>2 DEF IInv, TypeOK, database
<1>4. \A q \in Processes : pending'[q]["session"] \subseteq pending[q]["session"]
  BY <1>2 DEF Table
<1>5. SessionsOwned'
  <2>1. managers' \subseteq managers /\ seq' = seq /\ issued' = issued
    BY <1>1 DEF database
  <2>2. ASSUME NEW q \in Processes, NEW s \in pending'[q]["session"]
        PROVE  /\ s.id <= seq["session"]
               /\ \A m \in managers' : m.ssn # s.id
               /\ \A i \in DOMAIN issued : issued[i].ssn # s.id
               /\ \A o \in Processes : \A r \in pending'[o]["session"] :
                    r.id = s.id => o = q /\ r = s
    <3>1. s \in pending[q]["session"]
      BY <1>4
    <3> QED
      BY <1>4, <2>1, <3>1 DEF IInv, SessionsOwned
  <2>3. /\ \A m \in managers' : m.ssn <= seq["session"]
        /\ \A i \in DOMAIN issued : issued[i].ssn <= seq["session"]
        /\ \A m, k \in managers' : m.ssn = k.ssn => m = k
    BY <2>1 DEF IInv, SessionsOwned
  <2> QED
    BY <2>1, <2>2, <2>3 DEF SessionsOwned
<1>6. CountersAhead'
  <2>1. \A m \in managers' : m \in managers /\ txnID'[m.proc] = txnID[m.proc]
    BY <1>1 DEF IInv, TypeOK, Manager
  <2> QED
    BY <1>1, <2>1 DEF IInv, CountersAhead
<1>7. CurrentOfName' /\ IdsNeverRepeat'
  BY <1>1 DEF IInv, CurrentOfName, IdsNeverRepeat
<1> QED
  BY <1>3, <1>5, <1>6, <1>7 DEF IInv

(* Every step keeps the invariant.                                         *)
LEMMA InvNext == IInv /\ [Next]_vars => IInv'
<1> SUFFICES ASSUME IInv, [Next]_vars PROVE IInv'
  OBVIOUS
<1>1. ASSUME NEW p \in Processes, Start(p) \/ Connect(p) PROVE IInv'
  BY <1>1, ConnectInv
<1>2. ASSUME NEW p \in Processes, CommitSession(p) PROVE IInv'
  BY <1>2, CommitSessionInv
<1>3. ASSUME NEW p \in Processes, Crash(p) PROVE IInv'
  BY <1>3, CrashInv
<1>4. ASSUME NEW p \in Processes, NEW t \in Table,
             CommitGeneration(p, t) \/ InsertFails(p, t)
      PROVE  IInv'
  BY <1>4, CommitGenerationInv
<1>5. ASSUME NEW p \in Processes, NEW n \in Name, GetNextGenerationID(p, n) PROVE IInv'
  <2>1. TableOf(n) \in Table /\ TableOf(n) # "session"
    BY DEF TableOf, Table
  <2>2. [name |-> n, id |-> 0, created |-> clock, live |-> TRUE] \in Row
    BY DEF IInv, TypeOK, Row
  <2> QED
    BY <1>5, <2>1, <2>2, NextGenerationInv DEF GetNextGenerationID, Begin
<1>12. ASSUME NEW p \in Processes, NEW t \in Table, AssignID(p, t) PROVE IInv'
  <2>1. PICK r \in pending[p][t] :
          pending' = [pending EXCEPT ![p][t] = {[r EXCEPT !.id = seq[t] + 1]}]
    BY <1>12 DEF AssignID
  <2>2. r \in Row /\ seq[t] \in Nat
    BY <1>12 DEF AssignID, IInv, TypeOK
  <2>3. [r EXCEPT !.id = seq[t] + 1] \in Row
    BY <2>2 DEF Row
  <2> QED
    BY <1>12, <2>1, <2>3, NextGenerationInv DEF AssignID
<1>6. ASSUME NEW p \in Processes, NEW n \in Name, GetCurrentGenerationID(p, n)
      PROVE  IInv'
  BY <1>6, CurrentInv
<1>7. ASSUME NEW p \in Processes, NEW r \in rows, GetNextSessionID(p, r.id) PROVE IInv'
  <2>1. r.id \in Nat
    BY DEF IInv, TypeOK, Row
  <2> QED
    BY <1>7, <2>1, NextSessionInv
<1>8. ASSUME NEW m \in managers, GetNextTxnID(m) PROVE IInv'
  BY <1>8, TxnInv
<1>9. ASSUME NEW m \in managers, GetNextInsertID(m) PROVE IInv'
  BY <1>9, InsertInv
<1>10. ASSUME Tick \/ \E r \in rows : Collect(r) PROVE IInv'
  BY <1>10, EnvironmentInv
<1>11. ASSUME UNCHANGED vars PROVE IInv'
  <2>1. TypeOK' /\ CurrentOfName'
    BY <1>11 DEF IInv, TypeOK, CurrentOfName, vars, database, memory
  <2> QED
    BY <1>11, <2>1, IdsUntouched DEF vars, database
<1> QED
  BY <1>1, <1>2, <1>3, <1>4, <1>5, <1>6, <1>7, <1>8, <1>9, <1>10, <1>11, <1>12 DEF Next

LEMMA Invariance == Spec => []IInv
  BY InvInit, InvNext, PTL DEF Spec

-----------------------------------------------------------------------------
(* Every variable of the control tables and the counters keeps its type.   *)
THEOREM TypeCorrect == Spec => []TypeOK
<1>1. IInv => TypeOK
  BY DEF IInv
<1> QED
  BY <1>1, Invariance, PTL

(* No transaction or insert id is handed out twice under one generation    *)
(* and session, whatever restarts and whatever inserts overlap.            *)
THEOREM NeverRepeat == Spec => []IdsNeverRepeat
<1>1. IInv => IdsNeverRepeat
  BY DEF IInv
<1> QED
  BY <1>1, Invariance, PTL

(* The current generation never goes back, unless it was collected.        *)
THEOREM NeverBack == Spec => CurrentNeverGoesBack
<1> DEFINE Forward ==
      \A n \in Name : current[n] \in rows /\ current'[n] # NoRow
                      => current'[n].created >= current[n].created
<1>1. IInv /\ [Next]_vars => [Forward]_vars
  <2> SUFFICES ASSUME IInv, [Next]_vars, NEW n \in Name,
                      current[n] \in rows, current'[n] # NoRow
               PROVE  current'[n].created >= current[n].created
    OBVIOUS
  <2>1. current[n].created \in Nat
    BY DEF IInv, TypeOK, Row
  <2>2. CASE current'[n] = current[n]
    BY <2>1, <2>2
  <2>3. CASE current'[n] # current[n]
    <3>1. PICK p \in Processes, k \in Name : GetCurrentGenerationID(p, k)
      BY <2>3 DEF Next, vars, Start, Connect, Opened, Pinged, DialFails, SetupFails, Crash,
                  CommitSession, CommitGeneration, InsertFails, GetNextGenerationID,
                  GetNextSessionID, Begin, AssignID, GetNextTxnID, GetNextInsertID, Tick, Collect
    <3>2. k = n /\ current'[n] \in Latest(n)
      BY <2>3, <3>1 DEF GetCurrentGenerationID, IInv, TypeOK
    <3>3. CASE current[n] = NoRow
      <4>1. current'[n].created \in Nat /\ current[n].created = 0
        BY <3>2, <3>3 DEF Latest, IInv, TypeOK, Row, NoRow
      <4> QED
        BY <4>1
    <3>4. CASE current[n] # NoRow
      <4>1. current[n].name = n /\ current[n].live
        BY <3>4 DEF IInv, CurrentOfName
      <4>2. current[n].created <= current'[n].created
        BY <3>2, <4>1 DEF Latest
      <4>3. current'[n].created \in Nat
        BY <3>2 DEF Latest, IInv, TypeOK, Row
      <4> QED
        BY <2>1, <4>2, <4>3
    <3> QED
      BY <3>3, <3>4
  <2> QED
    BY <2>2, <2>3
<1> QED
  BY <1>1, Invariance, PTL DEF Spec, CurrentNeverGoesBack
=============================================================================
