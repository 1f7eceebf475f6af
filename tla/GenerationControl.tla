-------------------------- MODULE GenerationControl --------------------------
(***************************************************************************)
(* The control identifiers of public/sqlengine and pkg/txncounter: several *)
(* processes on one database draw generation, discovery generation and     *)
(* session ids from its tables, and transaction and insert ids from        *)
(* counters in memory.                                                     *)
(*                                                                         *)
(* The database is external.  An insert takes its timestamp when it begins *)
(* and its id thereafter, and becomes visible when it commits.  SQLite     *)
(* lets one insert in at a time and counts time in seconds; Postgres (and  *)
(* Snowflake) let inserts overlap, so that ids, timestamps and commits may *)
(* be in three different orders.                                           *)
(***************************************************************************)
EXTENDS Integers, Sequences, FiniteSets

CONSTANTS
  Processes,       \* the processes on the database
  Discoveries,     \* the discovery names
  Engines,         \* the databases to choose from: "sqlite", "postgres"
  InitMaxRetries,  \* how often an engine dials, and pings, again
  MaxClock,        \* bound: the time
  MaxRows,         \* bound: of each table, the rows that are inserted
  MaxIssued        \* bound: the transaction and insert ids handed out

ASSUME EnginesAssumption == Engines \subseteq {"sqlite", "postgres"}
ASSUME BoundsAssumption ==
  InitMaxRetries \in Nat /\ MaxClock \in Nat /\ MaxIssued \in Nat

VARIABLES
  engine,    \* the database all processes are on
  clock,
  proc,      \* of each process: "down", "open", "ping" or "up"
  tries,     \* of each process: the dials or pings that failed
  seq,       \* of each table: the last id the database gave out
  pending,   \* of each process and table: the insert under way, as a set
  rows,      \* the visible rows of the two generation tables
  sessions,  \* the visible rows of the session table
  current,   \* of each name: what the last reading of its generation found
  managers,  \* the transaction counter managers
  txnID,     \* of each process: currentTxnID
  issued     \* the ids the managers have handed out, in order

database == <<engine, clock, seq, rows, sessions>>
memory == <<managers, txnID, issued>>
vars == <<database, proc, tries, pending, current, memory>>

Table == {"generation", "discovery", "session"}

(* The generation table has one anonymous line of generations.             *)
Anonymous == "generation"
Name == {Anonymous} \cup Discoveries
TableOf(n) == IF n = Anonymous THEN "generation" ELSE "discovery"

(* Rows; live is collected_dttm IS null.                                   *)
Row == [name: Name, id: Nat, created: Nat, live: BOOLEAN]
Session == [id: Nat, gen: Nat]
NoRow == [name |-> Anonymous, id |-> 0, created |-> 0, live |-> FALSE]

Manager == [proc: Processes, gen: Nat, ssn: Nat, insertID: Nat]
Issue == [gen: Nat, ssn: Nat, kind: {"txn", "insert"}, id: Nat]

TypeOK ==
  /\ engine \in {"sqlite", "postgres"}
  /\ clock \in Nat
  /\ proc \in [Processes -> {"down", "open", "ping", "up"}]
  /\ tries \in [Processes -> 0 .. InitMaxRetries]
  /\ seq \in [Table -> Nat]
  /\ pending \in [Processes -> [Table -> SUBSET (Row \cup Session)]]
  /\ \A p \in Processes, t \in Table :
       pending[p][t] \subseteq IF t = "session" THEN Session ELSE Row
  /\ rows \subseteq Row
  /\ sessions \subseteq Session
  /\ current \in [Name -> Row]
  /\ managers \subseteq Manager
  /\ txnID \in [Processes -> Nat]
  /\ issued \in Seq(Issue)

Init ==
  /\ engine \in Engines
  /\ clock = 0
  /\ proc = [p \in Processes |-> "down"]
  /\ tries = [p \in Processes |-> 0]
  /\ seq = [t \in Table |-> 0]
  /\ pending = [p \in Processes |-> [t \in Table |-> {}]]
  /\ rows = {}
  /\ sessions = {}
  /\ current = [n \in Name |-> NoRow]
  /\ managers = {}
  /\ txnID = [p \in Processes |-> 0]
  /\ issued = <<>>

-----------------------------------------------------------------------------
(* NewSQLEngine *)

Start(p) ==
  /\ proc[p] = "down"
  /\ proc' = [proc EXCEPT ![p] = "open"]
  /\ tries' = [tries EXCEPT ![p] = 0]
  /\ UNCHANGED <<database, pending, current, memory>>

(* An engine over TCP pings what it opened, with a count of its own.       *)
Opened(p) ==
  /\ proc[p] = "open"
  /\ proc' = [proc EXCEPT ![p] = IF engine = "sqlite" THEN "up" ELSE "ping"]
  /\ tries' = [tries EXCEPT ![p] = 0]
  /\ UNCHANGED <<database, pending, current, memory>>

Pinged(p) ==
  /\ proc[p] = "ping"
  /\ proc' = [proc EXCEPT ![p] = "up"]
  /\ UNCHANGED <<database, tries, pending, current, memory>>

(* SQLite does not open twice.                                             *)
MayRetry(p) == engine # "sqlite" /\ tries[p] < InitMaxRetries

DialFails(p) ==
  /\ proc[p] \in {"open", "ping"}
  /\ IF MayRetry(p)
     THEN tries' = [tries EXCEPT ![p] = @ + 1] /\ UNCHANGED proc
     ELSE proc' = [proc EXCEPT ![p] = "down"] /\ UNCHANGED tries
  /\ UNCHANGED <<database, pending, current, memory>>

(* There is no DSN, or the init file cannot be read or executed.           *)
SetupFails(p) ==
  /\ proc[p] \in {"open", "ping"}
  /\ proc' = [proc EXCEPT ![p] = "down"]
  /\ UNCHANGED <<database, tries, pending, current, memory>>

-----------------------------------------------------------------------------
(* The tables *)

(* The process holds no mutex of the table, and SQLite no write lock.      *)
MayInsert(p, t) ==
  /\ proc[p] = "up"
  /\ pending[p][t] = {}
  /\ engine = "sqlite" => \A q \in Processes, u \in Table : pending[q][u] = {}
  /\ seq[t] < MaxRows[t]

Begin(p, t, r) ==
  /\ MayInsert(p, t)
  /\ pending' = [pending EXCEPT ![p][t] = {r}]
  /\ UNCHANGED <<engine, clock, rows, sessions, proc, tries, current, memory>>

(* GetNextGenerationID and GetNextDiscoveryGenerationID: the row has a     *)
(* timestamp, and then an id.                                              *)
GetNextGenerationID(p, n) ==
  /\ Begin(p, TableOf(n), [name |-> n, id |-> 0, created |-> clock, live |-> TRUE])
  /\ UNCHANGED seq

AssignID(p, t) ==
  /\ t # "session"
  /\ seq[t] < MaxRows[t]
  /\ \E r \in pending[p][t] :
       /\ r.id = 0
       /\ pending' = [pending EXCEPT ![p][t] = {[r EXCEPT !.id = seq[t] + 1]}]
  /\ seq' = [seq EXCEPT ![t] = @ + 1]
  /\ UNCHANGED <<engine, clock, rows, sessions, proc, tries, current, memory>>

(* Mistake: the session id is the number of the visible sessions plus one. *)
NextSessionIDCounted == Cardinality(sessions) + 1

(* The id RETURNING gives.                                                 *)
NextSessionID == seq["session"] + 1

GetNextSessionID(p, g) ==
  /\ Begin(p, "session", [id |-> NextSessionID, gen |-> g])
  /\ seq' = [seq EXCEPT !["session"] = @ + 1]

(* The row is there, and the id is returned: a session's is what the       *)
(* caller makes a manager of.                                              *)
CommitGeneration(p, t) ==
  /\ t # "session"
  /\ \E r \in pending[p][t] : r.id # 0
  /\ rows' = rows \cup pending[p][t]
  /\ pending' = [pending EXCEPT ![p][t] = {}]
  /\ UNCHANGED <<engine, clock, seq, sessions, proc, tries, current, memory>>

NewTxnCounterManager(p, s) ==
  [proc |-> p, gen |-> s.gen, ssn |-> s.id, insertID |-> 0]

CommitSession(p) ==
  /\ pending[p]["session"] # {}
  /\ sessions' = sessions \cup pending[p]["session"]
  /\ managers' = managers \cup
       {NewTxnCounterManager(p, s) : s \in pending[p]["session"]}
  /\ pending' = [pending EXCEPT ![p]["session"] = {}]
  /\ UNCHANGED <<engine, clock, seq, rows, proc, tries, current, txnID, issued>>

(* The statement fails: an error is returned, and the id is lost.  (SQLite *)
(* gives it out again; nobody has seen it.)                                *)
InsertFails(p, t) ==
  /\ pending[p][t] # {}
  /\ pending' = [pending EXCEPT ![p][t] = {}]
  /\ UNCHANGED <<database, proc, tries, current, memory>>

(* Mistake: the largest id is taken for the latest.                        *)
LatestById(n) ==
  {r \in rows : /\ r.name = n /\ r.live
                /\ \A s \in rows : s.name = n /\ s.live => s.id <= r.id}

(* The rows the query selects: live, and created no earlier than any live  *)
(* row of the name.                                                        *)
Latest(n) ==
  {r \in rows : /\ r.name = n /\ r.live
                /\ \A s \in rows : s.name = n /\ s.live => s.created <= r.created}

(* GetCurrentGenerationID and GetCurrentDiscoveryGenerationID.  Of several *)
(* rows any may come first; none is an error.                              *)
GetCurrentGenerationID(p, n) ==
  /\ proc[p] = "up"
  /\ pending[p][TableOf(n)] = {}
  /\ IF Latest(n) = {}
     THEN current' = [current EXCEPT ![n] = NoRow]
     ELSE \E r \in Latest(n) : current' = [current EXCEPT ![n] = r]
  /\ UNCHANGED <<database, proc, tries, pending, memory>>

-----------------------------------------------------------------------------
(* The counters *)

Hand(m, kind, id) ==
  /\ Len(issued) < MaxIssued
  /\ issued' =
       Append(issued, [gen |-> m.gen, ssn |-> m.ssn, kind |-> kind, id |-> id])

GetNextTxnID(m) ==
  /\ Hand(m, "txn", txnID[m.proc] + 1)
  /\ txnID' = [txnID EXCEPT ![m.proc] = @ + 1]
  /\ UNCHANGED <<database, proc, tries, pending, current, managers>>

GetNextInsertID(m) ==
  /\ Hand(m, "insert", m.insertID + 1)
  /\ managers' = (managers \ {m}) \cup {[m EXCEPT !.insertID = @ + 1]}
  /\ UNCHANGED <<database, proc, tries, pending, current, txnID>>

-----------------------------------------------------------------------------
(* The environment *)

Tick ==
  /\ clock < MaxClock
  /\ clock' = clock + 1
  /\ UNCHANGED <<engine, seq, rows, sessions, proc, tries, pending, current, memory>>

(* A garbage collector sets collected_dttm.                                *)
Collect(r) ==
  /\ r.live
  /\ rows' = (rows \ {r}) \cup {[r EXCEPT !.live = FALSE]}
  /\ UNCHANGED <<engine, clock, seq, sessions, proc, tries, pending, current, memory>>

(* A process ends and takes its counters and its managers with it.         *)
Crash(p) ==
  /\ proc[p] = "up"
  /\ proc' = [proc EXCEPT ![p] = "down"]
  /\ pending' = [pending EXCEPT ![p] = [t \in Table |-> {}]]
  /\ managers' = {m \in managers : m.proc # p}
  /\ txnID' = [txnID EXCEPT ![p] = 0]
  /\ UNCHANGED <<database, tries, current, issued>>

Connect(p) == Opened(p) \/ Pinged(p) \/ DialFails(p) \/ SetupFails(p)

Next ==
  \/ \E p \in Processes :
       \/ Start(p) \/ Connect(p) \/ CommitSession(p) \/ Crash(p)
       \/ \E t \in Table : AssignID(p, t) \/ CommitGeneration(p, t) \/ InsertFails(p, t)
       \/ \E n \in Name : GetNextGenerationID(p, n) \/ GetCurrentGenerationID(p, n)
       \/ \E r \in rows : r.name = Anonymous /\ GetNextSessionID(p, r.id)
  \/ \E m \in managers : GetNextTxnID(m) \/ GetNextInsertID(m)
  \/ \E r \in rows : Collect(r)
  \/ Tick

Spec == Init /\ [][Next]_vars

-----------------------------------------------------------------------------
(* PROPERTIES *)

(* No transaction or insert id is handed out twice under one generation    *)
(* and session, by any process, before or after a restart: rows of two     *)
(* transactions would not be told apart.                                   *)
IdsNeverRepeat ==
  \A i, j \in DOMAIN issued : issued[i] = issued[j] => i = j

(* The current generation of a name is never one created before the last   *)
(* reading's, by whichever process, unless that one was collected.         *)
CurrentNeverGoesBack ==
  [][\A n \in Name :
       current[n] \in rows /\ current'[n] # NoRow
       => current'[n].created >= current[n].created]_vars

=============================================================================
