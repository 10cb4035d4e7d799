----------------------------- MODULE StateStore -----------------------------
(***************************************************************************)
(* DuckDbNode of packages/ibc-routing/src/db.ts: the store that keeps what *)
(* is known of a transfer on the EVM chain, on OraiBridge and on Oraichain.*)
(*                                                                         *)
(* Its methods are asynchronous and take no lock.  Every client of the     *)
(* process runs one method at a time, and a method gives way to the others *)
(* at each await: the steps below lie between two awaits.  All clients     *)
(* share the static "instances", the directory of the temporary files, and *)
(* the databases they hold a handle of.                                    *)
(***************************************************************************)
EXTENDS Naturals, Sequences

CONSTANTS
  Clients,    \* callers of the store in one process
  Rows,       \* the rows they may insert
  MaxOps,     \* bound: calls of insertData and findStateByPacketSequence
  MaxCrashes  \* bound: restarts of the process

\* Object.keys(sqlCommands.create), in that order.
TableOrder == <<"EvmState", "OraiBridgeState", "OraichainState">>
Tables     == {"EvmState", "OraiBridgeState", "OraichainState"}

\* EvmState is keyed by eventNonce, the others by packetSequence.
HasSequence(t) == t # "EvmState"

Row == [table : Tables, key : Nat]

ASSUME RowsAssumption   == Rows \subseteq Row
ASSUME BoundsAssumption == MaxOps \in Nat /\ MaxCrashes \in Nat
ASSUME NamesAssumption  == "none" \notin Clients /\ "file" \notin Clients

VARIABLES
  memory,    \* create was called without a name: every database is ":memory:"
  instance,  \* DuckDbNode.instances: a database, or "none"
  tables,    \* the tables of each database
  rows,      \* the rows of each database
  file,      \* the temporary file of each table
  pc,        \* what each client waits for
  db,        \* the database each client has a handle of, or "none"
  at,        \* the loop over the tables: the index of the next one
  row,       \* insertData: the row
  key,       \* findStateByPacketSequence: the sequence
  linked,    \* the clients whose open file is the one of that name
  answer,    \* what the last call came to
  stored,    \* that call's INSERT has been committed
  ops, crashes,                      \* counted for the bounds
  raced, clashed, known, since, failed  \* history, see below

(***************************************************************************)
(* History variables, for the properties only.                             *)
(*   raced    a create found no instance while another was opening one     *)
(*   clashed  clients whose insert overlaps one of the same table          *)
(*   known    the rows of inserts that resolved, unless they clashed       *)
(*   since    what was known when a client's search began                  *)
(*   failed   tables whose last insert threw or was cut off by a crash     *)
(***************************************************************************)
history == <<raced, clashed, known, since, failed>>
store   == <<instance, tables, rows, file>>
vars    == <<memory, store, pc, db, at, row, key, linked, answer, stored, ops,
             crashes, history>>

Databases == Clients \cup {"file"}

\* A file is opened as one and the same database by every client.
Opens(c) == IF memory THEN c ELSE "file"

\* What a temporary file holds: a row, or no file, nothing yet, or no JSON text.
Content  == [is : {"row", "absent", "empty", "garbled"}, row : Row]
NoRow    == [table |-> "EvmState", key |-> 0]
Holds(r) == [is |-> "row", row |-> r]
Absent   == [is |-> "absent", row |-> NoRow]
Empty    == [is |-> "empty", row |-> NoRow]
Garbled  == [is |-> "garbled", row |-> NoRow]

\* insertData is under way: its file has been opened and is not yet deleted.
Inserting(c) == pc[c] \in {"write", "load", "unlink"}

Overlapping(c, t) == {d \in Clients \ {c} : Inserting(d) /\ row[d].table = t}

Init ==
  /\ memory \in BOOLEAN
  /\ instance = "none"
  /\ tables = [d \in Databases |-> {}]
  /\ rows = [d \in Databases |-> {}]
  /\ file = [t \in Tables |-> Absent]
  /\ pc = [c \in Clients |-> "ready"]
  /\ db = [c \in Clients |-> "none"]
  /\ at = [c \in Clients |-> 1]
  /\ row = [c \in Clients |-> NoRow]
  /\ key = [c \in Clients |-> 0]
  /\ linked = {}
  /\ answer = [c \in Clients |-> "none"]
  /\ stored = [c \in Clients |-> FALSE]
  /\ ops = 0
  /\ crashes = 0
  /\ raced = FALSE
  /\ clashed = {}
  /\ known = {}
  /\ since = [c \in Clients |-> {}]
  /\ failed = {}

-----------------------------------------------------------------------------
(***************************************************************************)
(* DuckDbNode.create.                                                      *)
(***************************************************************************)

\* Mutant: the static instance is not looked at (as in DuckDbWasm.create).
CreateAlwaysOpens(c) ==
  /\ pc[c] = "ready" /\ db[c] = "none"
  /\ pc' = [pc EXCEPT ![c] = "open"]
  /\ raced' = (raced \/ \E d \in Clients : pc[d] = "open")
  /\ UNCHANGED <<memory, store, db, at, row, key, linked, answer, stored, ops,
                 crashes, clashed, known, since, failed>>

Create(c) ==
  /\ pc[c] = "ready" /\ db[c] = "none"
  /\ IF instance # "none"
     THEN /\ db' = [db EXCEPT ![c] = instance]
          /\ UNCHANGED <<pc, raced>>
     ELSE /\ pc' = [pc EXCEPT ![c] = "open"]
          /\ raced' = (raced \/ \E d \in Clients : pc[d] = "open")
          /\ UNCHANGED db
  /\ UNCHANGED <<memory, store, at, row, key, linked, answer, stored, ops,
                 crashes, clashed, known, since, failed>>

\* The database is open and connected: it becomes the instance, whatever that is
\* by now.
Opened(c) ==
  /\ pc[c] = "open"
  /\ pc' = [pc EXCEPT ![c] = "ready"]
  /\ instance' = Opens(c)
  /\ db' = [db EXCEPT ![c] = Opens(c)]
  /\ UNCHANGED <<memory, tables, rows, file, at, row, key, linked, answer, stored,
                 ops, crashes, history>>

\* Database.create or connect rejects.
OpenFails(c) ==
  /\ pc[c] = "open"
  /\ pc' = [pc EXCEPT ![c] = "ready"]
  /\ UNCHANGED <<memory, store, db, at, row, key, linked, answer, stored, ops,
                 crashes, history>>

Idle(c) == pc[c] = "ready" /\ db[c] # "none"

\* createTable: one "create table if not exists" after the other.
CreateTable(c) ==
  /\ Idle(c)
  /\ pc' = [pc EXCEPT ![c] = "tables"]
  /\ UNCHANGED <<memory, store, db, at, row, key, linked, answer, stored, ops,
                 crashes, history>>

\* Mutant: the loop runs once too often.
TableCreatedPastEnd(c) ==
  /\ pc[c] = "tables"
  /\ tables' = [tables EXCEPT ![db[c]] = @ \cup {TableOrder[at[c]]}]
  /\ IF at[c] <= Len(TableOrder)
     THEN at' = [at EXCEPT ![c] = @ + 1] /\ UNCHANGED pc
     ELSE pc' = [pc EXCEPT ![c] = "ready"] /\ at' = [at EXCEPT ![c] = 1]
  /\ UNCHANGED <<memory, instance, rows, file, db, row, key, linked, answer,
                 stored, ops, crashes, history>>

TableCreated(c) ==
  /\ pc[c] = "tables"
  /\ tables' = [tables EXCEPT ![db[c]] = @ \cup {TableOrder[at[c]]}]
  /\ IF at[c] < Len(TableOrder)
     THEN at' = [at EXCEPT ![c] = @ + 1] /\ UNCHANGED pc
     ELSE pc' = [pc EXCEPT ![c] = "ready"] /\ at' = [at EXCEPT ![c] = 1]
  /\ UNCHANGED <<memory, instance, rows, file, db, row, key, linked, answer,
                 stored, ops, crashes, history>>

-----------------------------------------------------------------------------
(***************************************************************************)
(* insertData: the row goes through the file <table>.json of the working   *)
(* directory.  fs.promises.writeFile opens the file, which creates or      *)
(* empties it, and then writes from its start.                             *)
(***************************************************************************)

\* Mutant: the file is opened for appending, and a leftover stays in it.
InsertAppends(c, r) ==
  /\ Idle(c) /\ ops < MaxOps
  /\ pc' = [pc EXCEPT ![c] = "write"]
  /\ row' = [row EXCEPT ![c] = r]
  /\ file' = [file EXCEPT ![r.table] = IF @ = Absent THEN Empty ELSE @]
  /\ linked' = linked \cup {c}
  /\ answer' = [answer EXCEPT ![c] = "pending"]
  /\ stored' = [stored EXCEPT ![c] = FALSE]
  /\ ops' = ops + 1
  /\ LET others == Overlapping(c, r.table) IN
     clashed' = IF others = {} THEN clashed \ {c} ELSE clashed \cup others \cup {c}
  /\ UNCHANGED <<memory, instance, tables, rows, db, at, key, crashes, raced,
                 known, since, failed>>

Insert(c, r) ==
  /\ Idle(c) /\ ops < MaxOps
  /\ pc' = [pc EXCEPT ![c] = "write"]
  /\ row' = [row EXCEPT ![c] = r]
  /\ file' = [file EXCEPT ![r.table] = Empty]
  /\ linked' = linked \cup {c}
  /\ answer' = [answer EXCEPT ![c] = "pending"]
  /\ stored' = [stored EXCEPT ![c] = FALSE]
  /\ ops' = ops + 1
  /\ LET others == Overlapping(c, r.table) IN
     clashed' = IF others = {} THEN clashed \ {c} ELSE clashed \cup others \cup {c}
  /\ UNCHANGED <<memory, instance, tables, rows, db, at, key, crashes, raced,
                 known, since, failed>>

\* A longer text that another call wrote before keeps its end.
AfterWrite(old, r) ==
  IF old \in {Empty, Holds(r)} THEN {Holds(r)} ELSE {Holds(r), Garbled}

\* The text goes to the file that was opened, even if its name is gone.
Written(c) ==
  /\ pc[c] = "write"
  /\ pc' = [pc EXCEPT ![c] = "load"]
  /\ IF c \in linked
     THEN \E f \in AfterWrite(file[row[c].table], row[c]) :
            file' = [file EXCEPT ![row[c].table] = f]
     ELSE UNCHANGED file
  /\ linked' = linked \ {c}
  /\ UNCHANGED <<memory, instance, tables, rows, db, at, row, key, answer, stored,
                 ops, crashes, history>>

Throws(c) ==
  /\ pc' = [pc EXCEPT ![c] = "ready"]
  /\ answer' = [answer EXCEPT ![c] = "threw"]
  /\ failed' = failed \cup {row[c].table}

\* INSERT INTO ... SELECT * FROM read_json_auto: the table exists, the file holds
\* a row, and its primary key is new.
CanLoad(c) ==
  LET t == row[c].table IN
  /\ t \in tables[db[c]]
  /\ file[t].is = "row"
  /\ \A r \in rows[db[c]] : r.table = t => r.key # file[t].row.key

\* Mutant: what the INSERT throws is caught and logged.
LoadCatches(c) ==
  /\ pc[c] = "load"
  /\ pc' = [pc EXCEPT ![c] = "unlink"]
  /\ IF CanLoad(c)
     THEN /\ rows' = [rows EXCEPT ![db[c]] = @ \cup {file[row[c].table].row}]
          /\ stored' = [stored EXCEPT ![c] = TRUE]
     ELSE UNCHANGED <<rows, stored>>
  /\ UNCHANGED <<memory, instance, tables, file, db, at, row, key, linked, answer,
                 ops, crashes, history>>

Load(c) ==
  /\ pc[c] = "load"
  /\ IF CanLoad(c)
     THEN /\ pc' = [pc EXCEPT ![c] = "unlink"]
          /\ rows' = [rows EXCEPT ![db[c]] = @ \cup {file[row[c].table].row}]
          /\ stored' = [stored EXCEPT ![c] = TRUE]
          /\ UNCHANGED <<answer, failed>>
     ELSE Throws(c) /\ UNCHANGED <<rows, stored>>
  /\ UNCHANGED <<memory, instance, tables, file, db, at, row, key, linked, ops,
                 crashes, raced, clashed, known, since>>

\* Mutant: the temporary file is not deleted.
UnlinkForgotten(c) ==
  /\ pc[c] = "unlink"
  /\ pc' = [pc EXCEPT ![c] = "ready"]
  /\ answer' = [answer EXCEPT ![c] = "ok"]
  /\ known' = IF c \in clashed THEN known ELSE known \cup {row[c]}
  /\ failed' = failed \ {row[c].table}
  /\ UNCHANGED <<memory, store, db, at, row, key, linked, stored, ops, crashes,
                 raced, clashed, since>>

\* The file is deleted, for everybody who has it open; unlink throws if another
\* call has deleted it already.
Unlink(c) ==
  /\ pc[c] = "unlink"
  /\ LET t == row[c].table IN
     IF file[t] # Absent
     THEN /\ pc' = [pc EXCEPT ![c] = "ready"]
          /\ file' = [file EXCEPT ![t] = Absent]
          /\ linked' = {d \in linked : row[d].table # t}
          /\ answer' = [answer EXCEPT ![c] = "ok"]
          /\ known' = IF c \in clashed THEN known ELSE known \cup {row[c]}
          /\ failed' = failed \ {t}
     ELSE Throws(c) /\ UNCHANGED <<file, linked, known>>
  /\ UNCHANGED <<memory, instance, tables, rows, db, at, row, key, stored, ops,
                 crashes, raced, clashed, since>>

-----------------------------------------------------------------------------
(***************************************************************************)
(* findStateByPacketSequence: one query after the other; errors are caught.*)
(***************************************************************************)
Find(c, k) ==
  /\ Idle(c) /\ ops < MaxOps
  /\ pc' = [pc EXCEPT ![c] = "find"]
  /\ key' = [key EXCEPT ![c] = k]
  /\ answer' = [answer EXCEPT ![c] = "pending"]
  /\ ops' = ops + 1
  /\ since' = [since EXCEPT ![c] = known]
  /\ UNCHANGED <<memory, store, db, at, row, linked, stored, crashes, raced,
                 clashed, known, failed>>

\* The query throws where the table or its column packetSequence is missing.
Answers(c) ==
  LET t == TableOrder[at[c]] IN
  /\ t \in tables[db[c]] /\ HasSequence(t)
  /\ \E r \in rows[db[c]] : r.table = t /\ r.key = key[c]

\* Mutant: the first query that throws ends the search.
QueriedStopsOnError(c) ==
  /\ pc[c] = "find"
  /\ IF Answers(c)
     THEN /\ pc' = [pc EXCEPT ![c] = "ready"]
          /\ answer' = [answer EXCEPT ![c] = TableOrder[at[c]]]
          /\ at' = [at EXCEPT ![c] = 1]
     ELSE IF at[c] < Len(TableOrder) /\ HasSequence(TableOrder[at[c]])
     THEN at' = [at EXCEPT ![c] = @ + 1] /\ UNCHANGED <<pc, answer>>
     ELSE /\ pc' = [pc EXCEPT ![c] = "ready"]
          /\ answer' = [answer EXCEPT ![c] = "nothing"]
          /\ at' = [at EXCEPT ![c] = 1]
  /\ UNCHANGED <<memory, store, db, row, key, linked, stored, ops, crashes, history>>

Queried(c) ==
  /\ pc[c] = "find"
  /\ IF Answers(c)
     THEN /\ pc' = [pc EXCEPT ![c] = "ready"]
          /\ answer' = [answer EXCEPT ![c] = TableOrder[at[c]]]
          /\ at' = [at EXCEPT ![c] = 1]
     ELSE IF at[c] < Len(TableOrder)
     THEN at' = [at EXCEPT ![c] = @ + 1] /\ UNCHANGED <<pc, answer>>
     ELSE /\ pc' = [pc EXCEPT ![c] = "ready"]
          /\ answer' = [answer EXCEPT ![c] = "nothing"]
          /\ at' = [at EXCEPT ![c] = 1]
  /\ UNCHANGED <<memory, store, db, row, key, linked, stored, ops, crashes, history>>

-----------------------------------------------------------------------------
\* The process dies and starts again: files survive, memory does not.
Crash ==
  /\ crashes < MaxCrashes
  /\ crashes' = crashes + 1
  /\ instance' = "none"
  /\ tables' = IF memory THEN [d \in Databases |-> {}] ELSE tables
  /\ rows' = IF memory THEN [d \in Databases |-> {}] ELSE rows
  /\ known' = IF memory THEN {} ELSE known
  /\ pc' = [c \in Clients |-> "ready"]
  /\ db' = [c \in Clients |-> "none"]
  /\ answer' = [c \in Clients |-> "none"]
  /\ at' = [c \in Clients |-> 1]
  /\ since' = [c \in Clients |-> {}]
  /\ stored' = [c \in Clients |-> FALSE]
  /\ linked' = {}
  /\ raced' = FALSE
  /\ clashed' = {}
  /\ failed' = failed \cup {row[c].table : c \in {d \in Clients : Inserting(d)}}
  /\ UNCHANGED <<memory, file, row, key, ops>>

Keys == {r.key : r \in Rows}

Step(c) ==
  \/ Create(c) \/ Opened(c) \/ OpenFails(c)
  \/ CreateTable(c) \/ TableCreated(c)
  \/ \E r \in Rows : Insert(c, r)
  \/ Written(c) \/ Load(c) \/ Unlink(c)
  \/ \E k \in Keys : Find(c, k)
  \/ Queried(c)

Next == Crash \/ \E c \in Clients : Step(c)

Spec == Init /\ [][Next]_vars

-----------------------------------------------------------------------------
(***************************************************************************)
(* Properties.                                                             *)
(***************************************************************************)

\* The loops over the tables stay in range, and nothing but whole rows gets into
\* a database.
TypeOK ==
  /\ memory \in BOOLEAN
  /\ instance \in Databases \cup {"none"}
  /\ tables \in [Databases -> SUBSET Tables]
  /\ rows \in [Databases -> SUBSET Rows]
  /\ file \in [Tables -> Content]
  /\ pc \in [Clients -> {"ready", "open", "tables", "write", "load", "unlink", "find"}]
  /\ db \in [Clients -> Databases \cup {"none"}]
  /\ at \in [Clients -> DOMAIN TableOrder]
  /\ row \in [Clients -> Row]
  /\ key \in [Clients -> Nat]
  /\ linked \subseteq Clients
  /\ answer \in [Clients -> Tables \cup {"none", "pending", "ok", "threw", "nothing"}]
  /\ stored \in [Clients -> BOOLEAN]
  /\ ops \in 0 .. MaxOps
  /\ crashes \in 0 .. MaxCrashes
  /\ raced \in BOOLEAN
  /\ clashed \subseteq Clients
  /\ known \subseteq Rows
  /\ since \in [Clients -> SUBSET Rows]
  /\ failed \subseteq Tables

\* All clients work on one database, as the static "instances" of DuckDbNode is
\* meant to ensure: it does unless two calls of create overlap, and for a file
\* even then.
OneDatabase ==
  ~(memory /\ raced) =>
    \A c, d \in Clients : db[c] # "none" /\ db[d] # "none" => db[c] = db[d]

\* insertData tells the truth: if it resolves, its row is in the database, and if
\* it throws, it has stored nothing; unless another insert into the same table
\* overlaps it and takes its file away.
AnswersTrue ==
  \A c \in Clients \ clashed :
    /\ answer[c] = "ok" => row[c] \in rows[db[c]]
    /\ answer[c] = "threw" => ~stored[c]

\* An insert that no other overlaps is refused only for its table or its primary
\* key: what a refused insert or a crash left in the temporary file, where the next
\* insert writes, does not get in its way.
RefusedOnlyForTheRow ==
  [][\A c \in Clients \ clashed :
       pc[c] = "load" /\ answer'[c] = "threw" =>
         \/ row[c].table \notin tables[db[c]]
         \/ \E r \in rows[db[c]] : r.table = row[c].table /\ r.key = row[c].key]_vars

\* A search finds what was inserted before it began, by any client and in any of
\* the tables with a packet sequence, although it asks them one by one while
\* others insert, and although the first of them cannot answer.
FindsWhatIsKnown ==
  \A c \in Clients :
    answer[c] = "nothing" /\ ~(memory /\ raced) =>
      \A r \in since[c] : HasSequence(r.table) => r.key # key[c]

\* A temporary file that nobody is working on was left by an insert that threw or
\* by a crash.
CleansUp ==
  \A t \in Tables :
    file[t] # Absent =>
      t \in failed \/ \E c \in Clients : Inserting(c) /\ row[c].table = t
=============================================================================
