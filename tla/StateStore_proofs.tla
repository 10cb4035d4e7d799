-------------------------- MODULE StateStore_proofs --------------------------
(***************************************************************************)
(* Proofs about StateStore, for any number of clients, rows, calls and     *)
(* restarts: the types, that all clients work on one database, that        *)
(* insertData answers truthfully, refuses a row only for good reason and   *)
(* leaves no file behind, and that a search finds what is known.           *)
(***************************************************************************)
EXTENDS StateStore, TLAPS

\* The loops over Object.keys(sqlCommands.create) run over three tables.
LEMMA Order ==
  /\ Len(TableOrder) = 3 /\ DOMAIN TableOrder = 1 .. 3
  /\ \A k \in 1 .. 3 : TableOrder[k] \in Tables
  /\ \A t \in Tables : \E k \in 1 .. 3 : TableOrder[k] = t
<1>1. Len(TableOrder) = 3 /\ DOMAIN TableOrder = 1 .. 3
  BY DEF TableOrder
<1>2. /\ TableOrder[1] = "EvmState" /\ TableOrder[2] = "OraiBridgeState"
      /\ TableOrder[3] = "OraichainState"
  BY DEF TableOrder
<1>3. \A k \in 1 .. 3 : k = 1 \/ k = 2 \/ k = 3
  OBVIOUS
<1> QED BY <1>1, <1>2, <1>3 DEF Tables

\* The contents of a temporary file are distinct contents.
LEMMA Contents ==
  /\ NoRow \in Row /\ Absent \in Content /\ Empty \in Content /\ Garbled \in Content
  /\ \A r \in Row : Holds(r) \in Content /\ Holds(r) # Absent /\ Holds(r) # Empty
BY DEF NoRow, Row, Tables, Content, Holds, Absent, Empty, Garbled

\* TypeOK, and: a client has no handle before its create is through, and a
\* method that runs has one.
TypeInv ==
  /\ TypeOK
  /\ \A t \in Tables : file[t].is = "row" => file[t].row \in Rows
  /\ \A c \in Clients :
       /\ Inserting(c) => row[c] \in Rows
       /\ db[c] = "none" => pc[c] \in {"ready", "open"} /\ answer[c] = "none"
       /\ pc[c] = "open" => db[c] = "none"

\* Opening gives a database.
LEMMA OpensTypes == TypeOK => \A c \in Clients : Opens(c) \in Databases /\ Opens(c) # "none"
BY NamesAssumption DEF Opens, Databases, TypeOK

\* The store starts without a database and without files.
LEMMA TypeInit == Init => TypeInv
<1> SUFFICES ASSUME Init PROVE TypeInv
  OBVIOUS
<1> USE DEF Init
<1>1. TypeOK
  <2>1. 1 \in DOMAIN TableOrder /\ 0 \in 0 .. MaxOps /\ 0 \in 0 .. MaxCrashes
    BY Order, BoundsAssumption
  <2> QED BY Contents, <2>1 DEF TypeOK
<1>2. \A t \in Tables : file[t].is = "row" => file[t].row \in Rows
  BY DEF Absent
<1>3. \A c \in Clients :
        /\ Inserting(c) => row[c] \in Rows
        /\ db[c] = "none" => pc[c] \in {"ready", "open"} /\ answer[c] = "none"
        /\ pc[c] = "open" => db[c] = "none"
  BY DEF Inserting
<1> QED BY <1>1, <1>2, <1>3 DEF TypeInv

\* Every step of every method, and a restart, keep the types.
LEMMA TypeStep == TypeInv /\ [Next]_vars => TypeInv'
<1> SUFFICES ASSUME TypeInv, [Next]_vars PROVE TypeInv'
  OBVIOUS
<1> USE NamesAssumption, RowsAssumption, BoundsAssumption
<1>0. TypeOK
  BY DEF TypeInv
<1>t. \A c \in Clients : row[c].table \in Tables
  BY <1>0 DEF TypeOK, Row
<1>1. CASE Crash
  <2>a. failed' \subseteq Tables
    <3>1. failed' \subseteq failed \cup {row[c].table : c \in Clients}
      BY <1>1 DEF Crash
    <3> QED BY <1>0, <1>t, <3>1 DEF TypeOK
  <2>b. at' \in [Clients -> DOMAIN TableOrder] /\ crashes' \in 0 .. MaxCrashes
    BY <1>0, <1>1, Order DEF Crash, TypeOK
  <2>c. /\ tables' \in [Databases -> SUBSET Tables]
        /\ rows' \in [Databases -> SUBSET Rows] /\ known' \subseteq Rows
    BY <1>0, <1>1 DEF Crash, TypeOK
  <2>1. TypeOK'
    BY <1>0, <1>1, <2>a, <2>b, <2>c DEF Crash, TypeOK
  <2>2. \A t \in Tables : file'[t].is = "row" => file'[t].row \in Rows
    BY <1>0, <1>1, Order DEF Crash, TypeInv, TypeOK
  <2>3. \A d \in Clients :
          /\ Inserting(d)' => row'[d] \in Rows
          /\ db'[d] = "none" => pc'[d] \in {"ready", "open"} /\ answer'[d] = "none"
          /\ pc'[d] = "open" => db'[d] = "none"
    BY <1>0, <1>1, Order DEF Crash, TypeInv, TypeOK, Inserting
  <2> QED BY <2>1, <2>2, <2>3 DEF TypeInv
<1>2. ASSUME NEW c \in Clients, Create(c) PROVE TypeInv'
  <2>1. TypeOK'
    BY <1>0, <1>2 DEF Create, store, history, TypeOK
  <2>2. \A t \in Tables : file'[t].is = "row" => file'[t].row \in Rows
    BY <1>0, <1>2 DEF Create, store, history, TypeInv, TypeOK
  <2>3. \A d \in Clients :
          /\ Inserting(d)' => row'[d] \in Rows
          /\ db'[d] = "none" => pc'[d] \in {"ready", "open"} /\ answer'[d] = "none"
          /\ pc'[d] = "open" => db'[d] = "none"
    BY <1>0, <1>2 DEF Create, store, history, TypeInv, TypeOK, Inserting
  <2> QED BY <2>1, <2>2, <2>3 DEF TypeInv
<1>3. ASSUME NEW c \in Clients, Opened(c) PROVE TypeInv'
  BY <1>0, <1>3, OpensTypes DEF Opened, TypeInv, TypeOK, Inserting, store, history
<1>4. ASSUME NEW c \in Clients, OpenFails(c) PROVE TypeInv'
  BY <1>0, <1>4 DEF OpenFails, TypeInv, TypeOK, Inserting, store, history
<1>5. ASSUME NEW c \in Clients, CreateTable(c) PROVE TypeInv'
  BY <1>0, <1>5 DEF CreateTable, Idle, TypeInv, TypeOK, Inserting, store, history
<1>6. ASSUME NEW c \in Clients, TableCreated(c) PROVE TypeInv'
  BY <1>0, <1>6, Order DEF TableCreated, TypeInv, TypeOK, Inserting, store, history
<1>7. ASSUME NEW c \in Clients, NEW r \in Rows, Insert(c, r) PROVE TypeInv'
  BY <1>0, <1>7, Contents DEF Insert, Overlapping, Idle, TypeInv, TypeOK, Inserting, store, history, Row, Empty
<1>8. ASSUME NEW c \in Clients, Written(c) PROVE TypeInv'
  <2>1. TypeOK'
    BY <1>0, <1>8, Contents DEF Written, AfterWrite, store, history, Row, Holds, Garbled, TypeOK
  <2>2. \A t \in Tables : file'[t].is = "row" => file'[t].row \in Rows
    BY <1>0, <1>t, <1>8 DEF Written, AfterWrite, store, Holds, Garbled, TypeInv, TypeOK, Inserting
  <2>3. \A d \in Clients :
          /\ Inserting(d)' => row'[d] \in Rows
          /\ db'[d] = "none" => pc'[d] \in {"ready", "open"} /\ answer'[d] = "none"
          /\ pc'[d] = "open" => db'[d] = "none"
    BY <1>0, <1>8, Contents DEF Written, AfterWrite, store, history, Row, Holds, Garbled, TypeInv, TypeOK, Inserting
  <2> QED BY <2>1, <2>2, <2>3 DEF TypeInv
<1>9. ASSUME NEW c \in Clients, Load(c) PROVE TypeInv'
  <2>a. db[c] \in Databases
    BY <1>0, <1>9 DEF Load, TypeInv, TypeOK
  <2>b. CanLoad(c) => file[row[c].table].row \in Rows
    BY <1>t DEF CanLoad, TypeInv
  <2>c. rows' \in [Databases -> SUBSET Rows]
    BY <1>0, <1>9, <2>a, <2>b DEF Load, TypeOK
  <2>d. failed' \subseteq Tables
    BY <1>0, <1>t, <1>9 DEF Load, Throws, TypeOK
  <2>1. TypeOK'
    BY <1>0, <1>9, <2>c, <2>d DEF Load, Throws, TypeOK
  <2>2. \A t \in Tables : file'[t].is = "row" => file'[t].row \in Rows
    BY <1>0, <1>9 DEF Load, CanLoad, Throws, store, history, Row, TypeInv, TypeOK
  <2>3. \A d \in Clients :
          /\ Inserting(d)' => row'[d] \in Rows
          /\ db'[d] = "none" => pc'[d] \in {"ready", "open"} /\ answer'[d] = "none"
          /\ pc'[d] = "open" => db'[d] = "none"
    BY <1>0, <1>9 DEF Load, CanLoad, Throws, store, history, Row, TypeInv, TypeOK, Inserting
  <2> QED BY <2>1, <2>2, <2>3 DEF TypeInv
<1>10. ASSUME NEW c \in Clients, Unlink(c) PROVE TypeInv'
  <2>0. row[c] \in Rows
    BY <1>10 DEF Unlink, TypeInv, Inserting
  <2>1. TypeOK'
    BY <1>0, <1>t, <1>10, <2>0, Contents DEF Unlink, Throws, TypeOK
  <2>2. \A t \in Tables : file'[t].is = "row" => file'[t].row \in Rows
    BY <1>0, <1>t, <1>10 DEF Unlink, Throws, Absent, TypeInv, TypeOK
  <2>3. \A d \in Clients :
          /\ Inserting(d)' => row'[d] \in Rows
          /\ db'[d] = "none" => pc'[d] \in {"ready", "open"} /\ answer'[d] = "none"
          /\ pc'[d] = "open" => db'[d] = "none"
    BY <1>0, <1>10, Contents DEF Unlink, Throws, store, history, Row, Absent, TypeInv, TypeOK, Inserting
  <2> QED BY <2>1, <2>2, <2>3 DEF TypeInv
<1>11. ASSUME NEW c \in Clients, NEW k \in Keys, Find(c, k) PROVE TypeInv'
  BY <1>0, <1>11 DEF Find, Idle, Keys, TypeInv, TypeOK, Inserting, store, history, Row
<1>12. ASSUME NEW c \in Clients, Queried(c) PROVE TypeInv'
  BY <1>0, <1>12, Order DEF Queried, TypeInv, TypeOK, Inserting, store, history
<1>13. CASE UNCHANGED vars
  BY <1>13 DEF vars, store, history, TypeInv, TypeOK, Inserting
<1> QED BY <1>1, <1>2, <1>3, <1>4, <1>5, <1>6, <1>7, <1>8, <1>9, <1>10, <1>11,
           <1>12, <1>13 DEF Next, Step

\* TypeOK is an invariant of DuckDbNode: its loops over the tables stay in range.
THEOREM StoreTypeCorrect == Spec => []TypeOK
<1>1. TypeInv => TypeOK
  BY DEF TypeInv
<1> QED BY <1>1, TypeInit, TypeStep, PTL DEF Spec

-----------------------------------------------------------------------------
(***************************************************************************)
(* The inductive invariant.                                                *)
(***************************************************************************)

\* The database that all clients work on, if there is only one.
Where == IF memory THEN instance ELSE "file"

\* A database in memory is shared because only one client opens one, and only
\* while there is none.
Shared ==
  /\ ~memory => /\ instance \in {"none", "file"}
                /\ \A c \in Clients : db[c] \in {"none", "file"}
  /\ memory /\ ~raced =>
       /\ \A c \in Clients : db[c] # "none" => db[c] = instance
       /\ \A c \in Clients : pc[c] = "open" =>
            instance = "none" /\ \A d \in Clients : pc[d] = "open" => d = c

\* Inserts into one table that overlap are marked.
Marked ==
  \A c, d \in Clients :
    c # d /\ Inserting(c) /\ Inserting(d) /\ row[c].table = row[d].table =>
      c \in clashed

\* An insert that no other overlaps has the temporary file for itself.
Own ==
  \A c \in Clients \ clashed :
    /\ pc[c] = "write" => c \in linked /\ file[row[c].table] = Empty
    /\ pc[c] = "load" => file[row[c].table] = Holds(row[c])
    /\ pc[c] = "unlink" =>
         /\ file[row[c].table] = Holds(row[c])
         /\ row[c] \in rows[db[c]] /\ row[c].table \in tables[db[c]]

Pending ==
  \A c \in Clients :
    Inserting(c) => answer[c] = "pending" /\ (pc[c] # "unlink" => ~stored[c])

\* What is known can be found.
Findable ==
  ~(memory /\ raced) =>
    \A r \in known : Where \in Databases /\ r \in rows[Where] /\ r.table \in tables[Where]

\* What was known when a search began can be found, and not in the tables that
\* have been asked.
Searching ==
  ~(memory /\ raced) =>
    \A c \in Clients : pc[c] = "find" =>
      \A r \in since[c] :
        /\ r \in rows[db[c]] /\ r.table \in tables[db[c]]
        /\ \A j \in 1 .. 3 :
             j < at[c] /\ TableOrder[j] = r.table /\ HasSequence(r.table) =>
               r.key # key[c]

\* Every loop over the tables starts at the first.
Rewound == \A c \in Clients : pc[c] \notin {"tables", "find"} => at[c] = 1

InsertInv == TypeInv /\ Marked /\ Own /\ Pending /\ AnswersTrue
SearchInv == InsertInv /\ Shared /\ Rewound /\ Findable /\ Searching /\ FindsWhatIsKnown

\* At the start nothing is inserted and nothing is known.
LEMMA InvInit == Init => SearchInv
<1> SUFFICES ASSUME Init PROVE SearchInv
  OBVIOUS
<1>1. TypeInv
  BY TypeInit
<1>2. Marked /\ Own /\ Pending /\ AnswersTrue
  BY DEF Init, Marked, Own, Pending, AnswersTrue, Inserting
<1>3. Shared /\ Rewound /\ Findable /\ Searching /\ FindsWhatIsKnown
  BY DEF Init, Shared, Rewound, Findable, Searching, FindsWhatIsKnown
<1> QED BY <1>1, <1>2, <1>3 DEF InsertInv, SearchInv

\* Every step keeps an insert that no other overlaps alone with its file, and
\* its answer true: only inserts into the same table touch that file.
LEMMA InsertStep == InsertInv /\ [Next]_vars => InsertInv'
<1> SUFFICES ASSUME InsertInv, [Next]_vars PROVE InsertInv'
  OBVIOUS
<1> DEFINE Rest == Marked /\ Own /\ Pending /\ AnswersTrue
<1>0. TypeInv /\ TypeOK
  BY DEF InsertInv, TypeInv
<1>t. \A d \in Clients : row[d].table \in Tables
  BY <1>0 DEF TypeOK, Row
<1>a. TypeInv'
  BY TypeStep DEF InsertInv
<1>1. ASSUME Crash PROVE Rest'
  BY <1>1 DEF Crash, Marked, Own, Pending, AnswersTrue, Inserting
<1>2. ASSUME NEW c \in Clients, Create(c) PROVE Rest'
  <2>1. Marked' /\ Pending'
    BY <1>0, <1>2 DEF Create, store, history, InsertInv, Marked, Pending, Inserting, TypeInv, TypeOK
  <2>2. Own'
    BY <1>0, <1>2 DEF Create, store, history, InsertInv, Own, TypeInv, TypeOK
  <2>3. AnswersTrue'
    BY <1>0, <1>2 DEF Create, store, history, InsertInv, AnswersTrue, TypeInv, TypeOK
  <2> QED BY <2>1, <2>2, <2>3
<1>3. ASSUME NEW c \in Clients, Opened(c) PROVE Rest'
  <2>1. Marked' /\ Pending'
    BY <1>0, <1>3 DEF Opened, store, history, InsertInv, Marked, Pending, Inserting, TypeInv, TypeOK
  <2>2. Own'
    BY <1>0, <1>3 DEF Opened, store, history, InsertInv, Own, TypeInv, TypeOK
  <2>3. AnswersTrue'
    BY <1>0, <1>3 DEF Opened, store, history, InsertInv, AnswersTrue, TypeInv, TypeOK
  <2> QED BY <2>1, <2>2, <2>3
<1>4. ASSUME NEW c \in Clients, OpenFails(c) PROVE Rest'
  <2>1. Marked' /\ Pending'
    BY <1>0, <1>4 DEF OpenFails, store, history, InsertInv, Marked, Pending, Inserting, TypeInv, TypeOK
  <2>2. Own'
    BY <1>0, <1>4 DEF OpenFails, store, history, InsertInv, Own, TypeInv, TypeOK
  <2>3. AnswersTrue'
    BY <1>0, <1>4 DEF OpenFails, store, history, InsertInv, AnswersTrue, TypeInv, TypeOK
  <2> QED BY <2>1, <2>2, <2>3
<1>5. ASSUME NEW c \in Clients, CreateTable(c) PROVE Rest'
  <2>1. Marked' /\ Pending'
    BY <1>0, <1>5 DEF CreateTable, Idle, store, history, InsertInv, Marked, Pending, Inserting, TypeInv, TypeOK
  <2>2. Own'
    BY <1>0, <1>5 DEF CreateTable, Idle, store, history, InsertInv, Own, TypeInv, TypeOK
  <2>3. AnswersTrue'
    BY <1>0, <1>5 DEF CreateTable, Idle, store, history, InsertInv, AnswersTrue, TypeInv, TypeOK
  <2> QED BY <2>1, <2>2, <2>3
<1>6. ASSUME NEW c \in Clients, TableCreated(c) PROVE Rest'
  <2>a. \A d \in Clients : Inserting(d)' => Inserting(d) /\ pc'[d] = pc[d]
    BY <1>0, <1>6 DEF TableCreated, Inserting, TypeOK
  <2>1. Marked' /\ Pending'
    BY <1>6, <2>a DEF TableCreated, history, InsertInv, Marked, Pending
  <2>2. Own'
    BY <1>0, <1>6 DEF TableCreated, store, history, InsertInv, Own, TypeInv, TypeOK
  <2>3. AnswersTrue'
    BY <1>0, <1>6 DEF TableCreated, store, history, InsertInv, AnswersTrue, TypeInv, TypeOK
  <2> QED BY <2>1, <2>2, <2>3
<1>7. ASSUME NEW c \in Clients, NEW k \in Keys, Find(c, k) PROVE Rest'
  <2>1. Marked' /\ Pending'
    BY <1>0, <1>7 DEF Find, Idle, store, history, InsertInv, Marked, Pending, Inserting, TypeInv, TypeOK
  <2>2. Own'
    BY <1>0, <1>7 DEF Find, Idle, store, history, InsertInv, Own, TypeInv, TypeOK
  <2>3. AnswersTrue'
    BY <1>0, <1>7 DEF Find, Idle, store, history, InsertInv, AnswersTrue, TypeInv, TypeOK
  <2> QED BY <2>1, <2>2, <2>3
<1>8. ASSUME NEW c \in Clients, Queried(c) PROVE Rest'
  <2>1. Marked' /\ Pending'
    BY <1>0, <1>8, Order DEF Queried, store, history, InsertInv, Marked, Pending, Inserting, TypeInv, TypeOK
  <2>2. Own'
    BY <1>0, <1>8, Order DEF Queried, store, history, InsertInv, Own, TypeInv, TypeOK
  <2>3. AnswersTrue'
    <3>1. TableOrder[at[c]] \notin {"ok", "threw"}
      BY <1>0, Order DEF TypeOK, Tables
    <3> QED BY <1>0, <1>8, <3>1 DEF Queried, store, history, InsertInv, AnswersTrue, TypeInv, TypeOK
  <2> QED BY <2>1, <2>2, <2>3
<1>9. ASSUME NEW c \in Clients, NEW r \in Rows, Insert(c, r) PROVE Rest'
  <2>1. Marked' /\ Pending'
    BY <1>0, <1>9 DEF Insert, Idle, Overlapping, InsertInv, Marked, Pending, Inserting, TypeOK
  <2>2. Own'
    <3> SUFFICES ASSUME NEW d \in Clients \ clashed'
                 PROVE  /\ pc'[d] = "write" => d \in linked' /\ file'[row'[d].table] = Empty
                        /\ pc'[d] = "load" => file'[row'[d].table] = Holds(row'[d])
                        /\ pc'[d] = "unlink" =>
                             /\ file'[row'[d].table] = Holds(row'[d])
                             /\ row'[d] \in rows'[db'[d]] /\ row'[d].table \in tables'[db'[d]]
      BY DEF Own
    <3>1. CASE d = c
      BY <1>0, <1>9, <3>1, RowsAssumption DEF Insert, TypeOK, Row
    <3>2. CASE d # c
      <4>1. pc'[d] = pc[d] /\ row'[d] = row[d]
        BY <1>0, <1>9, <3>2 DEF Insert, TypeOK
      <4>2. d \notin clashed /\ (Inserting(d) => row[d].table # r.table)
        BY <1>9, <3>2 DEF Insert, Overlapping
      <4>3. Inserting(d) => file'[row[d].table] = file[row[d].table]
        BY <1>0, <1>9, <4>2 DEF Insert, TypeOK
      <4> QED BY <1>9, <4>1, <4>2, <4>3 DEF Insert, InsertInv, Own, Inserting
    <3> QED BY <3>1, <3>2
  <2>3. AnswersTrue'
    BY <1>0, <1>9 DEF Insert, Idle, Overlapping, InsertInv, AnswersTrue, TypeOK
  <2> QED BY <2>1, <2>2, <2>3
<1>10. ASSUME NEW c \in Clients, Written(c) PROVE Rest'
  <2>1. Marked' /\ Pending' /\ AnswersTrue'
    BY <1>0, <1>10 DEF Written, store, history, InsertInv, Marked, Pending, AnswersTrue, Inserting, TypeOK
  <2>2. Own'
    <3> SUFFICES ASSUME NEW d \in Clients \ clashed'
                 PROVE  /\ pc'[d] = "write" => d \in linked' /\ file'[row'[d].table] = Empty
                        /\ pc'[d] = "load" => file'[row'[d].table] = Holds(row'[d])
                        /\ pc'[d] = "unlink" =>
                             /\ file'[row'[d].table] = Holds(row'[d])
                             /\ row'[d] \in rows'[db'[d]] /\ row'[d].table \in tables'[db'[d]]
      BY DEF Own
    <3>1. CASE d = c
      BY <1>0, <1>10, <3>1 DEF Written, AfterWrite, store, history, InsertInv, Own, TypeOK, Row
    <3>2. CASE d # c
      <4>1. pc'[d] = pc[d] /\ row'[d] = row[d] /\ d \notin clashed
        BY <1>0, <1>10, <3>2 DEF Written, Throws, history, TypeOK
      <4>2. Inserting(d) => row[d].table # row[c].table
        BY <1>10, <3>2, <4>1 DEF Written, InsertInv, Marked, Inserting
      <4>3. Inserting(d) => file'[row[d].table] = file[row[d].table]
        BY <1>0, <1>t, <1>10, <4>2 DEF Written, TypeOK
      <4>4. Inserting(d) /\ d \in linked => d \in linked'
        BY <1>10, <3>2, <4>2 DEF Written
      <4> QED BY <1>10, <4>1, <4>3, <4>4 DEF Written, store, InsertInv, Own, Inserting
    <3> QED BY <3>1, <3>2
  <2> QED BY <2>1, <2>2
<1>11. ASSUME NEW c \in Clients, Load(c) PROVE Rest'
  <2>0. db[c] \in Databases
    BY <1>0, <1>11 DEF Load, TypeInv, TypeOK
  <2>1. Marked' /\ Pending'
    BY <1>0, <1>11 DEF Load, Throws, InsertInv, Marked, Pending, Inserting, TypeOK
  <2>2. Own'
    BY <1>0, <1>11, <2>0 DEF Load, CanLoad, Throws, InsertInv, Own, Holds, TypeInv, TypeOK
  <2>3. AnswersTrue'
    <3>1. answer[c] = "pending" /\ ~stored[c]
      BY <1>11 DEF Load, InsertInv, Pending, Inserting
    <3>2. \A d \in Clients : rows[db[d]] \subseteq rows'[db[d]] \/ answer[d] = "none"
      BY <1>0, <1>11, <2>0 DEF Load, TypeInv, TypeOK
    <3>3. \A d \in Clients \ {c} : answer'[d] = answer[d] /\ stored'[d] = stored[d]
      BY <1>0, <1>11 DEF Load, Throws, TypeOK
    <3>4. answer'[c] # "ok" /\ (answer'[c] = "threw" => ~stored'[c])
      BY <1>0, <1>11, <3>1 DEF Load, Throws, TypeOK
    <3> QED BY <1>11, <3>2, <3>3, <3>4 DEF Load, InsertInv, AnswersTrue
  <2> QED BY <2>1, <2>2, <2>3
<1>12. ASSUME NEW c \in Clients, Unlink(c) PROVE Rest'
  <2>1. Marked' /\ Pending'
    BY <1>0, <1>12 DEF Unlink, Throws, InsertInv, Marked, Pending, Inserting, TypeOK
  <2>2. Own'
    <3> SUFFICES ASSUME NEW d \in Clients \ clashed'
                 PROVE  /\ pc'[d] = "write" => d \in linked' /\ file'[row'[d].table] = Empty
                        /\ pc'[d] = "load" => file'[row'[d].table] = Holds(row'[d])
                        /\ pc'[d] = "unlink" =>
                             /\ file'[row'[d].table] = Holds(row'[d])
                             /\ row'[d] \in rows'[db'[d]] /\ row'[d].table \in tables'[db'[d]]
      BY DEF Own
    <3>1. CASE d = c
      BY <1>0, <1>12, <3>1 DEF Unlink, Throws, TypeOK
    <3>2. CASE d # c
      <4>1. pc'[d] = pc[d] /\ row'[d] = row[d] /\ d \notin clashed
        BY <1>0, <1>12, <3>2 DEF Unlink, Throws, history, TypeOK
      <4>2. Inserting(d) => row[d].table # row[c].table
        BY <1>12, <3>2, <4>1 DEF Unlink, InsertInv, Marked, Inserting
      <4>3. Inserting(d) => file'[row[d].table] = file[row[d].table]
        BY <1>0, <1>t, <1>12, <4>2 DEF Unlink, TypeOK
      <4>4. Inserting(d) /\ d \in linked => d \in linked'
        BY <1>12, <3>2, <4>2 DEF Unlink
      <4> QED BY <1>12, <4>1, <4>3, <4>4 DEF Unlink, store, InsertInv, Own, Inserting
    <3> QED BY <3>1, <3>2
  <2>3. AnswersTrue'
    <3>1. row[c] \in Row
      BY <1>0 DEF TypeOK
    <3>2. c \notin clashed => file[row[c].table] # Absent /\ row[c] \in rows[db[c]]
      BY <1>12, <3>1, Contents DEF Unlink, InsertInv, Own
    <3> QED BY <1>0, <1>12, <3>2 DEF Unlink, Throws, InsertInv, AnswersTrue, TypeOK
  <2> QED BY <2>1, <2>2, <2>3
<1>13. ASSUME UNCHANGED vars PROVE Rest'
  BY <1>13 DEF vars, store, history, InsertInv, Marked, Own, Pending, AnswersTrue, Inserting
<1> HIDE DEF Rest
<1>b. Rest'
  BY <1>1, <1>2, <1>3, <1>4, <1>5, <1>6, <1>7, <1>8, <1>9, <1>10, <1>11, <1>12,
     <1>13 DEF Next, Step
<1> QED BY <1>a, <1>b DEF Rest, InsertInv

\* insertData answers truthfully, whatever was left in the temporary file and
\* whoever else inserts, unless the insert overlaps one into the same table.
THEOREM InsertTellsTheTruth == Spec => []AnswersTrue
<1>1. Init => InsertInv
  BY InvInit DEF SearchInv
<1>2. InsertInv => AnswersTrue
  BY DEF InsertInv
<1> QED BY <1>1, <1>2, InsertStep, PTL DEF Spec

\* A handle is a handle of the database that all clients work on.
LEMMA HandleWhere ==
  ASSUME TypeInv, Shared, ~(memory /\ raced), NEW c \in Clients, db[c] # "none"
  PROVE  db[c] = Where
BY DEF Shared, Where, TypeInv, TypeOK

\* Nothing is ever taken out of a database while the process runs.
LEMMA Growth ==
  ASSUME TypeInv, [Next]_vars, ~Crash
  PROVE  \A d \in Databases : rows[d] \subseteq rows'[d] /\ tables[d] \subseteq tables'[d]
<1>1. ASSUME NEW c \in Clients, TableCreated(c)
      PROVE \A d \in Databases : rows[d] \subseteq rows'[d] /\ tables[d] \subseteq tables'[d]
  BY <1>1 DEF TableCreated, TypeInv, TypeOK
<1>2. ASSUME NEW c \in Clients, Load(c)
      PROVE \A d \in Databases : rows[d] \subseteq rows'[d] /\ tables[d] \subseteq tables'[d]
  BY <1>2 DEF Load, TypeInv, TypeOK
<1>3. ASSUME NEW c \in Clients, Step(c), ~TableCreated(c), ~Load(c)
      PROVE rows' = rows /\ tables' = tables
  BY <1>3 DEF Step, Create, Opened, OpenFails, CreateTable, Insert, Written, Unlink,
     Find, Queried, store
<1>4. CASE UNCHANGED vars
  BY <1>4 DEF vars, store
<1> QED BY <1>1, <1>2, <1>3, <1>4 DEF Next

\* create gives all clients one database: it opens one in memory only while there
\* is none, unless two calls of create overlap.
LEMMA SharedStep == TypeInv /\ Shared /\ [Next]_vars => Shared'
<1> SUFFICES ASSUME TypeInv, Shared, [Next]_vars PROVE Shared'
  OBVIOUS
<1>0. TypeOK
  BY DEF TypeInv
<1>1. CASE Crash
  BY <1>1 DEF Crash, Shared
<1>2. ASSUME NEW c \in Clients, Create(c) PROVE Shared'
  BY <1>0, <1>2 DEF Create, store, Shared, TypeOK
<1>3. ASSUME NEW c \in Clients, Opened(c) PROVE Shared'
  BY <1>0, <1>3 DEF Opened, Opens, history, Shared, TypeInv, TypeOK
<1>4. ASSUME NEW c \in Clients, OpenFails(c) PROVE Shared'
  BY <1>0, <1>4 DEF OpenFails, store, history, Shared, TypeOK
<1>5. ASSUME NEW c \in Clients, Step(c), ~Create(c), ~Opened(c), ~OpenFails(c)
      PROVE Shared'
  <2>1. UNCHANGED <<memory, instance, db, raced>>
    BY <1>5 DEF Step, CreateTable, TableCreated, Insert, Written, Load, Unlink, Find,
       Queried, store, history
  <2>2. \A d \in Clients : pc'[d] = "open" => pc[d] = "open"
    BY <1>0, <1>5 DEF Step, CreateTable, TableCreated, Insert, Written, Load, Unlink,
       Throws, Find, Queried, TypeOK
  <2> QED BY <2>1, <2>2 DEF Shared
<1>6. CASE UNCHANGED vars
  BY <1>6 DEF vars, store, history, Shared
<1> QED BY <1>1, <1>2, <1>3, <1>4, <1>5, <1>6 DEF Next

\* All clients of DuckDbNode.create work on one database, unless two calls with
\* ":memory:" overlap.
THEOREM OneDatabaseForAll == Spec => []OneDatabase
<1> DEFINE J == TypeInv /\ Shared
<1>1. Init => J
  BY InvInit DEF SearchInv, InsertInv
<1>2. J /\ [Next]_vars => J'
  BY TypeStep, SharedStep
<1>3. J => OneDatabase
  BY DEF Shared, OneDatabase, TypeInv, TypeOK
<1> QED BY <1>1, <1>2, <1>3, PTL DEF Spec

-----------------------------------------------------------------------------
\* Every loop over the tables ends by going back to the first.
LEMMA RewoundStep == TypeInv /\ Rewound /\ [Next]_vars => Rewound'
<1> SUFFICES ASSUME TypeInv, Rewound, [Next]_vars PROVE Rewound'
  OBVIOUS
<1>0. TypeOK
  BY DEF TypeInv
<1>1. CASE Crash
  BY <1>1 DEF Crash, Rewound
<1>2. ASSUME NEW c \in Clients, TableCreated(c) \/ Queried(c) PROVE Rewound'
  BY <1>0, <1>2 DEF TableCreated, Queried, Rewound, TypeOK
<1>3. ASSUME NEW c \in Clients, Step(c), ~TableCreated(c), ~Queried(c) PROVE Rewound'
  <2>1. at' = at
    BY <1>3 DEF Step, Create, Opened, OpenFails, CreateTable, Insert, Written, Load,
       Unlink, Find
  <2>2. \A d \in Clients : pc'[d] \notin {"tables", "find"} => pc[d] \notin {"tables", "find"}
    BY <1>0, <1>3 DEF Step, Create, Opened, OpenFails, CreateTable, Insert, Written,
       Load, Unlink, Throws, Find, Idle, TypeOK
  <2> QED BY <2>1, <2>2 DEF Rewound
<1>4. CASE UNCHANGED vars
  BY <1>4 DEF vars, Rewound
<1> QED BY <1>1, <1>2, <1>3, <1>4 DEF Next

\* Once two calls of create have overlapped, this is remembered until a restart.
LEMMA Remembered ==
  ASSUME [Next]_vars, ~Crash
  PROVE  memory' = memory /\ (raced => raced')
<1>1. memory' = memory
  BY DEF Next, Step, Create, Opened, OpenFails, CreateTable, TableCreated, Insert,
     Written, Load, Unlink, Find, Queried, vars
<1>2. raced => raced'
  BY DEF Next, Step, Create, Opened, OpenFails, CreateTable, TableCreated, Insert,
     Written, Load, Unlink, Find, Queried, history, vars
<1> QED BY <1>1, <1>2

\* The database that all clients work on stays the same once something is known.
LEMMA WhereStays ==
  ASSUME SearchInv, [Next]_vars, ~Crash, ~(memory' /\ raced'), known # {}
  PROVE  Where' = Where
<1>1. ~(memory /\ raced) /\ memory' = memory
  BY Remembered
<1>2. memory => instance # "none"
  BY <1>1, NamesAssumption DEF SearchInv, Findable, Where, Databases
<1>3. memory => instance' = instance
  BY <1>1, <1>2 DEF Next, Step, Create, Opened, OpenFails, CreateTable, TableCreated,
     Insert, Written, Load, Unlink, Find, Queried, store, vars, SearchInv, Shared
<1> QED BY <1>1, <1>3 DEF Where

\* What becomes known has been stored where all clients look for it.
LEMMA FindableStep == SearchInv /\ [Next]_vars => Findable'
<1> SUFFICES ASSUME SearchInv, [Next]_vars PROVE Findable'
  OBVIOUS
<1>0. TypeInv /\ TypeOK
  BY DEF SearchInv, InsertInv, TypeInv
<1>1. CASE Crash
  BY <1>0, <1>1 DEF Crash, SearchInv, Findable, Where, TypeOK, Databases
<1>2. CASE ~Crash
  <2> SUFFICES ASSUME ~(memory' /\ raced'), NEW r \in known'
               PROVE  /\ Where' \in Databases
                      /\ r \in rows'[Where'] /\ r.table \in tables'[Where']
    BY DEF Findable
  <2>1. ~(memory /\ raced) /\ memory' = memory
    BY <1>2, Remembered
  <2>2. CASE r \in known
    <3>1. Where' = Where
      BY <1>2, <2>2, WhereStays
    <3>2. Where \in Databases /\ r \in rows[Where] /\ r.table \in tables[Where]
      BY <2>1, <2>2 DEF SearchInv, Findable
    <3> QED BY <1>0, <1>2, <3>1, <3>2, Growth
  <2>3. CASE r \notin known
    <3>1. PICK c \in Clients : Unlink(c) /\ c \notin clashed /\ r = row[c]
      BY <1>2, <2>3 DEF Next, Step, Create, Opened, OpenFails, CreateTable,
         TableCreated, Insert, Written, Load, Unlink, Throws, Find, Queried, history,
         vars
    <3>2. db[c] # "none" /\ pc[c] = "unlink"
      BY <3>1 DEF Unlink, SearchInv, InsertInv, TypeInv
    <3>3. db[c] = Where /\ Where \in Databases
      <4>1. db[c] = Where
        BY <1>0, <2>1, <3>2, HandleWhere DEF SearchInv
      <4> QED BY <1>0, <3>2, <4>1 DEF TypeOK
    <3>4. r \in rows[db[c]] /\ r.table \in tables[db[c]]
      BY <3>1, <3>2 DEF SearchInv, InsertInv, Own
    <3>5. UNCHANGED <<memory, instance, rows, tables>>
      BY <3>1 DEF Unlink
    <3> QED BY <3>3, <3>4, <3>5 DEF Where
  <2> QED BY <2>2, <2>3
<1> QED BY <1>1, <1>2

\* A search that goes on has asked the tables before the next one in vain.
LEMMA SearchingStep == SearchInv /\ [Next]_vars => Searching'
<1> SUFFICES ASSUME SearchInv, [Next]_vars PROVE Searching'
  OBVIOUS
<1>0. TypeInv /\ TypeOK
  BY DEF SearchInv, InsertInv, TypeInv
<1>1. CASE Crash
  BY <1>1 DEF Crash, Searching
<1>2. CASE ~Crash
  <2> SUFFICES ASSUME ~(memory' /\ raced'),
                      NEW d \in Clients, pc'[d] = "find", NEW r \in since'[d]
               PROVE  /\ r \in rows'[db'[d]] /\ r.table \in tables'[db'[d]]
                      /\ \A j \in 1 .. 3 :
                           j < at'[d] /\ TableOrder[j] = r.table /\ HasSequence(r.table) =>
                             r.key # key'[d]
    BY DEF Searching
  <2>1. ~(memory /\ raced)
    BY <1>2, Remembered
  <2>2. CASE pc[d] = "find"
    <3>1. db'[d] = db[d] /\ since'[d] = since[d] /\ key'[d] = key[d]
      BY <1>0, <1>2, <2>2 DEF Next, Step, Create, Opened, OpenFails, CreateTable,
         TableCreated, Insert, Written, Load, Unlink, Find, Queried, Idle, store,
         history, vars, TypeOK
    <3>2. /\ r \in rows[db[d]] /\ r.table \in tables[db[d]]
          /\ \A j \in 1 .. 3 :
               j < at[d] /\ TableOrder[j] = r.table /\ HasSequence(r.table) =>
                 r.key # key[d]
      BY <2>1, <2>2, <3>1 DEF SearchInv, Searching
    <3>3. db[d] \in Databases
      BY <1>0, <2>2 DEF TypeInv, TypeOK
    <3>4. \/ at'[d] = at[d]
          \/ at'[d] = at[d] + 1 /\ ~Answers(d)
      BY <1>0, <1>2, <2>2 DEF Next, Step, Create, Opened, OpenFails, CreateTable,
         TableCreated, Insert, Written, Load, Unlink, Find, Queried, vars, TypeOK
    <3>5. ~Answers(d) /\ TableOrder[at[d]] = r.table /\ HasSequence(r.table) =>
            r.key # key[d]
      BY <3>2 DEF Answers
    <3>6. at[d] \in 1 .. 3
      BY <1>0, Order DEF TypeOK
    <3>7. \A j \in 1 .. 3 :
            j < at'[d] /\ TableOrder[j] = r.table /\ HasSequence(r.table) => r.key # key[d]
      <4>1. \A j \in 1 .. 3 : j < at[d] + 1 => j < at[d] \/ j = at[d]
        BY <3>6
      <4> QED BY <3>2, <3>4, <3>5, <4>1
    <3> QED BY <1>0, <1>2, <3>1, <3>2, <3>3, <3>7, Growth
  <2>3. CASE pc[d] # "find"
    <3>1. PICK k \in Keys : Find(d, k)
      BY <1>0, <1>2, <2>3 DEF Next, Step, Create, Opened, OpenFails, CreateTable,
         TableCreated, Insert, Written, Load, Unlink, Throws, Find, Queried, vars,
         TypeOK
    <3>2. db[d] # "none" /\ at'[d] = 1 /\ since'[d] = known
      BY <1>0, <3>1 DEF Find, Idle, SearchInv, Rewound, TypeOK
    <3>3. db[d] = Where
      BY <1>0, <2>1, <3>2, HandleWhere DEF SearchInv
    <3>4. r \in rows[db[d]] /\ r.table \in tables[db[d]]
      BY <2>1, <3>2, <3>3 DEF SearchInv, Findable
    <3> QED BY <3>1, <3>2, <3>4 DEF Find, store
  <2> QED BY <2>2, <2>3
<1> QED BY <1>1, <1>2

\* A search that ends with nothing has asked all three tables in vain.
LEMMA FindsStep == SearchInv /\ [Next]_vars => FindsWhatIsKnown'
<1> SUFFICES ASSUME SearchInv, [Next]_vars PROVE FindsWhatIsKnown'
  OBVIOUS
<1>0. TypeInv /\ TypeOK
  BY DEF SearchInv, InsertInv, TypeInv
<1>1. CASE Crash
  BY <1>1 DEF Crash, FindsWhatIsKnown
<1>2. CASE ~Crash
  <2> SUFFICES ASSUME NEW d \in Clients, answer'[d] = "nothing", ~(memory' /\ raced'),
                      NEW r \in since'[d], HasSequence(r.table)
               PROVE  r.key # key'[d]
    BY DEF FindsWhatIsKnown
  <2>1. ~(memory /\ raced)
    BY <1>2, Remembered
  <2>2. since'[d] = since[d] /\ key'[d] = key[d]
    BY <1>0, <1>2 DEF Next, Step, Create, Opened, OpenFails, CreateTable,
       TableCreated, Insert, Written, Load, Unlink, Find, Queried, history, vars, TypeOK
  <2>3. CASE answer[d] = "nothing"
    BY <2>1, <2>2, <2>3 DEF SearchInv, FindsWhatIsKnown
  <2>4. CASE answer[d] # "nothing"
    <3>a. TableOrder[at[d]] # "nothing"
      BY <1>0, Order DEF TypeOK, Tables
    <3>1. pc[d] = "find" /\ ~Answers(d) /\ ~(at[d] < Len(TableOrder))
      BY <1>0, <1>2, <2>4, <3>a DEF Next, Step, Create, Opened, OpenFails,
         CreateTable, TableCreated, Insert, Written, Load, Unlink, Throws, Find,
         Queried, vars, TypeOK
    <3>2. at[d] = 3
      BY <1>0, <3>1, Order DEF TypeOK
    <3>3. /\ r \in rows[db[d]] /\ r.table \in tables[db[d]]
          /\ \A j \in 1 .. 3 :
               j < at[d] /\ TableOrder[j] = r.table /\ HasSequence(r.table) =>
                 r.key # key[d]
      BY <2>1, <2>2, <3>1 DEF SearchInv, Searching
    <3>4. PICK j \in 1 .. 3 : TableOrder[j] = r.table
      <4>1. r.table \in Tables
        <5>1. db[d] \in Databases
          BY <1>0, <3>1 DEF TypeInv, TypeOK
        <5> QED BY <1>0, <3>3, <5>1 DEF TypeOK
      <4> QED BY <4>1, Order
    <3>5. CASE j < at[d]
      BY <2>2, <3>3, <3>4, <3>5
    <3>6. CASE j = at[d]
      BY <2>2, <3>1, <3>3, <3>4, <3>6 DEF Answers
    <3> QED BY <3>2, <3>5, <3>6
  <2> QED BY <2>3, <2>4
<1> QED BY <1>1, <1>2

\* findStateByPacketSequence misses nothing that was known when it began, whoever
\* inserts meanwhile, unless two calls of create with ":memory:" overlap.
THEOREM SearchMissesNothing == Spec => []FindsWhatIsKnown
<1>1. SearchInv /\ [Next]_vars => SearchInv'
  <2> SUFFICES ASSUME SearchInv, [Next]_vars PROVE SearchInv'
    OBVIOUS
  <2>1. InsertInv' /\ Shared' /\ Rewound'
    BY InsertStep, SharedStep, RewoundStep DEF SearchInv, InsertInv
  <2> QED BY <2>1, FindableStep, SearchingStep, FindsStep DEF SearchInv
<1>2. SearchInv => FindsWhatIsKnown
  BY DEF SearchInv
<1> QED BY <1>1, <1>2, InvInit, PTL DEF Spec

-----------------------------------------------------------------------------
\* An insert that no other overlaps finds its own row in the temporary file.
LEMMA RefusedStep ==
  ASSUME InsertInv, [Next]_vars, NEW c \in Clients \ clashed,
         pc[c] = "load", answer'[c] = "threw"
  PROVE  \/ row[c].table \notin tables[db[c]]
         \/ \E r \in rows[db[c]] : r.table = row[c].table /\ r.key = row[c].key
<1>0. TypeInv /\ TypeOK
  BY DEF InsertInv, TypeInv
<1>1. answer[c] = "pending"
  BY DEF InsertInv, Pending, Inserting
<1>2. Load(c)
  <2>1. ~Crash /\ ~UNCHANGED vars
    BY <1>1 DEF Crash, vars
  <2>2. ASSUME NEW d \in Clients, Step(d), ~Load(d) PROVE answer'[c] # "threw"
    <3>1. TableOrder[at[d]] # "threw"
      BY <1>0, Order DEF TypeOK, Tables
    <3> QED BY <1>0, <1>1, <2>2, <3>1 DEF Step, Create, Opened, OpenFails,
          CreateTable, TableCreated, Insert, Written, Unlink, Throws, Find, Queried,
          TypeOK
  <2>3. ASSUME NEW d \in Clients, Load(d) PROVE d = c
    BY <1>0, <1>1, <2>3 DEF Load, Throws, TypeOK
  <2> QED BY <2>1, <2>2, <2>3 DEF Next
<1>3. ~CanLoad(c)
  BY <1>1, <1>2 DEF Load
<1>4. file[row[c].table] = Holds(row[c])
  BY DEF InsertInv, Own
<1> QED BY <1>3, <1>4 DEF CanLoad, Holds

\* A row that insertData refuses was refused for its table or its primary key.
THEOREM RefusedForGoodReason == Spec => RefusedOnlyForTheRow
<1>1. Init => InsertInv
  BY InvInit DEF SearchInv
<1>2. InsertInv /\ [Next]_vars =>
        [\A c \in Clients \ clashed :
           pc[c] = "load" /\ answer'[c] = "threw" =>
             \/ row[c].table \notin tables[db[c]]
             \/ \E r \in rows[db[c]] : r.table = row[c].table /\ r.key = row[c].key]_vars
  BY RefusedStep
<1> QED BY <1>1, <1>2, InsertStep, PTL DEF Spec, RefusedOnlyForTheRow

\* Who leaves a temporary file behind has thrown or was cut off.
LEMMA CleansUpStep == TypeInv /\ CleansUp /\ [Next]_vars => CleansUp'
<1> SUFFICES ASSUME TypeInv, CleansUp, [Next]_vars PROVE CleansUp'
  OBVIOUS
<1>0. TypeOK
  BY DEF TypeInv
<1>t. \A c \in Clients : row[c].table \in Tables
  BY <1>0 DEF TypeOK, Row
<1>1. CASE Crash
  BY <1>1 DEF Crash, CleansUp
<1>2. ASSUME NEW c \in Clients, NEW r \in Rows, Insert(c, r) PROVE CleansUp'
  <2> SUFFICES ASSUME NEW t \in Tables, file'[t] # Absent, t \notin failed'
               PROVE  \E d \in Clients : Inserting(d)' /\ row'[d].table = t
    BY DEF CleansUp
  <2>1. CASE t = r.table
    BY <1>0, <1>2, <2>1 DEF Insert, Inserting, TypeOK
  <2>2. CASE t # r.table
    <3>1. PICK d \in Clients : Inserting(d) /\ row[d].table = t
      BY <1>0, <1>2, <2>2 DEF Insert, CleansUp, TypeOK
    <3>2. d # c
      BY <1>2, <3>1 DEF Insert, Idle, Inserting
    <3> QED BY <1>0, <1>2, <3>1, <3>2 DEF Insert, Inserting, TypeOK
  <2> QED BY <2>1, <2>2
<1>3. ASSUME NEW c \in Clients, Written(c) PROVE CleansUp'
  <2> SUFFICES ASSUME NEW t \in Tables, file'[t] # Absent, t \notin failed'
               PROVE  \E d \in Clients : Inserting(d)' /\ row'[d].table = t
    BY DEF CleansUp
  <2>1. \A d \in Clients : Inserting(d) => Inserting(d)' /\ row'[d] = row[d]
    BY <1>0, <1>3 DEF Written, Inserting, TypeOK
  <2>2. CASE t = row[c].table
    BY <1>3, <2>1, <2>2 DEF Written, Inserting
  <2>3. CASE t # row[c].table
    BY <1>0, <1>3, <2>1, <2>3 DEF Written, CleansUp, history, TypeOK
  <2> QED BY <2>2, <2>3
<1>4. ASSUME NEW c \in Clients, Load(c) PROVE CleansUp'
  <2> SUFFICES ASSUME NEW t \in Tables, file'[t] # Absent, t \notin failed'
               PROVE  \E d \in Clients : Inserting(d)' /\ row'[d].table = t
    BY DEF CleansUp
  <2>1. PICK d \in Clients : Inserting(d) /\ row[d].table = t
    BY <1>4 DEF Load, Throws, CleansUp
  <2> QED BY <1>0, <1>4, <2>1 DEF Load, Throws, Inserting, TypeOK
<1>5. ASSUME NEW c \in Clients, Unlink(c) PROVE CleansUp'
  <2> SUFFICES ASSUME NEW t \in Tables, file'[t] # Absent, t \notin failed'
               PROVE  \E d \in Clients : Inserting(d)' /\ row'[d].table = t
    BY DEF CleansUp
  <2>1. t # row[c].table /\ file[t] # Absent /\ t \notin failed
    BY <1>0, <1>t, <1>5 DEF Unlink, Throws, TypeOK
  <2>2. PICK d \in Clients : Inserting(d) /\ row[d].table = t
    BY <2>1 DEF CleansUp
  <2> QED BY <1>0, <1>5, <2>1, <2>2 DEF Unlink, Throws, Inserting, TypeOK
<1>6. ASSUME NEW c \in Clients, Step(c), ~Written(c), ~Load(c), ~Unlink(c),
             ~(\E r \in Rows : Insert(c, r))
      PROVE CleansUp'
  <2>1. UNCHANGED <<file, row, failed>>
    BY <1>6 DEF Step, Create, Opened, OpenFails, CreateTable, TableCreated, Find,
       Queried, store, history
  <2>2. \A d \in Clients : Inserting(d) => Inserting(d)'
    BY <1>0, <1>6 DEF Step, Create, Opened, OpenFails, CreateTable, TableCreated,
       Find, Queried, Idle, Inserting, TypeOK
  <2> QED BY <2>1, <2>2 DEF CleansUp
<1>7. CASE UNCHANGED vars
  BY <1>7 DEF vars, store, history, CleansUp, Inserting
<1> QED BY <1>1, <1>2, <1>3, <1>4, <1>5, <1>6, <1>7 DEF Next

\* insertData deletes its temporary file unless it throws or the process dies.
THEOREM LeavesNoFile == Spec => []CleansUp
<1> DEFINE J == TypeInv /\ CleansUp
<1>1. Init => J
  BY TypeInit DEF Init, CleansUp
<1>2. J /\ [Next]_vars => J'
  BY TypeStep, CleansUpStep
<1>3. J => CleansUp
  OBVIOUS
<1> QED BY <1>1, <1>2, <1>3, PTL DEF Spec
=============================================================================
