----------------------------- MODULE TableRows -----------------------------
(***************************************************************************)
(* A table that dbsrv takes apart (PBSql, and isParseTable of              *)
(* WorkerThread): the message of a set becomes one row of MySQL with a     *)
(* column for each field, and a get that redis cannot answer makes a       *)
(* message of that row again.                                              *)
(*                                                                         *)
(* One player's row. The statement is executed at once, since when it is   *)
(* executed is the subject of DBSrvStore. Values are numbers: a text that  *)
(* is 0 is empty, and a number with a fraction counts halves.              *)
(***************************************************************************)
EXTENDS Naturals, Sequences

CONSTANTS
    Column,     \* the fields of the message in the order of their numbers
    TypeOf,     \* Column -> its type
    ValuesOf    \* Column -> the values a client sets it to

VARIABLES
    cached,     \* what redis has of the table: a message, or Nil
    row,        \* what MySQL has: a column -> its value, or Nil
    saved,      \* the message of the last statement executed, or Nil
    heard       \* the last answer: its status and its message

rowVars == <<cached, row, saved, heard>>

Nil == [c \in {} |-> "nil"]          \* no field at all: nothing there
Columns == {Column[i] : i \in DOMAIN Column}

\* The messages of a set: the uid, and any of the other fields.
Message == UNION {[{"uid"} \cup cs -> UNION {ValuesOf[c] : c \in Columns}] :
                     cs \in SUBSET Columns}
Parsed == {m \in Message : \A c \in DOMAIN m : m[c] \in ValuesOf[c]}

\* What a column holds that a replace has not named.
Default == 0

-----------------------------------------------------------------------------
(* Writing                                                                  *)

\* buildReplaceSql: nothing, for a type that it does not know and for a text that
\* is escaped to no bytes, as that of an empty field is.
BuildReplaceSql(m) ==
    IF \E c \in DOMAIN m : \/ TypeOf[c] \in {"repeated", "enum"}
                           \/ TypeOf[c] \in {"string", "bytes", "message"} /\ m[c] = 0
    THEN Nil
    ELSE m

\* replace into: the columns it does not name are reset.
Replaced(stmt) == [c \in Columns |-> IF c \in DOMAIN stmt THEN stmt[c] ELSE Default]

\* onSet: redis takes the table as it is; what saveToMySql makes of it does not
\* change the answer.
SetTable(m) ==
    LET stmt == BuildReplaceSql(m) IN
    /\ cached' = m
    /\ IF stmt = Nil THEN UNCHANGED <<row, saved>>
                     ELSE row' = Replaced(stmt) /\ saved' = m
    /\ heard' = [status |-> "0", table |-> Nil]

-----------------------------------------------------------------------------
(* Reading                                                                  *)

\* The n-th mysql_fetch_row of a result: the uid is the key, there is one row.
FetchRow(n) == IF n = 1 THEN row ELSE Nil

\* atol stops at the point.
Converted(c, v) == IF TypeOf[c] \in {"float", "double"} THEN 2 * (v \div 2) ELSE v

\* select: a row is fetched for each field, and its column of that number is read.
Fetched == {i \in DOMAIN Column : FetchRow(i) # Nil}
Select == [c \in {Column[i] : i \in Fetched} |-> Converted(c, row[c])]
SelectFails == \E i \in Fetched : TypeOf[Column[i]] \in {"repeated", "enum", "bytes"}

\* loadFromMySql: no row is a message without fields.
LoadFromMySqlTable ==
    IF SelectFails THEN [status |-> "-2", table |-> Nil] ELSE [status |-> "3", table |-> Select]

\* onGet
GetTable ==
    /\ heard' = IF cached # Nil THEN [status |-> "2", table |-> cached] ELSE LoadFromMySqlTable
    /\ UNCHANGED <<cached, row, saved>>

RedisEvicts == cached' = Nil /\ UNCHANGED <<row, saved, heard>>

RowInit == cached = Nil /\ row = Nil /\ saved = Nil /\ heard = [status |-> "0", table |-> Nil]

RowNext == (\E m \in Parsed : SetTable(m)) \/ GetTable \/ RedisEvicts

RowSpec == RowInit /\ [][RowNext]_rowVars

-----------------------------------------------------------------------------
(* Properties                                                               *)

\* msg.proto:45 says of status 3 "从mysql拿到的数据" (the data that was got from
\* MySQL): a get that answers so tells every field that the last set to reach MySQL
\* gave. The code does not: it fetches another row for each field.
MySqlTellsTheTable ==
    heard.status = "3" =>
        \A c \in DOMAIN saved : c \in DOMAIN heard.table /\ heard.table[c] = saved[c]
=============================================================================
