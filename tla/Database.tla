------------------------------ MODULE Database ------------------------------
(***************************************************************************)
(* mysdk/database/mysql: a DatabaseWorkerPool with the connections its     *)
(* callers use directly, its DBWorkerThreads with a pipe and a connection  *)
(* each, the MySQLConnections, which reopen a lost connection and send the *)
(* statement again, and the sessions the MySQL server holds for them.      *)
(*                                                                         *)
(* A statement that changes a row is the pair of its job and its number.   *)
(* The pipe is a queue of what was written and flushed (see YPipe); it has *)
(* one writer, the thread that owns the pool.                              *)
(***************************************************************************)
EXTENDS Integers, Sequences, FiniteSets

CONSTANTS
    Trans,        \* transactions, of two statements each
    Bind,         \* single statements
    Query,        \* statements that only read
    SyncConns, AsyncThreads,  \* sizes given to DatabaseWorkerPool::open
    MaxLost,      \* bound: connections lost
    MaxRefused    \* bound: statements the server refuses

ASSUME DatabaseAssumption ==
    /\ SyncConns \in Nat \ {0} /\ AsyncThreads \in Nat \ {0}
    /\ MaxLost \in Nat /\ MaxRefused \in Nat
    /\ "none" \notin Trans \cup Bind \cup Query

Job == Trans \cup Bind \cup Query
Used == ({"sync"} \X (0..(SyncConns - 1))) \cup ({"async"} \X (0..(AsyncThreads - 1)))

VARIABLES
    table,     \* the statements whose effect is in the database
    session,   \* connection -> the server's session: in a transaction, and
               \* what is not committed yet
    mysql,     \* connection -> mysql_: "open", "NULL"
    work,      \* connection -> the job under way and the SQL still to be sent
    pipe,      \* worker thread -> jobs pushed and not read
    worker,    \* worker thread -> "runs", "quit", "ended"
    pool,      \* nextAsyncThread_, nextSyncConn_, and the thread close() is at
    asked,     \* history: jobs given to the pool
    ended,      \* history: jobs that have run
    cut,       \* history: jobs during which the connection was lost
    slipped,   \* history: jobs whose changes were left without a transaction around them
    faults     \* connections lost, statements refused

dbVars == <<table, session, mysql, work, pipe, worker, pool, asked, ended, cut, slipped, faults>>

NotClosing == -1
NoWork == [job |-> "none", sql |-> <<>>]
NewSession == [inTrans |-> FALSE, changes |-> {}]

DatabaseInit ==
    /\ table = {}
    /\ session = [c \in Used |-> NewSession] /\ mysql = [c \in Used |-> "open"]
    /\ work = [c \in Used |-> NoWork]
    /\ pipe = [t \in 0..(AsyncThreads - 1) |-> <<>>]
    /\ worker = [t \in 0..(AsyncThreads - 1) |-> "runs"]
    /\ pool = [nextAsync |-> 0, nextSync |-> 0, closing |-> NotClosing]
    /\ asked = {} /\ ended = {} /\ cut = {} /\ slipped = {}
    /\ faults = [lost |-> 0, refused |-> 0]

-----------------------------------------------------------------------------
(* The MySQL server                                                         *)

Changes(s) == s.do = "change"

Sql(word) == [do |-> word]

\* What SQL does to a session, and what it adds to the table. A transaction
\* started inside another commits that one; outside, every change does.
SessionAfter(x, s) ==
    CASE s.do = "START TRANSACTION" -> [inTrans |-> TRUE, changes |-> {}]
      [] s.do \in {"COMMIT", "ROLLBACK"} -> NewSession
      [] s.do = "SELECT" -> x
      [] OTHER -> IF x.inTrans THEN [x EXCEPT !.changes = @ \cup {s}] ELSE x

Committed(x, s) ==
    CASE s.do \in {"START TRANSACTION", "COMMIT"} -> x.changes
      [] s.do \in {"ROLLBACK", "SELECT"} -> {}
      [] OTHER -> IF x.inTrans THEN {} ELSE {s}

-----------------------------------------------------------------------------
(* The jobs                                                                 *)

Change(j, n) == [do |-> "change", job |-> j, no |-> n]

Statements(j) == IF j \in Trans THEN <<Change(j, 1), Change(j, 2)>>
                 ELSE IF j \in Bind THEN <<Change(j, 1)>> ELSE <<Sql("SELECT")>>

\* MySQLConnection::executeTransaction.
ExecuteTransaction(j) ==
    <<Sql("START TRANSACTION")>> \o Statements(j) \o <<Sql("COMMIT")>>

\* DBWorkerThread::handleDBMsg and directCommitTransaction both begin and
\* commit around executeTransaction, which does so itself.
HandleDBMsg(j) ==
    IF j \in Trans
    THEN <<Sql("START TRANSACTION")>> \o ExecuteTransaction(j) \o <<Sql("COMMIT")>>
    ELSE Statements(j)

\* What is sent after a statement that failed: executeTransaction rolls back,
\* and its caller commits.
CarryOnAfterFailure(j, sql) == Tail(sql)

AfterFailure(j, sql) ==
    IF j \in Trans /\ Changes(Head(sql))
    THEN <<Sql("ROLLBACK"), Sql("COMMIT")>> ELSE Tail(sql)

Working(c) == work[c].job # "none"

Carry(c, sql) ==
    IF sql = <<>> THEN /\ work' = [work EXCEPT ![c] = NoWork]
                       /\ ended' = ended \cup {work[c].job}
    ELSE work' = [work EXCEPT ![c].sql = sql] /\ UNCHANGED ended

Executed(c) ==
    LET s == Head(work[c].sql)
    IN  table' = table \cup Committed(session[c], s)

\* The server does what it is told.
ExecuteOk(c) ==
    /\ Working(c) /\ mysql[c] = "open"
    /\ Executed(c)
    /\ session' = [session EXCEPT ![c] = SessionAfter(@, Head(work[c].sql))]
    /\ Carry(c, Tail(work[c].sql))
    /\ UNCHANGED <<mysql, pipe, worker, pool, asked, cut, slipped, faults>>

\* The refusals that leave the changes of a job without a transaction around them: of
\* the START TRANSACTION next to them, with none open, and of the ROLLBACK.
Slips(sql, x) ==
    \/ Head(sql) = Sql("START TRANSACTION") /\ Changes(sql[2]) /\ ~x.inTrans
    \/ Head(sql) = Sql("ROLLBACK") /\ x.inTrans

\* An error that is not a lost connection: execute returns false, which only
\* executeTransaction looks at, and only for what is between its START TRANSACTION and
\* its COMMIT. For a deadlock (1213) the server has rolled the transaction back.
ExecuteRefused(c) ==
    /\ Working(c) /\ mysql[c] = "open"
    /\ faults.refused < MaxRefused
    /\ faults' = [faults EXCEPT !.refused = @ + 1]
    /\ \E x \in {session[c]} \cup (IF session[c].inTrans THEN {NewSession} ELSE {}) :
          /\ session' = [session EXCEPT ![c] = x]
          /\ slipped' = IF Slips(work[c].sql, x) THEN slipped \cup {work[c].job} ELSE slipped
    /\ Carry(c, AfterFailure(work[c].job, work[c].sql))
    /\ UNCHANGED <<table, mysql, pipe, worker, pool, asked, cut>>

\* The connection is lost before or after the server has executed the
\* statement. handleMySQLErrno opens another: the same statement is sent
\* again, in a new session; or it cannot, and mysql_ stays NULL.
LoseConnection(c) ==
    /\ Working(c) /\ mysql[c] = "open"
    /\ faults.lost < MaxLost
    /\ faults' = [faults EXCEPT !.lost = @ + 1]
    /\ Executed(c) \/ UNCHANGED table
    /\ session' = [session EXCEPT ![c] = NewSession]
    /\ cut' = cut \cup {work[c].job}
    /\ \/ UNCHANGED <<mysql, work, ended>>
       \/ /\ mysql' = [mysql EXCEPT ![c] = "NULL"]
          /\ Carry(c, AfterFailure(work[c].job, work[c].sql))
    /\ UNCHANGED <<pipe, worker, pool, asked, slipped>>

\* With no handle everything is refused, and nothing opens one again.
ExecuteWithoutHandle(c) ==
    /\ Working(c) /\ mysql[c] = "NULL"
    /\ Carry(c, AfterFailure(work[c].job, work[c].sql))
    /\ cut' = cut \cup {work[c].job}
    /\ UNCHANGED <<table, session, mysql, pipe, worker, pool, asked, slipped, faults>>

-----------------------------------------------------------------------------
(* DatabaseWorkerPool                                                       *)

\* The counter is set back to the index it gave.
GetNext(next, size) == next % size

\* execute(MySQLBinds*) and commitTransaction.
Push(j) ==
    /\ pool.closing = NotClosing /\ j \in (Trans \cup Bind) \ asked
    /\ asked' = asked \cup {j}
    /\ LET t == GetNext(pool.nextAsync, AsyncThreads)
       IN  /\ pool' = [pool EXCEPT !.nextAsync = t]
           /\ pipe' = [pipe EXCEPT ![t] = Append(@, j)]
    /\ UNCHANGED <<table, session, mysql, work, worker, ended, cut, slipped, faults>>

\* The owner waits for what it executes directly, and for what it queries.
Waits == \E c \in Used : c[1] = "sync" /\ Working(c)

Direct(j) ==
    /\ pool.closing = NotClosing /\ j \in Job \ asked /\ ~Waits
    /\ asked' = asked \cup {j}
    /\ LET i == GetNext(pool.nextSync, SyncConns)
       IN  /\ pool' = [pool EXCEPT !.nextSync = i]
           /\ work' = [work EXCEPT ![<<"sync", i>>] = [job |-> j, sql |-> HandleDBMsg(j)]]
    /\ UNCHANGED <<table, session, mysql, pipe, worker, ended, cut, slipped, faults>>

\* DBWorkerThread::run: quit_ is tested after every message.
ReadMsg(t) ==
    /\ worker[t] = "runs" /\ ~Working(<<"async", t>>) /\ pipe[t] # <<>>
    /\ pipe' = [pipe EXCEPT ![t] = Tail(@)]
    /\ work' = [work EXCEPT ![<<"async", t>>] = [job |-> Head(pipe[t]),
                                                  sql |-> HandleDBMsg(Head(pipe[t]))]]
    /\ UNCHANGED <<table, session, mysql, worker, pool, asked, ended, cut, slipped, faults>>

EndWorker(t) ==
    /\ worker[t] = "quit" /\ ~Working(<<"async", t>>)
    /\ worker' = [worker EXCEPT ![t] = "ended"]
    /\ UNCHANGED <<table, session, mysql, work, pipe, pool, asked, ended, cut, slipped, faults>>

\* close(): the direct connections, then quit and join thread after thread,
\* then the connections of the threads. What a pipe still holds is gone.
BeginClose ==
    /\ pool.closing = NotClosing /\ ~Waits
    /\ pool' = [pool EXCEPT !.closing = 0]
    /\ worker' = [worker EXCEPT ![0] = "quit"]
    /\ UNCHANGED <<table, session, mysql, work, pipe, asked, ended, cut, slipped, faults>>

JoinWorker ==
    /\ pool.closing \in 0..(AsyncThreads - 1) /\ worker[pool.closing] = "ended"
    /\ pool' = [pool EXCEPT !.closing = @ + 1]
    /\ worker' = [t \in DOMAIN worker |-> IF t = pool.closing + 1 THEN "quit" ELSE worker[t]]
    /\ UNCHANGED <<table, session, mysql, work, pipe, asked, ended, cut, slipped, faults>>

DatabaseNext ==
    \/ \E j \in Job : Push(j) \/ Direct(j)
    \/ \E c \in Used : ExecuteOk(c) \/ ExecuteRefused(c) \/ LoseConnection(c)
                       \/ ExecuteWithoutHandle(c)
    \/ \E t \in DOMAIN worker : ReadMsg(t) \/ EndWorker(t)
    \/ BeginClose \/ JoinWorker

DatabaseSpec == DatabaseInit /\ [][DatabaseNext]_dbVars

-----------------------------------------------------------------------------
(* What must hold                                                           *)

Effects(j) == {s \in table : s.job = j}

\* A transaction that has run has changed all of its rows or none, or will, with the
\* next one of its connection, if both COMMITs were refused; on its own thread or
\* directly, whichever statement was refused: unless the connection was lost while it
\* ran, or the server refused to start the transaction or to roll it back. A
\* transaction under way shows nothing.
TransAtomic ==
    \A j \in Trans \ (cut \cup slipped) :
        /\ j \in ended => Cardinality(Effects(j)) \in {0, 2}
        /\ (\E c \in Used : work[c].job = j /\ Len(work[c].sql) > 2) => Effects(j) = {}
=============================================================================
