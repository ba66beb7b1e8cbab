---------------------------- MODULE DBSrvStore ----------------------------
(***************************************************************************)
(* The storage half of dbsrv (src/game/dbsrv): the pool of worker threads  *)
(* that serve get, set and mget from redis and fall back on MySQL, the     *)
(* pool of writer threads that carry accepted sets to MySQL behind the     *)
(* reply, the log thread that takes the keys of writes MySQL refused,      *)
(* and the order in which main takes the three down.                       *)
(*                                                                         *)
(* A value is abstracted to the number of the redis SET that stored it, so *)
(* "newer" is "larger". redis and MySQL are outside the program; they may  *)
(* go down and come back or stay silent, which no call of theirs here      *)
(* bounds in time, and redis may lose a key.                               *)
(***************************************************************************)
EXTENDS Naturals, Sequences, FiniteSets

CONSTANTS
    NW,          \* number of worker threads (config workthreadnum)
    NT,          \* number of writer threads (config writethreadnum)
    Uid, Table,  \* a key of the store is a user's table
    ParseTable,  \* tables the config file lists under [parsetable]
    Conn,        \* whoever asks (identity of the asker, see DBSrv)
    ConId,       \* the numbers dbsrv knows its connections by
    Requests,    \* the requests clients may send
    MaxCmd,      \* bound: requests pushed
    MaxPing,     \* bound: firings of the 10 second ping timer
    MaxFault,    \* bound: outages, silences, evictions and refusals
    MaxCrash     \* bound: crashes

Worker == 0 .. NW - 1
Writer == 0 .. NT - 1
Key == Uid \X Table
Asked == [uid : Uid, name : Table]

\* What saveToMySql can make of the contents of a set: no statement (an empty
\* table, one that does not parse), one without anything to escape, or one that
\* is escaped with the handle.
Sql == {"none", "plain", "escaped"}
Request == [op : {"get", "set", "mget"}, uid : Uid, tables : Seq(Asked), sql : Sql]

ASSUME StoreAssumption ==
    /\ NW \in Nat \ {0}
    /\ NT \in Nat \ {0}
    /\ Uid # {} /\ Conn # {} /\ ConId # {}
    /\ ParseTable \subseteq Table
    /\ Requests \subseteq Request
    /\ MaxCmd \in Nat /\ MaxPing \in Nat /\ MaxFault \in Nat /\ MaxCrash \in Nat

VARIABLES
    \* main
    phase, stopAt, asked, bstart,
    \* worker pool and its threads
    nextThreadId, queue, pc, cmd, out, nextWriter, readis, wmysql,
    \* writer threads
    wqueue, wdone, tmysql,
    \* log thread: its queue, what it took for the recover file, has it returned
    logq, recover, ldone,
    \* outside the program: redis, MySQL, and which of them leaves what it was
    \* sent without an answer
    redis, redisUp, mysql, mysqlUp, silent,
    \* history: SETs executed by redis, OK replies, writes dispatched, writes
    \* MySQL executed for a writer, keys redis lost, workers whose last look into
    \* redis could not tell, and the lane a row's value came through
    clock, acked, accepted, applied, lost, missed, lane,
    \* use of the bounds
    ncmd, nping, nfault, ncrash

mainVars == <<phase, stopAt, asked, bstart>>
poolVars == <<nextThreadId, queue>>
jobVars == <<pc, cmd, out>>
linkVars == <<readis, wmysql, tmysql>>
writerVars == <<wqueue, wdone>>
logVars == <<logq, recover, ldone>>
redisVars == <<redis, redisUp, silent>>
mysqlVars == <<mysql, mysqlUp, lane>>
histVars == <<clock, acked, accepted, applied, lost, missed>>
boundVars == <<ncmd, nping, nfault, ncrash>>
vars == <<mainVars, poolVars, jobVars, nextWriter, linkVars, writerVars, logVars,
          redisVars, mysqlVars, histVars, boundVars>>

-----------------------------------------------------------------------------
(* Records *)

Version == [key : Key, ver : Nat]

\* What a queue of a worker holds. seen is history: the versions acknowledged
\* to anybody when the request arrived.
Stop == [Type |-> "STOP"]
PingMsg == [Type |-> "PING"]
Command(r, c, id) ==
    [Type |-> "CMD", op |-> r.op, uid |-> r.uid, tables |-> r.tables, sql |-> r.sql,
     conId |-> id, asker |-> c, seen |-> acked]

\* What a queue of a writer holds: a replace statement. by is history: the
\* worker that built it.
Statement(k, v, w) == [Type |-> "CMD", key |-> k, ver |-> v, by |-> w]

Idle == Command([op |-> "get", uid |-> CHOOSE u \in Uid : TRUE, tables |-> <<>>,
                 sql |-> "none"], CHOOSE c \in Conn : TRUE, CHOOSE i \in ConId : TRUE)

Keyed(p) == [key |-> p.key, ver |-> p.ver]
Statements(q) == {Keyed(q[i]) : i \in {j \in DOMAIN q : q[j].Type = "CMD"}}

-----------------------------------------------------------------------------
(* mysql/MySQLConnection: "open" is a handle with a live session, "stale"   *)
(* one whose server went away, "null" mysql_ == NULL. On a stale handle the *)
(* first statement fails with 2006, handleMySQLErrno closes the handle and  *)
(* opens a new one; when that fails mysql_ is NULL, mysql_errno(NULL) is 0, *)
(* the recursive call gives up, and no later call opens the handle again.   *)

AfterUse(h) == IF h = "stale" THEN (IF mysqlUp THEN "open" ELSE "null") ELSE h
Usable(h) == AfterUse(h) = "open"
Open == IF mysqlUp THEN "open" ELSE "null"
Stale(h) == IF h = "open" THEN "stale" ELSE h

(* cache/rcache: "null" is m_redisContext == NULL, "broken" a context whose *)
(* connection failed: every command on either answers NULL until Ping finds *)
(* out and reconnects.                                                      *)

ReConnect == IF redisUp THEN "ok" ELSE "null"

(* Neither has a time limit on an answer: whoever asks a silent server waits *)
(* until the server answers or goes away.                                    *)

RedisWaits(w) == readis[w] = "ok" /\ "redis" \in silent
MySqlWaits(h) == h # "null" /\ "mysql" \in silent

-----------------------------------------------------------------------------
Init ==
    /\ phase = "running" /\ stopAt = 0 /\ asked = FALSE /\ bstart = TRUE
    /\ nextThreadId = 0
    /\ queue = [w \in Worker |-> <<>>]
    /\ clock = 1 /\ acked = {} /\ accepted = {} /\ applied = {}
    /\ lost = {} /\ missed = [w \in Worker |-> FALSE]
    /\ pc = [w \in Worker |-> "take"]
    /\ cmd = [w \in Worker |-> Idle]
    /\ out = [w \in Worker |-> <<>>]
    /\ nextWriter = [w \in Worker |-> 0]
    /\ readis = [w \in Worker |-> "ok"]
    /\ wmysql = [w \in Worker |-> "open"]
    /\ wqueue = [t \in Writer |-> <<>>]
    /\ wdone = [t \in Writer |-> FALSE]
    /\ tmysql = [t \in Writer |-> "open"]
    /\ logq = <<>> /\ recover = {} /\ ldone = FALSE
    /\ redis = [k \in Key |-> 0] /\ redisUp = TRUE
    /\ mysql \in [Key -> {0, 1}] /\ mysqlUp = TRUE
    /\ silent = {}
    /\ lane = [k \in Key |-> <<0, 0>>]
    /\ ncmd = 0 /\ nping = 0 /\ nfault = 0 /\ ncrash = 0

-----------------------------------------------------------------------------
(* The loop thread *)

\* MUTANT of RoundRobin: one past the end.
RoundRobinPastEnd(i, n) == IF i + 1 > n THEN 0 ELSE i + 1

\* The next index of a round robin over n threads.
RoundRobin(i, n) == IF i + 1 >= n THEN 0 ELSE i + 1

\* DBSrv::onKaBuMessage and WorkThreadPool::push.
Push(r, c, id) ==
    /\ phase = "running"
    /\ ncmd < MaxCmd
    /\ nextThreadId' = RoundRobin(nextThreadId, NW)
    /\ queue' = [queue EXCEPT ![nextThreadId'] = Append(@, Command(r, c, id))]
    /\ ncmd' = ncmd + 1
    /\ UNCHANGED <<mainVars, jobVars, nextWriter, linkVars, writerVars, logVars,
                   redisVars, mysqlVars, histVars, nping, nfault, ncrash>>

\* DBSrv::ping: every 10 seconds, to every worker and every writer.
PingAll ==
    /\ phase = "running"
    /\ nping < MaxPing
    /\ queue' = [w \in Worker |-> Append(queue[w], PingMsg)]
    /\ wqueue' = [t \in Writer |-> Append(wqueue[t], PingMsg)]
    /\ nping' = nping + 1
    /\ UNCHANGED <<mainVars, nextThreadId, jobVars, nextWriter, linkVars, wdone,
                   logVars, redisVars, mysqlVars, histVars, ncmd, nfault, ncrash>>

-----------------------------------------------------------------------------
(* main after the loop: DBSrv::stop, WorkThreadPool::stop,                  *)
(* WriterThreadPool::stop, LogThread::stop                                  *)

\* MUTANT of StopOrder: the writers are taken down before the workers.
StopOrderWritersFirst == [running |-> "stopWriters", stopWriters |-> "stopWorkers",
                          stopWorkers |-> "stopLog", stopLog |-> "stopped"]

\* What main does after each phase.
StopOrder == [running |-> "stopWorkers", stopWorkers |-> "stopWriters",
              stopWriters |-> "stopLog", stopLog |-> "stopped"]

\* SIGTERM was seen by tickMe: the loop returns and main goes on to stop().
Quit ==
    /\ phase = "running"
    /\ phase' = StopOrder[phase]
    /\ stopAt' = 0 /\ asked' = FALSE
    /\ UNCHANGED <<bstart, poolVars, jobVars, nextWriter, linkVars, writerVars,
                   logVars, redisVars, mysqlVars, histVars, boundVars>>

\* The thread main was waiting for has ended; n threads are in its pool.
Joined(n) ==
    /\ asked
    /\ asked' = FALSE
    /\ IF stopAt + 1 < n THEN stopAt' = stopAt + 1 /\ phase' = phase
                         ELSE stopAt' = 0 /\ phase' = StopOrder[phase]
    /\ UNCHANGED <<bstart, poolVars, jobVars, nextWriter, linkVars, writerVars,
                   logVars, redisVars, mysqlVars, histVars, boundVars>>

\* WorkerThread::stop up to thread_.join().
StopWorker ==
    /\ phase = "stopWorkers" /\ ~asked
    /\ asked' = TRUE
    /\ queue' = [queue EXCEPT ![stopAt] = Append(@, Stop)]
    /\ UNCHANGED <<phase, stopAt, bstart, nextThreadId, jobVars, nextWriter, linkVars,
                   writerVars, logVars, redisVars, mysqlVars, histVars, boundVars>>

JoinWorker == phase = "stopWorkers" /\ pc[stopAt] = "done" /\ Joined(NW)

\* MUTANT of StopWriter: the STOP goes to the next writer of the round robin.
StopWriterMisrouted ==
    /\ phase = "stopWriters" /\ ~asked
    /\ asked' = TRUE
    /\ wqueue' = [wqueue EXCEPT ![RoundRobin(stopAt, NT)] = Append(@, Stop)]
    /\ UNCHANGED <<phase, stopAt, bstart, poolVars, jobVars, nextWriter, linkVars,
                   wdone, logVars, redisVars, mysqlVars, histVars, boundVars>>

\* WriterThread::stop up to thread_.join().
StopWriter ==
    /\ phase = "stopWriters" /\ ~asked
    /\ asked' = TRUE
    /\ wqueue' = [wqueue EXCEPT ![stopAt] = Append(@, Stop)]
    /\ UNCHANGED <<phase, stopAt, bstart, poolVars, jobVars, nextWriter, linkVars,
                   wdone, logVars, redisVars, mysqlVars, histVars, boundVars>>

JoinWriter == phase = "stopWriters" /\ wdone[stopAt] /\ Joined(NT)

\* LogThread::stop up to thread_.join().
StopLog ==
    /\ phase = "stopLog" /\ ~asked
    /\ asked' = TRUE
    /\ bstart' = FALSE
    /\ logq' = Append(logq, Stop)
    /\ UNCHANGED <<phase, stopAt, poolVars, jobVars, nextWriter, linkVars, writerVars,
                   recover, ldone, redisVars, mysqlVars, histVars, boundVars>>

JoinLog == phase = "stopLog" /\ ldone /\ Joined(1)

-----------------------------------------------------------------------------
(* A worker thread: WorkerThread::threadHandler and the handlers it calls   *)

\* queue_.take() of a command.
Take(w) ==
    /\ pc[w] = "take"
    /\ queue[w] # <<>> /\ Head(queue[w]).Type = "CMD"
    /\ queue' = [queue EXCEPT ![w] = Tail(@)]
    /\ cmd' = [cmd EXCEPT ![w] = Head(queue[w])]
    /\ out' = [out EXCEPT ![w] = <<>>]
    /\ pc' = [pc EXCEPT ![w] = "table"]
    /\ UNCHANGED <<mainVars, nextThreadId, nextWriter, linkVars, writerVars, logVars,
                   redisVars, mysqlVars, histVars, boundVars>>

\* PING: Cache::Ping reconnects a failed context; mysql_ping does not reopen.
TakePing(w) ==
    /\ pc[w] = "take"
    /\ queue[w] # <<>> /\ Head(queue[w]).Type = "PING"
    /\ ~RedisWaits(w) /\ ~MySqlWaits(wmysql[w])
    /\ queue' = [queue EXCEPT ![w] = Tail(@)]
    /\ readis' = [readis EXCEPT ![w] = IF @ = "ok" THEN @ ELSE ReConnect]
    /\ UNCHANGED <<mainVars, nextThreadId, jobVars, nextWriter, wmysql, tmysql,
                   writerVars, logVars, redisVars, mysqlVars, histVars, boundVars>>

\* STOP ends the thread; what is behind it in the queue stays there.
TakeStop(w) ==
    /\ pc[w] = "take"
    /\ queue[w] # <<>> /\ Head(queue[w]).Type = "STOP"
    /\ queue' = [queue EXCEPT ![w] = Tail(@)]
    /\ pc' = [pc EXCEPT ![w] = "done"]
    /\ UNCHANGED <<mainVars, nextThreadId, cmd, out, nextWriter, linkVars, writerVars,
                   logVars, redisVars, mysqlVars, histVars, boundVars>>

\* The table the handler's loop is at, and the key it uses for it: the uid of
\* the message, for mget too.
Table1(w) == cmd[w].tables[Len(out[w]) + 1]
KeyOf(w) == <<cmd[w].uid, Table1(w).name>>

\* The handler of op is about to ask redis for its next table.
AtRedis(w, ops) ==
    /\ pc[w] = "table"
    /\ cmd[w].op \in ops
    /\ Len(out[w]) < Len(cmd[w].tables)

\* The answer is of a worker that looked past a redis that could not tell.
LookedPast(w) == pc[w] = "mysql" /\ missed[w]

\* past is history.
Answer(w, status, ver) ==
    out' = [out EXCEPT ![w] = Append(@, [key |-> KeyOf(w), status |-> status, ver |-> ver,
                                         past |-> LookedPast(w)])]

\* saveToRedis answered OK; saveToMySql is next.
SaveToRedis(w) ==
    /\ AtRedis(w, {"set"})
    /\ readis[w] = "ok" /\ ~RedisWaits(w)
    /\ clock' = clock + 1
    /\ redis' = [redis EXCEPT ![KeyOf(w)] = clock']
    /\ Answer(w, "OK", clock')
    /\ lost' = lost \ {KeyOf(w)}
    /\ pc' = [pc EXCEPT ![w] = "mysql"]
    /\ UNCHANGED <<mainVars, poolVars, cmd, nextWriter, linkVars, writerVars, logVars,
                   redisUp, silent, mysqlVars, acked, accepted, applied, missed, boundVars>>

\* saveToRedis: redis answered with an error. MySQL is not asked for.
SaveToRedisRefused(w) ==
    /\ AtRedis(w, {"set"})
    /\ readis[w] = "ok" /\ ~RedisWaits(w)
    /\ nfault < MaxFault
    /\ nfault' = nfault + 1
    /\ Answer(w, "ERROR", 0)
    /\ UNCHANGED <<mainVars, poolVars, pc, cmd, nextWriter, linkVars, writerVars,
                   logVars, redisVars, mysqlVars, histVars, ncmd, nping, ncrash>>

\* saveToRedis: no answer.
SaveToRedisNoReply(w) ==
    /\ AtRedis(w, {"set"})
    /\ readis[w] # "ok"
    /\ Answer(w, "REDISERROR", 0)
    /\ UNCHANGED <<mainVars, poolVars, pc, cmd, nextWriter, linkVars, writerVars,
                   logVars, redisVars, mysqlVars, histVars, boundVars>>

\* The same, when redis executed the SET and the connection failed before the
\* answer came: the value is cached, the client told REDISERROR.
SaveToRedisReplyLost(w) ==
    /\ AtRedis(w, {"set"})
    /\ readis[w] = "ok"
    /\ nfault < MaxFault
    /\ nfault' = nfault + 1
    /\ clock' = clock + 1
    /\ redis' = [redis EXCEPT ![KeyOf(w)] = clock']
    /\ readis' = [readis EXCEPT ![w] = "broken"]
    /\ Answer(w, "REDISERROR", 0)
    /\ lost' = lost \ {KeyOf(w)}
    /\ UNCHANGED <<mainVars, poolVars, pc, cmd, nextWriter, wmysql, tmysql, writerVars,
                   logVars, redisUp, silent, mysqlVars, acked, accepted, applied, missed,
                   ncmd, nping, ncrash>>

\* saveToMySql has a statement for the contents of the set: escaping needs the
\* handle, and a table that is not parsed is always escaped.
HasStatement(w, k) ==
    \/ cmd[w].sql # "none" /\ wmysql[w] # "null"
    \/ cmd[w].sql = "plain" /\ k[2] \in ParseTable

\* saveToMySql builds the statement and dispatchWriterThread queues it with the
\* next writer of this worker's own round robin.
SaveToMySql(w) ==
    LET saved == out[w][Len(out[w])] IN
    /\ pc[w] = "mysql" /\ cmd[w].op = "set"
    /\ HasStatement(w, saved.key)
    /\ nextWriter' = [nextWriter EXCEPT ![w] = RoundRobin(@, NT)]
    /\ wqueue' = [wqueue EXCEPT ![nextWriter'[w]] =
                      Append(@, Statement(saved.key, saved.ver, w))]
    /\ accepted' = accepted \cup {Keyed(saved)}
    /\ pc' = [pc EXCEPT ![w] = "table"]
    /\ UNCHANGED <<mainVars, poolVars, cmd, out, linkVars, wdone, logVars, redisVars,
                   mysqlVars, clock, acked, applied, lost, missed, boundVars>>

\* saveToMySql returns false. onSet does not look at the result; the status
\* stays OK.
SaveToMySqlFails(w) ==
    /\ pc[w] = "mysql" /\ cmd[w].op = "set"
    /\ ~HasStatement(w, out[w][Len(out[w])].key)
    /\ pc' = [pc EXCEPT ![w] = "table"]
    /\ UNCHANGED <<mainVars, poolVars, cmd, out, nextWriter, linkVars, writerVars,
                   logVars, redisVars, mysqlVars, histVars, boundVars>>

\* MUTANT of LoadFromRedis: MySQL is asked although redis has the key.
LoadFromRedisSkipped(w) ==
    /\ AtRedis(w, {"get", "mget"})
    /\ pc' = [pc EXCEPT ![w] = "mysql"]
    /\ missed' = [missed EXCEPT ![w] = KeyOf(w) \in lost]
    /\ UNCHANGED <<mainVars, poolVars, cmd, out, nextWriter, linkVars, writerVars, logVars,
                   redisVars, mysqlVars, clock, acked, accepted, applied, lost, boundVars>>

\* loadFromRedis of get and mget: a value, no value, or no connection.
LoadFromRedis(w) ==
    /\ AtRedis(w, {"get", "mget"}) /\ ~RedisWaits(w)
    /\ IF readis[w] = "ok" /\ redis[KeyOf(w)] # 0
       THEN Answer(w, "redis", redis[KeyOf(w)]) /\ pc' = pc
       ELSE pc' = [pc EXCEPT ![w] = "mysql"] /\ out' = out
    /\ missed' = [missed EXCEPT ![w] = readis[w] # "ok" \/ KeyOf(w) \in lost]
    /\ UNCHANGED <<mainVars, poolVars, cmd, nextWriter, linkVars, writerVars, logVars,
                   redisVars, mysqlVars, clock, acked, accepted, applied, lost, boundVars>>

\* loadFromRedis when redis answers with an error: a reply that is not a string
\* is taken for no value.
LoadFromRedisRefused(w) ==
    /\ AtRedis(w, {"get", "mget"})
    /\ readis[w] = "ok" /\ ~RedisWaits(w)
    /\ nfault < MaxFault
    /\ nfault' = nfault + 1
    /\ pc' = [pc EXCEPT ![w] = "mysql"]
    /\ missed' = [missed EXCEPT ![w] = TRUE]
    /\ UNCHANGED <<mainVars, poolVars, cmd, out, nextWriter, linkVars, writerVars, logVars,
                   redisVars, mysqlVars, clock, acked, accepted, applied, lost,
                   ncmd, nping, ncrash>>

\* The status of a table MySQL gave no answer for: -2 from PBSql::select, else -3.
Failed(w) == IF Table1(w).name \in ParseTable /\ wmysql[w] # "null" THEN "-2" ELSE "-3"

\* loadFromMySql of get. A parsed table without a row is answered as if it had
\* one; an error of the query itself (not of the connection) costs a fault, and
\* so does a row that gives no message that can be serialized (-1).
LoadFromMySql(w) ==
    LET row == mysql[KeyOf(w)]
        parsed == Table1(w).name \in ParseTable IN
    /\ pc[w] = "mysql" /\ cmd[w].op = "get" /\ ~MySqlWaits(wmysql[w])
    /\ wmysql' = [wmysql EXCEPT ![w] = AfterUse(@)]
    /\ \/ /\ Usable(wmysql[w])
          /\ Answer(w, IF row = 0 /\ ~parsed THEN "none" ELSE "mysql", row)
          /\ UNCHANGED nfault
       \/ ~Usable(wmysql[w]) /\ Answer(w, Failed(w), 0) /\ UNCHANGED nfault
       \/ /\ Usable(wmysql[w])
          /\ nfault < MaxFault /\ nfault' = nfault + 1
          /\ \/ Answer(w, Failed(w), 0)
             \/ parsed /\ Answer(w, "-1", 0)
    /\ pc' = [pc EXCEPT ![w] = "table"]
    /\ UNCHANGED <<mainVars, poolVars, cmd, nextWriter, readis, tmysql, writerVars,
                   logVars, redisVars, mysqlVars, histVars, ncmd, nping, ncrash>>

\* loadFromMySql of mget looks at parsed tables only; anything else is empty, and
\* so is a table whose query fails or whose row cannot be serialized.
LoadFromMySqlM(w) ==
    LET parsed == Table1(w).name \in ParseTable IN
    /\ pc[w] = "mysql" /\ cmd[w].op = "mget"
    /\ parsed => ~MySqlWaits(wmysql[w])
    /\ wmysql' = IF parsed THEN [wmysql EXCEPT ![w] = AfterUse(@)] ELSE wmysql
    /\ \/ /\ IF parsed /\ Usable(wmysql[w]) THEN Answer(w, "mysql", mysql[KeyOf(w)])
                                           ELSE Answer(w, "empty", 0)
          /\ UNCHANGED nfault
       \/ /\ parsed /\ Usable(wmysql[w])
          /\ nfault < MaxFault /\ nfault' = nfault + 1
          /\ Answer(w, "empty", 0)
    /\ pc' = [pc EXCEPT ![w] = "table"]
    /\ UNCHANGED <<mainVars, poolVars, cmd, nextWriter, readis, tmysql, writerVars,
                   logVars, redisVars, mysqlVars, histVars, ncmd, nping, ncrash>>

\* PBSql::select of a type that cannot be created: MySQL is not asked.
LoadFromMySqlUntyped(w) ==
    /\ pc[w] = "mysql" /\ cmd[w].op \in {"get", "mget"}
    /\ Table1(w).name \in ParseTable
    /\ nfault < MaxFault
    /\ nfault' = nfault + 1
    /\ Answer(w, IF cmd[w].op = "get" THEN Failed(w) ELSE "empty", 0)
    /\ pc' = [pc EXCEPT ![w] = "table"]
    /\ UNCHANGED <<mainVars, poolVars, cmd, nextWriter, linkVars, writerVars, logVars,
                   redisVars, mysqlVars, histVars, ncmd, nping, ncrash>>

\* The loop over the tables is done: sendReply, and back to queue_.take().
\* The functor it queues in the event loop belongs to module DBSrv.
SendReply(w) ==
    /\ pc[w] = "table" /\ Len(out[w]) = Len(cmd[w].tables)
    /\ acked' = acked \cup {Keyed(out[w][i]) : i \in {j \in DOMAIN out[w] : out[w][j].status = "OK"}}
    /\ pc' = [pc EXCEPT ![w] = "take"]
    /\ UNCHANGED <<mainVars, poolVars, cmd, out, nextWriter, linkVars, writerVars,
                   logVars, redisVars, mysqlVars, clock, accepted, applied, lost, missed,
                   boundVars>>

WorkerStep(w) ==
    \/ Take(w) \/ TakePing(w) \/ TakeStop(w)
    \/ SaveToRedis(w) \/ SaveToRedisRefused(w) \/ SaveToRedisNoReply(w) \/ SaveToRedisReplyLost(w)
    \/ SaveToMySql(w) \/ SaveToMySqlFails(w)
    \/ LoadFromRedis(w) \/ LoadFromRedisRefused(w)
    \/ LoadFromMySql(w) \/ LoadFromMySqlM(w) \/ LoadFromMySqlUntyped(w)
    \/ SendReply(w)

-----------------------------------------------------------------------------
(* A writer thread: WriterThread::threadHandler and handler                 *)

AtWriter(t, type) == ~wdone[t] /\ wqueue[t] # <<>> /\ Head(wqueue[t]).Type = type

\* MySQL executes statement p of writer t.
Executed(p, t) ==
    /\ mysql' = [mysql EXCEPT ![p.key] = p.ver]
    /\ lane' = [lane EXCEPT ![p.key] = <<p.by, t>>]
    /\ applied' = applied \cup {Keyed(p)}

\* LOGEX_RAW of the key, when the log thread still takes lines.
RawLog(p) == logq' = IF bstart THEN Append(logq, p) ELSE logq

\* execute() returned true.
Execute(t) ==
    /\ AtWriter(t, "CMD") /\ ~MySqlWaits(tmysql[t])
    /\ Usable(tmysql[t])
    /\ wqueue' = [wqueue EXCEPT ![t] = Tail(@)]
    /\ tmysql' = [tmysql EXCEPT ![t] = AfterUse(@)]
    /\ Executed(Head(wqueue[t]), t)
    /\ UNCHANGED <<mainVars, poolVars, jobVars, nextWriter, readis, wmysql, wdone, logVars,
                   redisVars, mysqlUp, clock, acked, accepted, lost, missed, boundVars>>

\* MUTANT of ExecuteFails: the statement is dropped without a line in the log.
ExecuteFailsUnlogged(t) ==
    /\ AtWriter(t, "CMD") /\ ~MySqlWaits(tmysql[t])
    /\ ~Usable(tmysql[t])
    /\ wqueue' = [wqueue EXCEPT ![t] = Tail(@)]
    /\ tmysql' = [tmysql EXCEPT ![t] = AfterUse(@)]
    /\ UNCHANGED <<mainVars, poolVars, jobVars, nextWriter, readis, wmysql, wdone, logVars,
                   redisVars, mysqlVars, histVars, boundVars>>

\* execute() returned false for want of a session: log the key.
ExecuteFails(t) ==
    /\ AtWriter(t, "CMD") /\ ~MySqlWaits(tmysql[t])
    /\ ~Usable(tmysql[t])
    /\ wqueue' = [wqueue EXCEPT ![t] = Tail(@)]
    /\ tmysql' = [tmysql EXCEPT ![t] = AfterUse(@)]
    /\ RawLog(Head(wqueue[t]))
    /\ UNCHANGED <<mainVars, poolVars, jobVars, nextWriter, readis, wmysql, wdone, recover, ldone,
                   redisVars, mysqlVars, histVars, boundVars>>

\* MUTANT of ExecuteRefused: the statement goes back to the end of the queue.
ExecuteRefusedRetried(t) ==
    /\ AtWriter(t, "CMD") /\ ~MySqlWaits(tmysql[t])
    /\ Usable(tmysql[t])
    /\ nfault < MaxFault
    /\ nfault' = nfault + 1
    /\ wqueue' = [wqueue EXCEPT ![t] = Append(Tail(@), Head(@))]
    /\ UNCHANGED <<mainVars, poolVars, jobVars, nextWriter, linkVars, wdone, logVars,
                   redisVars, mysqlVars, histVars, ncmd, nping, ncrash>>

\* execute() returned false although there was a session: MySQL refused the
\* statement, or executed it and went away before it could say so.
ExecuteRefused(t) ==
    /\ AtWriter(t, "CMD") /\ ~MySqlWaits(tmysql[t])
    /\ Usable(tmysql[t])
    /\ nfault < MaxFault
    /\ nfault' = nfault + 1
    /\ wqueue' = [wqueue EXCEPT ![t] = Tail(@)]
    /\ RawLog(Head(wqueue[t]))
    /\ \/ /\ tmysql' = [tmysql EXCEPT ![t] = AfterUse(@)]
          /\ UNCHANGED <<mysql, lane, applied, mysqlUp, wmysql>>
       \/ /\ mysqlUp' = FALSE
          /\ tmysql' = [u \in Writer |-> IF u = t THEN "null" ELSE Stale(tmysql[u])]
          /\ wmysql' = [w \in Worker |-> Stale(wmysql[w])]
          /\ Executed(Head(wqueue[t]), t)
    /\ UNCHANGED <<mainVars, poolVars, jobVars, nextWriter, readis, wdone, recover, ldone,
                   redisVars, clock, acked, accepted, lost, missed, ncmd, nping, ncrash>>

\* PING: mysql_ping neither opens a NULL handle nor reopens a stale one.
WriterPing(t) ==
    /\ AtWriter(t, "PING") /\ ~MySqlWaits(tmysql[t])
    /\ wqueue' = [wqueue EXCEPT ![t] = Tail(@)]
    /\ UNCHANGED <<mainVars, poolVars, jobVars, nextWriter, linkVars, wdone, logVars,
                   redisVars, mysqlVars, histVars, boundVars>>

WriterStop(t) ==
    /\ AtWriter(t, "STOP")
    /\ wqueue' = [wqueue EXCEPT ![t] = Tail(@)]
    /\ wdone' = [wdone EXCEPT ![t] = TRUE]
    /\ UNCHANGED <<mainVars, poolVars, jobVars, nextWriter, linkVars, logVars, redisVars,
                   mysqlVars, histVars, boundVars>>

WriterStep(t) == Execute(t) \/ ExecuteFails(t) \/ ExecuteRefused(t) \/ WriterPing(t) \/ WriterStop(t)

-----------------------------------------------------------------------------
(* The log thread: LogThread::threadHandler, for lines of the recover file  *)

LogStep ==
    /\ ~ldone /\ logq # <<>>
    /\ logq' = Tail(logq)
    /\ IF Head(logq).Type = "STOP"
       THEN ldone' = TRUE /\ UNCHANGED recover
       ELSE recover' = recover \cup {Keyed(Head(logq))} /\ UNCHANGED ldone
    /\ UNCHANGED <<mainVars, poolVars, jobVars, nextWriter, linkVars, writerVars,
                   redisVars, mysqlVars, histVars, boundVars>>

-----------------------------------------------------------------------------
(* Outside the program                                                      *)

internalVars == <<mainVars, poolVars, jobVars, nextWriter, writerVars, logVars,
                  clock, acked, accepted, applied, ncmd, nping, ncrash>>

Fault == nfault < MaxFault /\ nfault' = nfault + 1

RedisDown ==
    /\ redisUp /\ Fault
    /\ redisUp' = FALSE
    /\ silent' = silent \ {"redis"}
    /\ readis' = [w \in Worker |-> IF readis[w] = "ok" THEN "broken" ELSE readis[w]]
    /\ UNCHANGED <<internalVars, lost, missed, wmysql, tmysql, redis, mysqlVars>>

RedisBack ==
    /\ ~redisUp
    /\ redisUp' = TRUE
    /\ UNCHANGED <<internalVars, lost, missed, linkVars, redis, silent, mysqlVars, nfault>>

RedisForgets(k) ==
    /\ redis[k] # 0 /\ Fault
    /\ redis' = [redis EXCEPT ![k] = 0]
    /\ lost' = lost \cup {k}
    /\ UNCHANGED <<internalVars, missed, linkVars, redisUp, silent, mysqlVars>>

MySqlDown ==
    /\ mysqlUp /\ Fault
    /\ mysqlUp' = FALSE
    /\ silent' = silent \ {"mysql"}
    /\ wmysql' = [w \in Worker |-> Stale(wmysql[w])]
    /\ tmysql' = [t \in Writer |-> Stale(tmysql[t])]
    /\ UNCHANGED <<internalVars, lost, missed, readis, redis, redisUp, mysql, lane>>

MySqlBack ==
    /\ ~mysqlUp
    /\ mysqlUp' = TRUE
    /\ UNCHANGED <<internalVars, lost, missed, linkVars, redisVars, mysql, lane, nfault>>

\* A server keeps its connections and stops answering (it hangs, or its host is
\* gone), and one that answers again.
Silence(s) ==
    /\ s \notin silent /\ Fault
    /\ (s = "redis" /\ redisUp) \/ (s = "mysql" /\ mysqlUp)
    /\ silent' = silent \cup {s}
    /\ UNCHANGED <<internalVars, lost, missed, linkVars, redis, redisUp, mysqlVars>>

Answers(s) ==
    /\ s \in silent
    /\ silent' = silent \ {s}
    /\ UNCHANGED <<internalVars, lost, missed, linkVars, redis, redisUp, mysqlVars, nfault>>

\* The process is killed and started again: what it held in memory is gone. It is
\* up again when its connections are, so nobody is silent then.
Crash ==
    /\ phase # "stopped"
    /\ ncrash < MaxCrash /\ ncrash' = ncrash + 1
    /\ phase' = "running" /\ stopAt' = 0 /\ asked' = FALSE /\ bstart' = TRUE
    /\ nextThreadId' = 0
    /\ queue' = [w \in Worker |-> <<>>]
    /\ pc' = [w \in Worker |-> "take"]
    /\ cmd' = [w \in Worker |-> Idle]
    /\ out' = [w \in Worker |-> <<>>]
    /\ nextWriter' = [w \in Worker |-> 0]
    /\ readis' = [w \in Worker |-> ReConnect]
    /\ wmysql' = [w \in Worker |-> Open]
    /\ tmysql' = [t \in Writer |-> Open]
    /\ wqueue' = [t \in Writer |-> <<>>]
    /\ wdone' = [t \in Writer |-> FALSE]
    /\ logq' = <<>> /\ ldone' = FALSE
    /\ accepted' = accepted \cap (applied \cup recover)
    /\ silent' = {}
    /\ UNCHANGED <<recover, redis, redisUp, mysqlVars, clock, acked, applied, lost, missed,
                   ncmd, nping, nfault>>

Environment ==
    \/ RedisDown \/ RedisBack \/ MySqlDown \/ MySqlBack
    \/ \E k \in Key : RedisForgets(k)
    \/ \E s \in {"redis", "mysql"} : Silence(s) \/ Answers(s)

-----------------------------------------------------------------------------
Main ==
    \/ Quit
    \/ StopWorker \/ JoinWorker \/ StopWriter \/ JoinWriter \/ StopLog \/ JoinLog

\* main has returned.
Terminated == phase = "stopped" /\ UNCHANGED vars

Next ==
    \/ \E r \in Requests, c \in Conn, id \in ConId : Push(r, c, id)
    \/ PingAll
    \/ Main
    \/ \E w \in Worker : WorkerStep(w)
    \/ \E t \in Writer : WriterStep(t)
    \/ LogStep
    \/ Environment
    \/ Crash
    \/ Terminated

Spec == Init /\ [][Next]_vars

\* A thread that can go on does, and so does main; the bounds and the outside
\* world owe nothing: a thread that waits for a silent server cannot go on.
Fairness ==
    /\ \A w \in Worker : WF_vars(WorkerStep(w))
    /\ \A t \in Writer : WF_vars(WriterStep(t))
    /\ WF_vars(LogStep)
    /\ WF_vars(StopWorker \/ JoinWorker \/ StopWriter \/ JoinWriter \/ StopLog \/ JoinLog)

FairSpec == Spec /\ Fairness

-----------------------------------------------------------------------------
(* Properties *)

WorkerMsg ==
    [Type : {"CMD"}, op : {"get", "set", "mget"}, uid : Uid, tables : Seq(Asked),
     sql : Sql, conId : ConId, asker : Conn, seen : SUBSET Version]
    \cup {Stop, PingMsg}
WriterMsg ==
    [Type : {"CMD"}, key : Key, ver : Nat, by : Worker] \cup {Stop, PingMsg}
Reply == [key : Key, status : {"OK", "ERROR", "REDISERROR", "redis", "mysql", "none",
                               "empty", "-1", "-2", "-3"}, ver : Nat, past : BOOLEAN]
Handle == {"open", "stale", "null"}

MainOK ==
    /\ phase \in {"running", "stopWorkers", "stopWriters", "stopLog", "stopped"}
    /\ stopAt \in Nat /\ asked \in BOOLEAN /\ bstart \in BOOLEAN
PoolOK == nextThreadId \in Worker /\ queue \in [Worker -> Seq(WorkerMsg)]
JobOK ==
    /\ pc \in [Worker -> {"take", "table", "mysql", "done"}]
    /\ cmd \in [Worker -> WorkerMsg \ {Stop, PingMsg}]
    /\ out \in [Worker -> Seq(Reply)]
LinkOK ==
    /\ readis \in [Worker -> {"ok", "broken", "null"}]
    /\ wmysql \in [Worker -> Handle]
    /\ tmysql \in [Writer -> Handle]
WriterOK == wqueue \in [Writer -> Seq(WriterMsg)] /\ wdone \in [Writer -> BOOLEAN]
LogOK ==
    logq \in Seq(WriterMsg \ {PingMsg}) /\ recover \subseteq Version /\ ldone \in BOOLEAN
RedisOK ==
    redis \in [Key -> Nat] /\ redisUp \in BOOLEAN /\ silent \subseteq {"redis", "mysql"}
MySqlOK == mysql \in [Key -> Nat] /\ mysqlUp \in BOOLEAN /\ lane \in [Key -> Nat \X Nat]
HistOK ==
    /\ clock \in Nat
    /\ acked \subseteq Version /\ accepted \subseteq Version /\ applied \subseteq Version
    /\ lost \subseteq Key /\ missed \in [Worker -> BOOLEAN]
BoundOK == ncmd \in Nat /\ nping \in Nat /\ nfault \in Nat /\ ncrash \in Nat

\* Every variable has its type.
TypeOK ==
    /\ MainOK /\ PoolOK /\ JobOK /\ LinkOK /\ WriterOK /\ LogOK
    /\ nextWriter \in [Worker -> Writer]
    /\ RedisOK /\ MySqlOK /\ HistOK /\ BoundOK

\* Statements that wait in a writer's queue, or for the recover file.
Pending == (UNION {Statements(wqueue[t]) : t \in Writer}) \cup Statements(logq)

\* When main has returned, every request that was pushed has been handled, and
\* every write that was handed to a writer has been executed by MySQL or has had
\* its key taken by the log thread as a line of the recover file (DBSrv.cc stop,
\* main.cc); what becomes of the line is in LogFiles.
GracefulStopDrains ==
    phase = "stopped" =>
        /\ \A w \in Worker : queue[w] = <<>> /\ pc[w] = "done"
        /\ accepted \subseteq applied \cup recover

\* A get or mget never answers with a value older than one whose OK was on its
\* way to a client before the request arrived, unless for this very answer the
\* worker had to look past redis: it had no connection, redis answered with an
\* error (loadFromRedis takes any reply that is not a string for no value), or
\* redis had lost the key and no set has brought it back. No crash, no MySQL
\* outage and no order of the threads makes the write-behind visible to readers.
NoStaleRead ==
    \A w \in Worker : \A i \in DOMAIN out[w] :
        LET a == out[w][i] IN
        (a.status \in {"redis", "mysql", "none"} /\ ~a.past)
            => \A e \in cmd[w].seen : e.key = a.key => e.ver <= a.ver

\* MySQL exchanges a value for an older one only when the two went through
\* different pairs of worker and writer thread: the order of two sets of one key
\* is lost between the threads, never inside one queue.
SameLaneInOrder ==
    [][\A k \in Key : mysql'[k] < mysql[k] => lane'[k] # lane[k]]_vars

\* Once the shutdown has begun it ends, through outages, lost answers and
\* refusals, or the process is killed first; only a server that stays silent for
\* ever, whose answer nothing here bounds in time (rcache.cc Connect limits the
\* connect only, MySQLConnection.cc nothing), can keep main in a join.
StopTerminates ==
    <>[](silent # {}) \/ (phase = "stopWorkers" ~> phase \in {"stopped", "running"})

\* The store keeps the promise of WriteBehind.
WB == INSTANCE WriteBehind WITH
    cache <- redis, db <- mysql, owed <- Pending, recorded <- recover,
    ended <- (phase = "stopped")
Promise == WB!Spec

=============================================================================
