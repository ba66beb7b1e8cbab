-------------------------- MODULE DBSrvStoreProofs --------------------------
(***************************************************************************)
(* Theorems about DBSrvStore, for any number of threads, keys, requests,   *)
(* outages and crashes.                                                    *)
(***************************************************************************)
EXTENDS DBSrvStore, SequenceTheorems, TLAPS

USE StoreAssumption DEF Worker, Writer

\* Where the handlers' loop over the tables is: a get or mget that has missed
\* in redis has a table left to answer, a set that goes to MySQL has answered
\* one. The handlers index both sequences without a test.
AtTable ==
    \A w \in Worker : pc[w] = "mysql" =>
        IF cmd[w].op = "set" THEN out[w] # <<>> ELSE Len(out[w]) < Len(cmd[w].tables)

TypeInv == TypeOK /\ AtTable

WorkerCmd == WorkerMsg \ {Stop, PingMsg}
WriterCmd == WriterMsg \ {Stop, PingMsg}


LEMMA Cmds ==
    /\ \A m \in WorkerMsg : m.Type = "CMD" <=> m \in WorkerCmd
    /\ \A m \in WriterMsg : m.Type = "CMD" <=> m \in WriterCmd
    /\ Stop \in WorkerMsg /\ Stop \in WriterMsg \ {PingMsg}
    /\ PingMsg \in WorkerMsg /\ PingMsg \in WriterMsg
    /\ Stop.Type = "STOP" /\ PingMsg.Type = "PING"
    /\ WriterCmd \subseteq WriterMsg \ {PingMsg}
BY DEF WorkerMsg, WriterMsg, WorkerCmd, WriterCmd, Stop, PingMsg

LEMMA CmdFields ==
    /\ \A m \in WorkerCmd : m.uid \in Uid /\ m.tables \in Seq(Asked) /\ m.seen \subseteq Version
    /\ \A m \in WriterCmd : m.key \in Key /\ m.ver \in Nat /\ m.by \in Worker
                            /\ Keyed(m) \in Version
    /\ \A k \in Key, v \in Nat, w \in Worker : Statement(k, v, w) \in WriterCmd
BY DEF WorkerMsg, WriterMsg, WorkerCmd, WriterCmd, Stop, PingMsg, Keyed, Version, Statement

LEMMA CommandTyped ==
    ASSUME NEW r \in Request, NEW c \in Conn, NEW id \in ConId, HistOK
    PROVE  Command(r, c, id) \in WorkerCmd
BY DEF Command, WorkerMsg, WorkerCmd, Stop, PingMsg, Request, HistOK

LEMMA IdleTyped == HistOK => Idle \in WorkerCmd
<1> SUFFICES ASSUME HistOK PROVE Idle \in WorkerCmd
  OBVIOUS
<1>1. [op |-> "get", uid |-> CHOOSE u \in Uid : TRUE, tables |-> <<>>, sql |-> "none"] \in Request
  BY DEF Request, Sql
<1> QED
  BY <1>1, CommandTyped DEF Idle

LEMMA RoundRobinTyped ==
    ASSUME NEW n \in Nat \ {0}, NEW i \in 0 .. n - 1
    PROVE  RoundRobin(i, n) \in 0 .. n - 1
BY DEF RoundRobin

\* A queue keeps its type when something of the type is put into it, and when
\* its head is taken.
LEMMA QueueTyped ==
    /\ \A T : \A q \in Seq(T), m \in T : Append(q, m) \in Seq(T)
    /\ \A T : \A q \in Seq(T) : q # <<>> => Head(q) \in T /\ Tail(q) \in Seq(T)
OBVIOUS

LEMMA StopOrderTyped ==
    \A p \in {"running", "stopWorkers", "stopWriters", "stopLog"} :
        StopOrder[p] \in {"stopWorkers", "stopWriters", "stopLog", "stopped"}
BY DEF StopOrder

\* main steps over a thread that has ended.
LEMMA JoinedTyped ==
    ASSUME MainOK, NEW n \in Nat, Joined(n), phase # "stopped"
    PROVE  MainOK'
<1>1. asked' \in BOOLEAN
  BY DEF Joined
<1>2. bstart' \in BOOLEAN
  BY DEF Joined, MainOK
<1>3. phase' \in {"running", "stopWorkers", "stopWriters", "stopLog", "stopped"} /\ stopAt' \in Nat
  <2>1. CASE stopAt + 1 < n
    BY <2>1 DEF Joined, MainOK
  <2>2. CASE ~(stopAt + 1 < n)
    BY <2>2, StopOrderTyped DEF Joined, MainOK
  <2> QED
    BY <2>1, <2>2
<1> QED
  BY <1>1, <1>2, <1>3 DEF MainOK

LEMMA ReplyTyped == \A r \in Reply : Keyed(r) \in Version
BY DEF Reply, Keyed, Version

\* What a step leaves alone keeps its type.
LEMMA Frame ==
    /\ mainVars' = mainVars /\ MainOK => MainOK'
    /\ poolVars' = poolVars /\ PoolOK => PoolOK'
    /\ jobVars' = jobVars /\ JobOK => JobOK'
    /\ jobVars' = jobVars /\ AtTable => AtTable'
    /\ linkVars' = linkVars /\ LinkOK => LinkOK'
    /\ writerVars' = writerVars /\ WriterOK => WriterOK'
    /\ logVars' = logVars /\ LogOK => LogOK'
    /\ redisVars' = redisVars /\ RedisOK => RedisOK'
    /\ mysqlVars' = mysqlVars /\ MySqlOK => MySqlOK'
    /\ histVars' = histVars /\ HistOK => HistOK'
    /\ boundVars' = boundVars /\ BoundOK => BoundOK'
BY DEF mainVars, poolVars, jobVars, linkVars, writerVars, logVars, redisVars, mysqlVars,
       histVars, boundVars, MainOK, PoolOK, JobOK, AtTable, LinkOK, WriterOK, LogOK, RedisOK,
       MySqlOK, HistOK, BoundOK

\* A handler that is at a table uses one of the store's keys for it.
LEMMA KeyOfTyped ==
    ASSUME JobOK, NEW w \in Worker, Len(out[w]) < Len(cmd[w].tables)
    PROVE  KeyOf(w) \in Key
<1>1. cmd[w] \in WorkerCmd
  BY DEF JobOK, WorkerCmd
<1>2. cmd[w].tables \in Seq(Asked) /\ cmd[w].uid \in Uid
  BY <1>1, CmdFields
<1>3. Len(out[w]) + 1 \in 1 .. Len(cmd[w].tables)
  BY <1>2 DEF JobOK
<1>4. Table1(w) \in Asked
  BY <1>2, <1>3 DEF Table1
<1> QED
  BY <1>2, <1>4 DEF KeyOf, Key, Asked

\* An answer for the table a handler is at.
LEMMA AnswerTyped ==
    ASSUME JobOK, NEW w \in Worker, Len(out[w]) < Len(cmd[w].tables),
           NEW s \in {"OK", "ERROR", "REDISERROR", "redis", "mysql", "none", "empty", "-1", "-2", "-3"},
           NEW v \in Nat, Answer(w, s, v)
    PROVE  /\ out' \in [Worker -> Seq(Reply)]
           /\ out'[w] # <<>>
           /\ out'[w] = Append(out[w], [key |-> KeyOf(w), status |-> s, ver |-> v,
                                              past |-> LookedPast(w)])
           /\ \A x \in Worker : x # w => out'[x] = out[x]
<1>1. [key |-> KeyOf(w), status |-> s, ver |-> v, past |-> LookedPast(w)] \in Reply
  <2>1. LookedPast(w) \in BOOLEAN
    BY DEF LookedPast
  <2> QED
    BY <2>1, KeyOfTyped DEF Reply
<1>2. out \in [Worker -> Seq(Reply)]
  BY DEF JobOK
<1>3. \A r \in Reply : Append(out[w], r) \in Seq(Reply) /\ Append(out[w], r) # <<>>
  <2>1. out[w] \in Seq(Reply)
    BY <1>2
  <2>2. \A r \in Reply : Append(out[w], r) \in Seq(Reply)
    BY <2>1
  <2>3. \A r \in Reply : Len(Append(out[w], r)) = Len(out[w]) + 1 /\ Len(out[w]) \in Nat
    BY <2>1
  <2> QED
    BY <2>2, <2>3
<1>4. out' = [out EXCEPT ![w] = Append(out[w], [key |-> KeyOf(w), status |-> s, ver |-> v,
                                                past |-> LookedPast(w)])]
  BY DEF Answer
<1> QED
  BY <1>1, <1>2, <1>3, <1>4

LEMMA HandleTyped == \A h \in Handle : AfterUse(h) \in Handle /\ Stale(h) \in Handle /\ Open \in Handle
BY DEF Handle, AfterUse, Stale, Open

\* The initial state has its types.
LEMMA InitTyped == Init => TypeInv
<1> SUFFICES ASSUME Init PROVE TypeInv
  OBVIOUS
<1>1. MainOK /\ LinkOK /\ RedisOK /\ HistOK /\ BoundOK
  BY DEF Init, MainOK, LinkOK, RedisOK, HistOK, BoundOK, Handle
<1>4. WriterOK
  BY DEF Init, WriterOK
<1>5. LogOK
  <2>1. logq = <<>> /\ recover = {} /\ ldone = FALSE
    BY DEF Init
  <2>2. <<>> \in Seq(WriterMsg \ {PingMsg})
    OBVIOUS
  <2> QED
    BY <2>1, <2>2 DEF LogOK
<1>6. MySqlOK
  <2>1. mysql \in [Key -> Nat]
    <3>1. mysql \in [Key -> {0, 1}]
      BY DEF Init
    <3> QED
      BY <3>1
  <2>2. lane \in [Key -> Nat \X Nat]
    BY DEF Init
  <2> QED
    BY <2>1, <2>2 DEF Init, MySqlOK
<1>2. PoolOK /\ nextWriter \in [Worker -> Writer]
  BY DEF Init, PoolOK
<1>3. JobOK /\ AtTable
  BY <1>1, IdleTyped DEF Init, JobOK, AtTable, WorkerCmd
<1> QED
  BY <1>1, <1>2, <1>3, <1>4, <1>5, <1>6 DEF TypeInv, TypeOK

\* Every step keeps them.
LEMMA StepTyped == TypeInv /\ [Next]_vars => TypeInv'
<1> SUFFICES ASSUME TypeInv, [Next]_vars PROVE TypeInv'
  OBVIOUS
<1> USE Frame DEF TypeInv, TypeOK
<1>1. ASSUME NEW r \in Requests, NEW c \in Conn, NEW id \in ConId, Push(r, c, id) PROVE TypeInv'
  <2>1. Command(r, c, id) \in WorkerMsg
    BY <1>1, CommandTyped DEF WorkerCmd
  <2>2. PoolOK'
    BY SMTT(30), <1>1, <2>1, CommandTyped, RoundRobinTyped DEF Push, PoolOK, WorkerCmd
  <2>3. BoundOK'
    BY <1>1 DEF Push, BoundOK
  <2> QED
    BY <1>1, <2>1, <2>2, <2>3 DEF Push
<1>2. ASSUME PingAll PROVE TypeInv'
  <2>1. PoolOK'
    BY <1>2, Cmds DEF PingAll, PoolOK
  <2>2. WriterOK'
    BY SMTT(30), <1>2, Cmds DEF PingAll, WriterOK, writerVars
  <2>3. BoundOK'
    BY <1>2 DEF PingAll, BoundOK
  <2> QED
    BY <1>2, <2>1, <2>2, <2>3 DEF PingAll
<1>3. ASSUME Quit PROVE TypeInv'
  <2>1. MainOK'
    BY <1>3 DEF Quit, MainOK, StopOrder
  <2> QED
    BY <1>3, <2>1 DEF Quit
<1>4. ASSUME StopWorker PROVE TypeInv'
  <2>1. MainOK'
    BY <1>4 DEF StopWorker, MainOK
  <2>2. PoolOK'
    <3>1. stopAt \in Worker => Append(queue[stopAt], Stop) \in Seq(WorkerMsg)
      BY Cmds, QueueTyped DEF PoolOK
    <3>2. queue' = [queue EXCEPT ![stopAt] = Append(queue[stopAt], Stop)]
      BY <1>4 DEF StopWorker
    <3>3. queue' \in [Worker -> Seq(WorkerMsg)]
      BY <3>1, <3>2 DEF PoolOK
    <3> QED
      BY <1>4, <3>3 DEF StopWorker, PoolOK
  <2> QED
    BY <1>4, <2>1, <2>2 DEF StopWorker
<1>5. ASSUME JoinWorker PROVE TypeInv'
  <2>1. MainOK'
    BY <1>5, JoinedTyped DEF JoinWorker
  <2> QED
    BY <1>5, <2>1 DEF JoinWorker, Joined
<1>6. ASSUME StopWriter PROVE TypeInv'
  <2>1. MainOK'
    BY <1>6 DEF StopWriter, MainOK
  <2>2. WriterOK'
    <3>1. stopAt \in Writer => Append(wqueue[stopAt], Stop) \in Seq(WriterMsg)
      BY Cmds, QueueTyped DEF WriterOK
    <3>2. wqueue' = [wqueue EXCEPT ![stopAt] = Append(wqueue[stopAt], Stop)]
      BY <1>6 DEF StopWriter
    <3>3. wqueue' \in [Writer -> Seq(WriterMsg)]
      BY <3>1, <3>2 DEF WriterOK
    <3> QED
      BY <1>6, <3>3 DEF StopWriter, WriterOK
  <2> QED
    BY <1>6, <2>1, <2>2 DEF StopWriter
<1>7. ASSUME JoinWriter PROVE TypeInv'
  <2>1. MainOK'
    BY <1>7, JoinedTyped DEF JoinWriter
  <2> QED
    BY <1>7, <2>1 DEF JoinWriter, Joined
<1>8. ASSUME StopLog PROVE TypeInv'
  <2>1. MainOK'
    BY <1>8 DEF StopLog, MainOK
  <2>2. LogOK'
    BY <1>8, Cmds DEF StopLog, LogOK
  <2> QED
    BY <1>8, <2>1, <2>2 DEF StopLog
<1>9. ASSUME JoinLog PROVE TypeInv'
  <2>1. MainOK'
    BY <1>9, JoinedTyped DEF JoinLog
  <2> QED
    BY <1>9, <2>1 DEF JoinLog, Joined
<1>10. ASSUME NEW w \in Worker, Take(w) PROVE TypeInv'
  <2>1. queue[w] \in Seq(WorkerMsg) /\ queue[w] # <<>> /\ Head(queue[w]) \in WorkerMsg
    BY <1>10 DEF Take, PoolOK
  <2>2. PoolOK'
    BY <1>10, <2>1 DEF Take, PoolOK
  <2>3. JobOK' /\ AtTable'
    <3>1. Head(queue[w]) \in WorkerCmd
      BY <1>10, <2>1, Cmds DEF Take
    <3> QED
      BY SMTT(30), <1>10, <3>1 DEF Take, JobOK, AtTable, WorkerCmd
  <2> QED
    BY <1>10, <2>1, <2>2, <2>3 DEF Take
<1>11. ASSUME NEW w \in Worker, TakePing(w) PROVE TypeInv'
  <2>1. queue[w] \in Seq(WorkerMsg) /\ queue[w] # <<>> /\ Head(queue[w]) \in WorkerMsg
    BY <1>11 DEF TakePing, PoolOK
  <2>2. PoolOK'
    BY <1>11, <2>1 DEF TakePing, PoolOK
  <2>3. LinkOK'
    BY <1>11 DEF TakePing, LinkOK, ReConnect
  <2> QED
    BY <1>11, <2>1, <2>2, <2>3 DEF TakePing
<1>12. ASSUME NEW w \in Worker, TakeStop(w) PROVE TypeInv'
  <2>1. queue[w] \in Seq(WorkerMsg) /\ queue[w] # <<>> /\ Head(queue[w]) \in WorkerMsg
    BY <1>12 DEF TakeStop, PoolOK
  <2>2. PoolOK'
    BY <1>12, <2>1 DEF TakeStop, PoolOK
  <2>3. JobOK' /\ AtTable'
    BY <1>12 DEF TakeStop, JobOK, AtTable
  <2> QED
    BY <1>12, <2>1, <2>2, <2>3 DEF TakeStop
<1>13. ASSUME NEW w \in Worker, SaveToRedis(w) PROVE TypeInv'
  <2>1. Len(out[w]) < Len(cmd[w].tables)
    BY <1>13 DEF SaveToRedis, AtRedis
  <2>2. KeyOf(w) \in Key
    BY <1>13, <2>1, KeyOfTyped
  <2>3. clock' \in Nat
    BY <1>13 DEF SaveToRedis, HistOK
  <2>4. RedisOK'
    BY <1>13, <2>2, <2>3 DEF SaveToRedis, RedisOK
  <2>5. HistOK'
    BY <1>13, <2>3 DEF SaveToRedis, HistOK
  <2>6. JobOK' /\ AtTable'
    <3>1. /\ out' \in [Worker -> Seq(Reply)]
          /\ out'[w] # <<>>
          /\ \A x \in Worker : x # w => out'[x] = out[x]
      BY <1>13, <2>1, <2>3, AnswerTyped DEF SaveToRedis
    <3>2. cmd' = cmd /\ cmd[w].op = "set" /\ pc' = [pc EXCEPT ![w] = "mysql"]
      BY <1>13 DEF SaveToRedis, AtRedis
    <3> QED
      BY <3>1, <3>2 DEF JobOK, AtTable
  <2> QED
    BY <1>13, <2>1, <2>2, <2>3, <2>4, <2>5, <2>6 DEF SaveToRedis
<1>14. ASSUME NEW w \in Worker, SaveToRedisRefused(w) PROVE TypeInv'
  <2>1. Len(out[w]) < Len(cmd[w].tables)
    BY <1>14 DEF SaveToRedisRefused, AtRedis
  <2>2. JobOK' /\ AtTable'
    <3>1. Answer(w, "ERROR", 0) /\ cmd' = cmd /\ pc' = pc /\ pc[w] # "mysql"
      BY <1>14 DEF SaveToRedisRefused, AtRedis
    <3>2. /\ out' \in [Worker -> Seq(Reply)]
          /\ \A x \in Worker : x # w => out'[x] = out[x]
      BY <2>1, <3>1, AnswerTyped
    <3> QED
      BY <3>1, <3>2 DEF JobOK, AtTable
  <2>3. BoundOK'
    BY <1>14 DEF SaveToRedisRefused, BoundOK
  <2> QED
    BY <1>14, <2>1, <2>2, <2>3 DEF SaveToRedisRefused
<1>15. ASSUME NEW w \in Worker, SaveToRedisNoReply(w) PROVE TypeInv'
  <2>1. Len(out[w]) < Len(cmd[w].tables)
    BY <1>15 DEF SaveToRedisNoReply, AtRedis
  <2>2. JobOK' /\ AtTable'
    <3>1. Answer(w, "REDISERROR", 0) /\ cmd' = cmd /\ pc' = pc /\ pc[w] # "mysql"
      BY <1>15 DEF SaveToRedisNoReply, AtRedis
    <3>2. /\ out' \in [Worker -> Seq(Reply)]
          /\ \A x \in Worker : x # w => out'[x] = out[x]
      BY <2>1, <3>1, AnswerTyped
    <3> QED
      BY <3>1, <3>2 DEF JobOK, AtTable
  <2> QED
    BY <1>15, <2>1, <2>2 DEF SaveToRedisNoReply
<1>16. ASSUME NEW w \in Worker, SaveToRedisReplyLost(w) PROVE TypeInv'
  <2>1. Len(out[w]) < Len(cmd[w].tables)
    BY <1>16 DEF SaveToRedisReplyLost, AtRedis
  <2>2. KeyOf(w) \in Key
    BY <1>16, <2>1, KeyOfTyped
  <2>3. clock' \in Nat
    BY <1>16 DEF SaveToRedisReplyLost, HistOK
  <2>4. RedisOK'
    BY <1>16, <2>2, <2>3 DEF SaveToRedisReplyLost, RedisOK
  <2>5. HistOK'
    BY <1>16, <2>3 DEF SaveToRedisReplyLost, HistOK
  <2>6. JobOK' /\ AtTable'
    <3>1. Answer(w, "REDISERROR", 0) /\ cmd' = cmd /\ pc' = pc /\ pc[w] # "mysql"
      BY <1>16 DEF SaveToRedisReplyLost, AtRedis
    <3>2. /\ out' \in [Worker -> Seq(Reply)]
          /\ \A x \in Worker : x # w => out'[x] = out[x]
      BY <2>1, <3>1, AnswerTyped
    <3> QED
      BY <3>1, <3>2 DEF JobOK, AtTable
  <2>7. LinkOK'
    BY <1>16 DEF SaveToRedisReplyLost, LinkOK
  <2>8. BoundOK'
    BY <1>16 DEF SaveToRedisReplyLost, BoundOK
  <2> QED
    BY <1>16, <2>1, <2>2, <2>3, <2>4, <2>5, <2>6, <2>7, <2>8 DEF SaveToRedisReplyLost
<1>17. ASSUME NEW w \in Worker, SaveToMySql(w) PROVE TypeInv'
  <2>1. out[w][Len(out[w])] \in Reply
    <3>1. out[w] \in Seq(Reply) /\ out[w] # <<>>
      BY <1>17 DEF SaveToMySql, AtTable, JobOK
    <3> QED
      BY <3>1
  <2>2. nextWriter' \in [Worker -> Writer] /\ nextWriter'[w] \in Writer
    BY <1>17, RoundRobinTyped DEF SaveToMySql
  <2>3. Statement(out[w][Len(out[w])].key, out[w][Len(out[w])].ver, w) \in WriterMsg /\ Keyed(out[w][Len(out[w])]) \in Version
    BY <1>17, <2>1, CmdFields DEF Reply, WriterCmd, Keyed, Version
  <2>4. WriterOK'
    BY SMTT(30), <1>17, <2>2, <2>3 DEF SaveToMySql, WriterOK
  <2>5. HistOK'
    BY <1>17, <2>3 DEF SaveToMySql, HistOK
  <2>6. JobOK' /\ AtTable'
    BY <1>17 DEF SaveToMySql, JobOK, AtTable
  <2> QED
    BY <1>17, <2>1, <2>2, <2>3, <2>4, <2>5, <2>6 DEF SaveToMySql
<1>18. ASSUME NEW w \in Worker, SaveToMySqlFails(w) PROVE TypeInv'
  <2>1. JobOK' /\ AtTable'
    BY <1>18 DEF SaveToMySqlFails, JobOK, AtTable
  <2> QED
    BY <1>18, <2>1 DEF SaveToMySqlFails
<1>19. ASSUME NEW w \in Worker, LoadFromRedis(w) PROVE TypeInv'
  <2>1. Len(out[w]) < Len(cmd[w].tables)
    BY <1>19 DEF LoadFromRedis, AtRedis
  <2>2. KeyOf(w) \in Key
    BY <1>19, <2>1, KeyOfTyped
  <2>3. redis[KeyOf(w)] \in Nat
    BY <1>19, <2>2 DEF RedisOK
  <2>4. JobOK' /\ AtTable'
    <3>1. CASE readis[w] = "ok" /\ redis[KeyOf(w)] # 0
      <4>1. Answer(w, "redis", redis[KeyOf(w)]) /\ pc' = pc /\ cmd' = cmd /\ pc[w] # "mysql"
        BY <1>19, <3>1 DEF LoadFromRedis, AtRedis
      <4>2. /\ out' \in [Worker -> Seq(Reply)]
            /\ \A x \in Worker : x # w => out'[x] = out[x]
        BY <2>1, <2>3, <4>1, AnswerTyped
      <4> QED
        BY <4>1, <4>2 DEF JobOK, AtTable
    <3>2. CASE ~(readis[w] = "ok" /\ redis[KeyOf(w)] # 0)
      <4>1. /\ out' = out /\ cmd' = cmd /\ pc' = [pc EXCEPT ![w] = "mysql"]
            /\ cmd[w].op # "set"
        BY <1>19, <3>2 DEF LoadFromRedis, AtRedis
      <4> QED
        BY <2>1, <4>1 DEF JobOK, AtTable
    <3> QED
      BY <3>1, <3>2
  <2>5. HistOK'
    BY <1>19, <2>2 DEF LoadFromRedis, HistOK
  <2> QED
    BY <1>19, <2>1, <2>2, <2>3, <2>4, <2>5 DEF LoadFromRedis
<1>20. ASSUME NEW w \in Worker, LoadFromMySql(w) PROVE TypeInv'
  <2>1. Len(out[w]) < Len(cmd[w].tables)
    BY <1>20 DEF LoadFromMySql, AtTable
  <2>2. KeyOf(w) \in Key
    BY <1>20, <2>1, KeyOfTyped
  <2>3. mysql[KeyOf(w)] \in Nat
    BY <1>20, <2>2 DEF MySqlOK
  <2>4. JobOK' /\ AtTable'
    <3>1. PICK s \in {"none", "mysql", "-1", "-2", "-3"}, v \in Nat : Answer(w, s, v)
      BY <1>20, <2>3 DEF LoadFromMySql, Failed
    <3>2. /\ out' \in [Worker -> Seq(Reply)]
          /\ \A x \in Worker : x # w => out'[x] = out[x]
      BY ZenonT(30), <2>1, <3>1, AnswerTyped
    <3>3. cmd' = cmd /\ pc' = [pc EXCEPT ![w] = "table"]
      BY <1>20 DEF LoadFromMySql
    <3> QED
      BY <3>2, <3>3 DEF JobOK, AtTable
  <2>5. LinkOK'
    BY <1>20, HandleTyped DEF LoadFromMySql, LinkOK
  <2>6. BoundOK'
    BY <1>20 DEF LoadFromMySql, BoundOK
  <2> QED
    BY <1>20, <2>1, <2>2, <2>3, <2>4, <2>5, <2>6 DEF LoadFromMySql
<1>21. ASSUME NEW w \in Worker, LoadFromMySqlM(w) PROVE TypeInv'
  <2>1. Len(out[w]) < Len(cmd[w].tables)
    BY <1>21 DEF LoadFromMySqlM, AtTable
  <2>2. KeyOf(w) \in Key
    BY <1>21, <2>1, KeyOfTyped
  <2>3. mysql[KeyOf(w)] \in Nat
    BY <1>21, <2>2 DEF MySqlOK
  <2>4. JobOK' /\ AtTable'
    <3>1. PICK st \in {"mysql", "empty"}, v \in Nat : Answer(w, st, v)
      BY <1>21, <2>3 DEF LoadFromMySqlM
    <3>2. /\ out' \in [Worker -> Seq(Reply)]
          /\ \A x \in Worker : x # w => out'[x] = out[x]
      BY ZenonT(30), <2>1, <3>1, AnswerTyped
    <3>3. cmd' = cmd /\ pc' = [pc EXCEPT ![w] = "table"]
      BY <1>21 DEF LoadFromMySqlM
    <3> QED
      BY <3>2, <3>3 DEF JobOK, AtTable
  <2>5. LinkOK'
    BY <1>21, HandleTyped DEF LoadFromMySqlM, LinkOK
  <2>6. BoundOK'
    BY <1>21 DEF LoadFromMySqlM, BoundOK
  <2> QED
    BY <1>21, <2>1, <2>2, <2>3, <2>4, <2>5, <2>6 DEF LoadFromMySqlM
<1>22. ASSUME NEW w \in Worker, SendReply(w) PROVE TypeInv'
  <2>1. JobOK' /\ AtTable'
    BY <1>22 DEF SendReply, JobOK, AtTable
  <2>2. HistOK'
    <3>2. out[w] \in Seq(Reply)
      BY DEF JobOK
    <3>1. \A i \in DOMAIN out[w] : Keyed(out[w][i]) \in Version
      BY <3>2, ReplyTyped
    <3> QED
      BY <1>22, <3>1 DEF SendReply, HistOK
  <2> QED
    BY <1>22, <2>1, <2>2 DEF SendReply
<1>23. ASSUME NEW t \in Writer, Execute(t) PROVE TypeInv'
  <2>1. wqueue[t] \in Seq(WriterMsg) /\ wqueue[t] # <<>> /\ Head(wqueue[t]) \in WriterMsg
    BY <1>23 DEF Execute, AtWriter, WriterOK
  <2>2. Head(wqueue[t]) \in WriterCmd
    BY <1>23, <2>1, Cmds DEF Execute, AtWriter
  <2>3. WriterOK'
    BY <1>23, <2>1 DEF Execute, WriterOK
  <2>4. mysql' \in [Key -> Nat] /\ lane' \in [Key -> Nat \X Nat] /\ applied' \subseteq Version
    BY SMTT(30), <1>23, <2>2, CmdFields DEF Execute, Executed, MySqlOK, HistOK
  <2>5. MySqlOK' /\ HistOK'
    BY <1>23, <2>4 DEF Execute, MySqlOK, HistOK
  <2>6. LinkOK'
    BY <1>23, HandleTyped DEF Execute, LinkOK
  <2> QED
    BY <1>23, <2>1, <2>2, <2>3, <2>4, <2>5, <2>6 DEF Execute
<1>24. ASSUME NEW t \in Writer, ExecuteFails(t) PROVE TypeInv'
  <2>1. wqueue[t] \in Seq(WriterMsg) /\ wqueue[t] # <<>> /\ Head(wqueue[t]) \in WriterMsg
    BY <1>24 DEF ExecuteFails, AtWriter, WriterOK
  <2>2. Head(wqueue[t]) \in WriterCmd
    BY <1>24, <2>1, Cmds DEF ExecuteFails, AtWriter
  <2>3. WriterOK'
    BY <1>24, <2>1 DEF ExecuteFails, WriterOK
  <2>4. LogOK'
    BY <1>24, <2>2, Cmds DEF ExecuteFails, RawLog, LogOK
  <2>5. LinkOK'
    BY <1>24, HandleTyped DEF ExecuteFails, LinkOK
  <2> QED
    BY <1>24, <2>1, <2>2, <2>3, <2>4, <2>5 DEF ExecuteFails
<1>25. ASSUME NEW t \in Writer, ExecuteRefused(t) PROVE TypeInv'
  <2>1. wqueue[t] \in Seq(WriterMsg) /\ wqueue[t] # <<>> /\ Head(wqueue[t]) \in WriterMsg
    BY <1>25 DEF ExecuteRefused, AtWriter, WriterOK
  <2>2. Head(wqueue[t]) \in WriterCmd
    BY <1>25, <2>1, Cmds DEF ExecuteRefused, AtWriter
  <2>3. WriterOK'
    BY SMTT(30), <1>25, <2>1 DEF ExecuteRefused, WriterOK
  <2>4. LogOK'
    BY <1>25, <2>2, Cmds DEF ExecuteRefused, RawLog, LogOK
  <2>5. mysql' \in [Key -> Nat] /\ lane' \in [Key -> Nat \X Nat] /\ applied' \subseteq Version
    <3>1. CASE UNCHANGED <<mysql, lane, applied>>
      BY <3>1 DEF MySqlOK, HistOK
    <3>2. CASE Executed(Head(wqueue[t]), t)
      BY SMTT(30), <2>2, <3>2, CmdFields DEF Executed, MySqlOK, HistOK
    <3> QED
      BY <1>25, <3>1, <3>2 DEF ExecuteRefused
  <2>6. MySqlOK' /\ HistOK'
    BY <1>25, <2>5 DEF ExecuteRefused, MySqlOK, HistOK
  <2>7. LinkOK'
    BY ZenonT(30), <1>25, HandleTyped DEF ExecuteRefused, LinkOK, Handle
  <2>8. BoundOK'
    BY <1>25 DEF ExecuteRefused, BoundOK
  <2> QED
    BY <1>25, <2>1, <2>2, <2>3, <2>4, <2>5, <2>6, <2>7, <2>8 DEF ExecuteRefused
<1>26. ASSUME NEW t \in Writer, WriterPing(t) PROVE TypeInv'
  <2>1. wqueue[t] \in Seq(WriterMsg) /\ wqueue[t] # <<>> /\ Head(wqueue[t]) \in WriterMsg
    BY <1>26 DEF WriterPing, AtWriter, WriterOK
  <2>2. WriterOK'
    BY <1>26, <2>1 DEF WriterPing, WriterOK
  <2> QED
    BY <1>26, <2>1, <2>2 DEF WriterPing
<1>27. ASSUME NEW t \in Writer, WriterStop(t) PROVE TypeInv'
  <2>1. wqueue[t] \in Seq(WriterMsg) /\ wqueue[t] # <<>> /\ Head(wqueue[t]) \in WriterMsg
    BY <1>27 DEF WriterStop, AtWriter, WriterOK
  <2>2. WriterOK'
    BY <1>27, <2>1 DEF WriterStop, WriterOK
  <2> QED
    BY <1>27, <2>1, <2>2 DEF WriterStop
<1>28. ASSUME LogStep PROVE TypeInv'
  <2>1. logq \in Seq(WriterMsg \ {PingMsg}) /\ logq # <<>> /\ Head(logq) \in WriterMsg \ {PingMsg}
    BY <1>28 DEF LogStep, LogOK
  <2>2. Head(logq).Type # "STOP" => Head(logq) \in WriterCmd
    BY <1>28, <2>1 DEF WriterMsg, WriterCmd, Stop, PingMsg
  <2>3. LogOK'
    <3>1. logq' \in Seq(WriterMsg \ {PingMsg})
      BY <1>28, <2>1, QueueTyped DEF LogStep
    <3>2. recover' \subseteq Version /\ ldone' \in BOOLEAN
      <4>1. CASE Head(logq).Type = "STOP"
        BY <1>28, <4>1 DEF LogStep, LogOK
      <4>2. CASE Head(logq).Type # "STOP"
        <5>1. recover' = recover \cup {Keyed(Head(logq))} /\ ldone' = ldone
          BY <1>28, <4>2 DEF LogStep
        <5>2. Keyed(Head(logq)) \in Version
          BY <2>2, <4>2, CmdFields
        <5> QED
          BY <5>1, <5>2 DEF LogOK
      <4> QED
        BY <4>1, <4>2
    <3> QED
      BY <3>1, <3>2 DEF LogOK
  <2> QED
    BY <1>28, <2>1, <2>2, <2>3 DEF LogStep
<1>29. ASSUME RedisDown PROVE TypeInv'
  <2>1. LinkOK'
    BY <1>29 DEF RedisDown, LinkOK
  <2>2. RedisOK'
    BY <1>29 DEF RedisDown, RedisOK
  <2>3. BoundOK' /\ HistOK'
    BY <1>29 DEF RedisDown, Fault, internalVars, BoundOK, HistOK
  <2> QED
    BY <1>29, <2>1, <2>2, <2>3 DEF RedisDown, internalVars
<1>30. ASSUME RedisBack PROVE TypeInv'
  <2>1. RedisOK'
    BY <1>30 DEF RedisBack, RedisOK
  <2>2. BoundOK' /\ HistOK'
    BY <1>30 DEF RedisBack, internalVars, BoundOK, HistOK
  <2> QED
    BY <1>30, <2>1, <2>2 DEF RedisBack, internalVars
<1>31. ASSUME MySqlDown PROVE TypeInv'
  <2>1. LinkOK'
    BY <1>31, HandleTyped DEF MySqlDown, LinkOK
  <2>2. MySqlOK'
    BY <1>31 DEF MySqlDown, MySqlOK
  <2>3. BoundOK' /\ HistOK'
    BY <1>31 DEF MySqlDown, Fault, internalVars, BoundOK, HistOK
  <2>4. RedisOK'
    BY <1>31 DEF MySqlDown, RedisOK
  <2> QED
    BY <1>31, <2>1, <2>2, <2>3, <2>4 DEF MySqlDown, internalVars
<1>32. ASSUME MySqlBack PROVE TypeInv'
  <2>1. MySqlOK'
    BY <1>32 DEF MySqlBack, MySqlOK
  <2>2. BoundOK' /\ HistOK'
    BY <1>32 DEF MySqlBack, internalVars, BoundOK, HistOK
  <2> QED
    BY <1>32, <2>1, <2>2 DEF MySqlBack, internalVars
<1>33. ASSUME NEW k \in Key, RedisForgets(k) PROVE TypeInv'
  <2>1. RedisOK'
    BY <1>33 DEF RedisForgets, RedisOK
  <2>2. BoundOK' /\ HistOK'
    BY <1>33 DEF RedisForgets, Fault, internalVars, BoundOK, HistOK
  <2> QED
    BY <1>33, <2>1, <2>2 DEF RedisForgets, internalVars
<1>34. ASSUME Crash PROVE TypeInv'
  <2>1. MainOK'
    BY <1>34 DEF Crash, MainOK
  <2>7. BoundOK'
    BY <1>34 DEF Crash, BoundOK
  <2>6. HistOK'
    BY <1>34 DEF Crash, HistOK
  <2>2. PoolOK' /\ nextWriter' \in [Worker -> Writer]
    BY <1>34 DEF Crash, PoolOK
  <2>3. JobOK' /\ AtTable'
    BY <1>34, IdleTyped DEF Crash, JobOK, AtTable, WorkerCmd
  <2>4. LinkOK'
    BY <1>34 DEF Crash, LinkOK, ReConnect, Open, Handle
  <2>5. WriterOK' /\ LogOK'
    <3>1. WriterOK'
      BY <1>34 DEF Crash, WriterOK
    <3>2. logq' = <<>> /\ recover' = recover /\ ldone' = FALSE
      BY <1>34 DEF Crash, logVars
    <3> QED
      BY <3>1, <3>2 DEF LogOK
  <2>8. RedisOK'
    BY <1>34 DEF Crash, RedisOK
  <2> QED
    BY <1>34, <2>1, <2>2, <2>3, <2>4, <2>5, <2>6, <2>7, <2>8 DEF Crash
<1>36. ASSUME NEW w \in Worker, LoadFromRedisRefused(w) PROVE TypeInv'
  <2>1. Len(out[w]) < Len(cmd[w].tables)
    BY <1>36 DEF LoadFromRedisRefused, AtRedis
  <2>2. JobOK' /\ AtTable'
    <3>1. /\ out' = out /\ cmd' = cmd /\ pc' = [pc EXCEPT ![w] = "mysql"]
          /\ cmd[w].op # "set"
      BY <1>36 DEF LoadFromRedisRefused, AtRedis
    <3> QED
      BY <2>1, <3>1 DEF JobOK, AtTable
  <2>3. HistOK' /\ BoundOK'
    BY <1>36 DEF LoadFromRedisRefused, HistOK, BoundOK
  <2> QED
    BY <1>36, <2>2, <2>3 DEF LoadFromRedisRefused
<1>37. ASSUME NEW w \in Worker, LoadFromMySqlUntyped(w) PROVE TypeInv'
  <2>1. Len(out[w]) < Len(cmd[w].tables)
    BY <1>37 DEF LoadFromMySqlUntyped, AtTable
  <2>2. JobOK' /\ AtTable'
    <3>1. PICK s \in {"empty", "-2", "-3"} : Answer(w, s, 0)
      BY <1>37 DEF LoadFromMySqlUntyped, Failed
    <3>2. /\ out' \in [Worker -> Seq(Reply)]
          /\ \A x \in Worker : x # w => out'[x] = out[x]
      BY ZenonT(30), <2>1, <3>1, AnswerTyped
    <3>3. cmd' = cmd /\ pc' = [pc EXCEPT ![w] = "table"]
      BY <1>37 DEF LoadFromMySqlUntyped
    <3> QED
      BY <3>2, <3>3 DEF JobOK, AtTable
  <2>3. BoundOK'
    BY <1>37 DEF LoadFromMySqlUntyped, BoundOK
  <2> QED
    BY <1>37, <2>2, <2>3 DEF LoadFromMySqlUntyped
<1>38. ASSUME NEW s \in {"redis", "mysql"}, Silence(s) \/ Answers(s) PROVE TypeInv'
  <2>1. RedisOK'
    BY <1>38 DEF Silence, Answers, RedisOK
  <2>2. BoundOK'
    BY <1>38 DEF Silence, Answers, Fault, internalVars, BoundOK
  <2>3. HistOK'
    BY <1>38 DEF Silence, Answers, internalVars, HistOK
  <2> QED
    BY <1>38, <2>1, <2>2, <2>3 DEF Silence, Answers, internalVars
<1>35. CASE UNCHANGED vars
  BY <1>35 DEF vars
<1> QED
  BY <1>1, <1>2, <1>3, <1>4, <1>5, <1>6, <1>7, <1>8, <1>9, <1>10, <1>11, <1>12, <1>13,
     <1>14, <1>15, <1>16, <1>17, <1>18, <1>19, <1>20, <1>21, <1>22, <1>23, <1>24, <1>25,
     <1>26, <1>27, <1>28, <1>29, <1>30, <1>31, <1>32, <1>33, <1>34, <1>35, <1>36, <1>37,
     <1>38
     DEF Next, Main, WorkerStep, WriterStep, Environment, Terminated

\* Spec keeps TypeOK and AtTable: whatever the threads, redis and MySQL do,
\* no handler of WorkerThread.cc indexes past the tables of its message or
\* takes the last of an empty reply, and no round robin leaves its pool.
THEOREM TypeCorrect == Spec => [](TypeOK /\ AtTable)
<1>1. Init => TypeInv
  BY InitTyped
<1>2. TypeInv /\ [Next]_vars => TypeInv'
  BY StepTyped
<1>3. TypeInv => TypeOK /\ AtTable
  BY DEF TypeInv
<1> QED
  BY <1>1, <1>2, <1>3, PTL DEF Spec

-----------------------------------------------------------------------------
(***************************************************************************)
(* GracefulStopDrains, for any number of threads: what main has told to     *)
(* stop, what has been joined, and where an accepted write may be.         *)
(***************************************************************************)

HasStop(q) == \E i \in DOMAIN q : q[i].Type = "STOP"

\* Nothing is behind a STOP.
StopLast(q) == \A i \in DOMAIN q : q[i].Type = "STOP" => i = Len(q)

\* Worker w has been sent its STOP, and main has joined it.
WorkerTold(w) ==
    \/ phase \in {"stopWriters", "stopLog", "stopped"}
    \/ phase = "stopWorkers" /\ (w < stopAt \/ (w = stopAt /\ asked = TRUE))
WorkerJoined(w) ==
    phase \in {"stopWriters", "stopLog", "stopped"} \/ (phase = "stopWorkers" /\ w < stopAt)

WriterTold(t) ==
    \/ phase \in {"stopLog", "stopped"}
    \/ phase = "stopWriters" /\ (t < stopAt \/ (t = stopAt /\ asked = TRUE))
WriterJoined(t) ==
    phase \in {"stopLog", "stopped"} \/ (phase = "stopWriters" /\ t < stopAt)

LogTold == phase = "stopped" \/ (phase = "stopLog" /\ asked = TRUE)

\* main stops the threads of a pool in their order.
MainStops ==
    /\ phase = "stopWorkers" => stopAt \in Worker
    /\ phase = "stopWriters" => stopAt \in Writer
    /\ phase = "stopLog" => stopAt = 0

WorkersStop == \A w \in Worker :
    /\ StopLast(queue[w])
    /\ pc[w] = "done" => queue[w] = <<>>
    /\ HasStop(queue[w]) \/ pc[w] = "done" => WorkerTold(w)
    /\ WorkerJoined(w) => pc[w] = "done"

WritersStop == \A t \in Writer :
    /\ StopLast(wqueue[t])
    /\ wdone[t] = TRUE => wqueue[t] = <<>>
    /\ HasStop(wqueue[t]) \/ wdone[t] = TRUE => WriterTold(t)
    /\ WriterJoined(t) => wdone[t] = TRUE

LogStops ==
    /\ StopLast(logq)
    /\ ldone = TRUE => logq = <<>>
    /\ HasStop(logq) \/ ldone = TRUE \/ bstart = FALSE => LogTold
    /\ phase = "stopped" => ldone = TRUE

\* Every write handed to a writer has been executed, has its key in the recover
\* file, or waits in a queue on its way to one of the two.
Accounted == \A e \in accepted :
    \/ e \in applied \/ e \in recover
    \/ \E t \in Writer : e \in Statements(wqueue[t])
    \/ e \in Statements(logq)

StopInv == TypeInv /\ MainStops /\ WorkersStop /\ WritersStop /\ LogStops /\ Accounted

-----------------------------------------------------------------------------
(* Queues *)

\* What Append does to the STOP and to the statements of a queue.
LEMMA AppendFacts ==
    ASSUME NEW T, NEW q \in Seq(T), NEW m \in T
    PROVE  /\ StopLast(q) /\ ~HasStop(q) => StopLast(Append(q, m))
           /\ HasStop(Append(q, m)) <=> HasStop(q) \/ m.Type = "STOP"
           /\ \A e : e \in Statements(q) => e \in Statements(Append(q, m))
           /\ m.Type = "CMD" => Keyed(m) \in Statements(Append(q, m))
<1> DEFINE r == Append(q, m)
<1>1. /\ DOMAIN r = 1 .. Len(q) + 1 /\ Len(r) = Len(q) + 1 /\ Len(q) \in Nat
      /\ DOMAIN q = 1 .. Len(q)
      /\ \A i \in 1 .. Len(q) : r[i] = q[i]
      /\ r[Len(q) + 1] = m
  OBVIOUS
<1> HIDE DEF r
<1>2. StopLast(q) /\ ~HasStop(q) => StopLast(r)
  BY <1>1 DEF StopLast, HasStop
<1>3. HasStop(r) <=> HasStop(q) \/ m.Type = "STOP"
  BY <1>1 DEF HasStop
<1>4. \A e : e \in Statements(q) => e \in Statements(r)
  BY <1>1 DEF Statements
<1>5. m.Type = "CMD" => Keyed(m) \in Statements(r)
  BY <1>1 DEF Statements
<1> QED
  BY <1>2, <1>3, <1>4, <1>5 DEF r

\* What taking the head does to them.
LEMMA TailFacts ==
    ASSUME NEW T, NEW q \in Seq(T), q # <<>>
    PROVE  /\ StopLast(q) => StopLast(Tail(q))
           /\ HasStop(Tail(q)) => HasStop(q)
           /\ Head(q).Type = "STOP" => HasStop(q)
           /\ StopLast(q) /\ Head(q).Type = "STOP" => Tail(q) = <<>>
           /\ \A e : e \in Statements(q) =>
                  e \in Statements(Tail(q)) \/ (Head(q).Type = "CMD" /\ e = Keyed(Head(q)))
<1> DEFINE r == Tail(q)
<1>1. /\ Len(q) \in Nat \ {0} /\ Len(r) = Len(q) - 1 /\ r \in Seq(T)
      /\ DOMAIN q = 1 .. Len(q) /\ DOMAIN r = 1 .. Len(q) - 1
      /\ \A i \in 1 .. Len(q) - 1 : r[i] = q[i + 1]
      /\ Head(q) = q[1]
  <2>1. Len(q) \in Nat /\ Len(q) # 0 /\ DOMAIN q = 1 .. Len(q)
    OBVIOUS
  <2>2. Tail(q) \in Seq(T) /\ Len(Tail(q)) = Len(q) - 1 /\ Head(q) = q[1]
    BY <2>1
  <2>3. DOMAIN Tail(q) = 1 .. Len(q) - 1
    BY <2>1, <2>2
  <2>4. \A i \in 1 .. Len(q) - 1 : Tail(q)[i] = q[i + 1]
    BY <2>1
  <2> QED
    BY <2>1, <2>2, <2>3, <2>4
<1> HIDE DEF r
<1>2. Len(r) = 0 => r = <<>>
  BY <1>1, EmptySeq
<1>3. StopLast(q) => StopLast(r)
  BY <1>1 DEF StopLast
<1>4. HasStop(r) => HasStop(q)
  BY <1>1 DEF HasStop
<1>5. Head(q).Type = "STOP" => HasStop(q)
  BY <1>1 DEF HasStop
<1>6. StopLast(q) /\ Head(q).Type = "STOP" => r = <<>>
  BY <1>1, <1>2 DEF StopLast
<1>7. ASSUME NEW e, e \in Statements(q)
      PROVE  e \in Statements(r) \/ (Head(q).Type = "CMD" /\ e = Keyed(Head(q)))
  <2>1. PICK j \in DOMAIN q : q[j].Type = "CMD" /\ e = Keyed(q[j])
    BY <1>7 DEF Statements
  <2>2. CASE j = 1
    BY <1>1, <2>1, <2>2
  <2>3. CASE j # 1
    <3>1. j - 1 \in DOMAIN r /\ r[j - 1] = q[j]
      BY <1>1, <2>1, <2>3
    <3> QED
      BY <2>1, <3>1 DEF Statements
  <2> QED
    BY <2>2, <2>3
<1> QED
  BY <1>3, <1>4, <1>5, <1>6, <1>7 DEF r

\* An empty queue holds neither.
LEMMA EmptyFacts == ~HasStop(<<>>) /\ StopLast(<<>>) /\ Statements(<<>>) = {}
BY DEF HasStop, StopLast, Statements
-----------------------------------------------------------------------------
(* The invariant is inductive *)

LEMMA InitStop == Init => StopInv
<1> SUFFICES ASSUME Init PROVE StopInv
  OBVIOUS
<1> USE EmptyFacts
<1>1. MainStops /\ LogStops
  BY DEF Init, MainStops, LogStops
<1>2. WorkersStop
  BY DEF Init, WorkersStop, WorkerTold, WorkerJoined
<1>3. WritersStop
  BY DEF Init, WritersStop, WriterTold, WriterJoined
<1>4. Accounted
  BY DEF Init, Accounted
<1> QED
  BY <1>1, <1>2, <1>3, <1>4, InitTyped DEF StopInv

\* What a step leaves alone stays as it is.
LEMMA StopFrame ==
    /\ MainStops /\ mainVars' = mainVars => MainStops'
    /\ WorkersStop /\ mainVars' = mainVars /\ queue' = queue /\ pc' = pc => WorkersStop'
    /\ WritersStop /\ mainVars' = mainVars /\ writerVars' = writerVars => WritersStop'
    /\ LogStops /\ mainVars' = mainVars /\ logVars' = logVars => LogStops'
    /\ Accounted /\ accepted' = accepted /\ applied' = applied /\ recover' = recover
                 /\ wqueue' = wqueue /\ logq' = logq => Accounted'
BY DEF MainStops, WorkersStop, WritersStop, LogStops, Accounted, mainVars, writerVars, logVars,
       WorkerTold, WorkerJoined, WriterTold, WriterJoined, LogTold

\* A worker that goes on with its message changes nothing about the shutdown.
LEMMA WorkerGoesOn ==
    ASSUME JobOK, WorkersStop, mainVars' = mainVars, queue' = queue,
           NEW w \in Worker, NEW x, x # "done", pc[w] # "done", pc' = [pc EXCEPT ![w] = x]
    PROVE  WorkersStop'
<1>1. \A v \in Worker : pc'[v] = "done" <=> pc[v] = "done"
  BY DEF JobOK
<1> QED
  BY <1>1 DEF WorkersStop, WorkerTold, WorkerJoined, mainVars

\* A worker takes the head of its queue: a STOP ends it, nothing else does.
LEMMA WorkerTakes ==
    ASSUME TypeInv, WorkersStop, mainVars' = mainVars,
           NEW w \in Worker, pc[w] = "take", queue[w] # <<>>,
           queue' = [queue EXCEPT ![w] = Tail(@)],
           NEW x, pc' = [pc EXCEPT ![w] = x], x = "done" => Head(queue[w]).Type = "STOP"
    PROVE  WorkersStop'
<1>1. queue[w] \in Seq(WorkerMsg) /\ queue \in [Worker -> Seq(WorkerMsg)]
  BY DEF TypeInv, TypeOK, PoolOK
<1>2. pc \in [Worker -> {"take", "table", "mysql", "done"}]
  BY DEF TypeInv, TypeOK, JobOK
<1>3. /\ StopLast(queue[w]) => StopLast(Tail(queue[w]))
      /\ HasStop(Tail(queue[w])) => HasStop(queue[w])
      /\ Head(queue[w]).Type = "STOP" => HasStop(queue[w])
      /\ StopLast(queue[w]) /\ Head(queue[w]).Type = "STOP" => Tail(queue[w]) = <<>>
  BY <1>1, TailFacts
<1>4. /\ queue'[w] = Tail(queue[w]) /\ pc'[w] = x
      /\ \A v \in Worker : v # w => queue'[v] = queue[v] /\ pc'[v] = pc[v]
  BY <1>1, <1>2
<1>5. \A v \in Worker : (WorkerTold(v))' = WorkerTold(v) /\ (WorkerJoined(v))' = WorkerJoined(v)
  BY DEF WorkerTold, WorkerJoined, mainVars
<1>6. ASSUME NEW v \in Worker
      PROVE  /\ StopLast(queue'[v])
             /\ pc'[v] = "done" => queue'[v] = <<>>
             /\ HasStop(queue'[v]) \/ pc'[v] = "done" => WorkerTold(v)
             /\ WorkerJoined(v) => pc'[v] = "done"
  <2>1. CASE v = w
    BY <1>3, <1>4, <2>1 DEF WorkersStop
  <2>2. CASE v # w
    BY <1>4, <2>2 DEF WorkersStop
  <2> QED
    BY <2>1, <2>2
<1> QED
  BY <1>5, <1>6 DEF WorkersStop

\* A writer takes the head of its queue: a STOP ends it, nothing else does.
LEMMA WriterTakes ==
    ASSUME TypeInv, WritersStop, mainVars' = mainVars,
           NEW t \in Writer, NEW type, AtWriter(t, type),
           wqueue' = [wqueue EXCEPT ![t] = Tail(@)],
           wdone' = IF type = "STOP" THEN [wdone EXCEPT ![t] = TRUE] ELSE wdone
    PROVE  WritersStop'
<1>1. wqueue[t] \in Seq(WriterMsg) /\ wqueue \in [Writer -> Seq(WriterMsg)] /\ wqueue[t] # <<>>
  BY DEF TypeInv, TypeOK, WriterOK, AtWriter
<1>2. wdone \in [Writer -> BOOLEAN] /\ wdone[t] # TRUE /\ Head(wqueue[t]).Type = type
  BY DEF TypeInv, TypeOK, WriterOK, AtWriter
<1>3. /\ StopLast(wqueue[t]) => StopLast(Tail(wqueue[t]))
      /\ HasStop(Tail(wqueue[t])) => HasStop(wqueue[t])
      /\ Head(wqueue[t]).Type = "STOP" => HasStop(wqueue[t])
      /\ StopLast(wqueue[t]) /\ Head(wqueue[t]).Type = "STOP" => Tail(wqueue[t]) = <<>>
  BY <1>1, TailFacts
<1>4. /\ wqueue'[t] = Tail(wqueue[t]) /\ (wdone'[t] = TRUE <=> type = "STOP")
      /\ \A v \in Writer : v # t => wqueue'[v] = wqueue[v] /\ wdone'[v] = wdone[v]
  BY <1>1, <1>2
<1>5. \A v \in Writer : (WriterTold(v))' = WriterTold(v) /\ (WriterJoined(v))' = WriterJoined(v)
  BY DEF WriterTold, WriterJoined, mainVars
<1>6. ASSUME NEW v \in Writer
      PROVE  /\ StopLast(wqueue'[v])
             /\ wdone'[v] = TRUE => wqueue'[v] = <<>>
             /\ HasStop(wqueue'[v]) \/ wdone'[v] = TRUE => WriterTold(v)
             /\ WriterJoined(v) => wdone'[v] = TRUE
  <2>1. CASE v = t
    BY <1>2, <1>3, <1>4, <2>1 DEF WritersStop
  <2>2. CASE v # t
    BY <1>4, <2>2 DEF WritersStop
  <2> QED
    BY <2>1, <2>2
<1> QED
  BY <1>5, <1>6 DEF WritersStop

\* A message arrives in the queue of a worker that has not been told to stop.
LEMMA WorkerGets ==
    ASSUME TypeInv, WorkersStop, NEW w \in Worker, ~WorkerTold(w),
           NEW m \in WorkerMsg, queue' = [queue EXCEPT ![w] = Append(@, m)], pc' = pc,
           \A v \in Worker : WorkerTold(v) => (WorkerTold(v))',
           \A v \in Worker : (WorkerJoined(v))' = WorkerJoined(v),
           m.Type = "STOP" => (WorkerTold(w))'
    PROVE  WorkersStop'
<1>1. queue \in [Worker -> Seq(WorkerMsg)] /\ queue[w] \in Seq(WorkerMsg)
  BY DEF TypeInv, TypeOK, PoolOK
<1>2. ~HasStop(queue[w]) /\ pc[w] # "done" /\ StopLast(queue[w])
  BY DEF WorkersStop
<1>3. StopLast(Append(queue[w], m)) /\ (HasStop(Append(queue[w], m)) <=> m.Type = "STOP")
  BY <1>1, <1>2, AppendFacts
<1>4. queue'[w] = Append(queue[w], m) /\ \A v \in Worker : v # w => queue'[v] = queue[v]
  BY <1>1
<1>5. ASSUME NEW v \in Worker
      PROVE  /\ StopLast(queue'[v])
             /\ pc'[v] = "done" => queue'[v] = <<>>
             /\ HasStop(queue'[v]) \/ pc'[v] = "done" => (WorkerTold(v))'
             /\ (WorkerJoined(v))' => pc'[v] = "done"
  <2>1. CASE v = w
    BY <1>2, <1>3, <1>4, <2>1 DEF WorkersStop
  <2>2. CASE v # w
    BY <1>4, <2>2 DEF WorkersStop
  <2> QED
    BY <2>1, <2>2
<1> QED
  BY <1>5 DEF WorkersStop

\* A message arrives in the queue of a writer that has not been told to stop.
LEMMA WriterGets ==
    ASSUME TypeInv, WritersStop, NEW t \in Writer, ~WriterTold(t),
           NEW m \in WriterMsg, wqueue' = [wqueue EXCEPT ![t] = Append(@, m)], wdone' = wdone,
           \A v \in Writer : WriterTold(v) => (WriterTold(v))',
           \A v \in Writer : (WriterJoined(v))' = WriterJoined(v),
           m.Type = "STOP" => (WriterTold(t))'
    PROVE  WritersStop'
<1>1. wqueue \in [Writer -> Seq(WriterMsg)] /\ wqueue[t] \in Seq(WriterMsg)
  BY DEF TypeInv, TypeOK, WriterOK
<1>2. ~HasStop(wqueue[t]) /\ wdone[t] # TRUE /\ StopLast(wqueue[t])
  BY DEF WritersStop
<1>3. StopLast(Append(wqueue[t], m)) /\ (HasStop(Append(wqueue[t], m)) <=> m.Type = "STOP")
  BY <1>1, <1>2, AppendFacts
<1>4. wqueue'[t] = Append(wqueue[t], m) /\ \A v \in Writer : v # t => wqueue'[v] = wqueue[v]
  BY <1>1
<1>5. ASSUME NEW v \in Writer
      PROVE  /\ StopLast(wqueue'[v])
             /\ wdone'[v] = TRUE => wqueue'[v] = <<>>
             /\ HasStop(wqueue'[v]) \/ wdone'[v] = TRUE => (WriterTold(v))'
             /\ (WriterJoined(v))' => wdone'[v] = TRUE
  <2>1. CASE v = t
    BY <1>2, <1>3, <1>4, <2>1 DEF WritersStop
  <2>2. CASE v # t
    BY <1>4, <2>2 DEF WritersStop
  <2> QED
    BY <2>1, <2>2
<1> QED
  BY <1>5 DEF WritersStop

\* No queue loses a statement: every accepted write stays accounted for.
LEMMA AccountedGrows ==
    ASSUME Accounted, applied \subseteq applied', recover \subseteq recover',
           \A t \in Writer : \A e \in Statements(wqueue[t]) : e \in Statements(wqueue'[t]),
           \A e \in Statements(logq) : e \in Statements(logq'),
           \A e \in accepted' : e \in accepted \/ \E t \in Writer : e \in Statements(wqueue'[t])
    PROVE  Accounted'
BY DEF Accounted

\* A writer takes a message: a statement must have gone to MySQL or to the log.
LEMMA AccountedTakes ==
    ASSUME TypeInv, Accounted, NEW t \in Writer, NEW type, AtWriter(t, type),
           wqueue' = [wqueue EXCEPT ![t] = Tail(@)],
           accepted' = accepted, applied \subseteq applied', recover' = recover,
           \A e \in Statements(logq) : e \in Statements(logq'),
           type = "CMD" => Keyed(Head(wqueue[t])) \in applied' \cup Statements(logq')
    PROVE  Accounted'
<1>1. wqueue[t] \in Seq(WriterMsg) /\ wqueue \in [Writer -> Seq(WriterMsg)] /\ wqueue[t] # <<>>
  BY DEF TypeInv, TypeOK, WriterOK, AtWriter
<1>2. wqueue'[t] = Tail(wqueue[t]) /\ \A v \in Writer : v # t => wqueue'[v] = wqueue[v]
  BY <1>1
<1>3. \A e \in Statements(wqueue[t]) :
          e \in Statements(wqueue'[t]) \/ (type = "CMD" /\ e = Keyed(Head(wqueue[t])))
  BY <1>1, <1>2, TailFacts DEF AtWriter
<1> QED
  BY <1>2, <1>3 DEF Accounted

\* A writer at work finds the log thread still taking lines.
LEMMA WriterLogs ==
    ASSUME TypeInv, WritersStop, LogStops, mainVars' = mainVars, ldone' = ldone,
           NEW t \in Writer, AtWriter(t, "CMD"), RawLog(Head(wqueue[t]))
    PROVE  /\ LogStops'
           /\ Keyed(Head(wqueue[t])) \in Statements(logq')
           /\ \A e \in Statements(logq) : e \in Statements(logq')
<1> DEFINE p == Head(wqueue[t])
<1>1. wqueue[t] \in Seq(WriterMsg) /\ wqueue[t] # <<>> /\ p \in WriterMsg /\ p.Type = "CMD"
  BY DEF TypeInv, TypeOK, WriterOK, AtWriter
<1>2. p \in WriterMsg \ {PingMsg} /\ logq \in Seq(WriterMsg \ {PingMsg}) /\ bstart \in BOOLEAN
  BY <1>1, Cmds DEF TypeInv, TypeOK, LogOK, MainOK
<1>3. wdone[t] # TRUE
  BY DEF AtWriter, TypeInv, TypeOK, WriterOK
<1>4. ~LogTold
  BY <1>3 DEF LogTold, WritersStop, WriterJoined
<1>5. bstart = TRUE /\ ~HasStop(logq) /\ ldone # TRUE
  BY <1>2, <1>4 DEF LogStops
<1>6. logq' = Append(logq, p)
  BY <1>5 DEF RawLog
<1> HIDE DEF p
<1>7. /\ StopLast(logq') /\ ~HasStop(logq')
      /\ \A e \in Statements(logq) : e \in Statements(logq')
      /\ Keyed(p) \in Statements(logq')
  BY <1>1, <1>2, <1>5, <1>6, AppendFacts DEF LogStops
<1>8. LogStops'
  BY <1>5, <1>7 DEF LogStops, LogTold, mainVars
<1> QED
  BY <1>7, <1>8 DEF p
\* Every step keeps the invariant.
LEMMA StepStop == StopInv /\ [Next]_vars => StopInv'
<1> SUFFICES ASSUME StopInv, [Next]_vars PROVE StopInv'
  OBVIOUS
<1> USE StopFrame DEF StopInv
<1>0. TypeInv'
  BY StepTyped
<1>a. StopOrder["running"] = "stopWorkers" /\ StopOrder["stopWorkers"] = "stopWriters"
        /\ StopOrder["stopWriters"] = "stopLog" /\ StopOrder["stopLog"] = "stopped"
  BY DEF StopOrder
<1>b. asked \in BOOLEAN /\ stopAt \in Nat
  BY DEF TypeInv, TypeOK, MainOK
<1>c. \A w \in Worker : phase = "running" => ~WorkerTold(w) /\ ~WorkerJoined(w)
  BY DEF WorkerTold, WorkerJoined
<1>d. \A t \in Writer : phase \in {"running", "stopWorkers"} => ~WriterTold(t) /\ ~WriterJoined(t)
  BY DEF WriterTold, WriterJoined
<1>1. ASSUME NEW r \in Requests, NEW c \in Conn, NEW id \in ConId, Push(r, c, id) PROVE StopInv'
  <2>1. nextThreadId' \in Worker /\ Command(r, c, id) \in WorkerMsg /\ Command(r, c, id).Type # "STOP"
    BY <1>1, <1>0, CommandTyped DEF Push, TypeInv, TypeOK, PoolOK, WorkerCmd, Command
  <2>2. /\ \A v \in Worker : (WorkerTold(v))' = WorkerTold(v)
        /\ \A v \in Worker : (WorkerJoined(v))' = WorkerJoined(v)
    BY <1>1 DEF Push, WorkerTold, WorkerJoined, mainVars
  <2>3. ~WorkerTold(nextThreadId')
    BY <1>1, <2>1, <1>c DEF Push
  <2>4. queue' = [queue EXCEPT ![nextThreadId'] = Append(@, Command(r, c, id))] /\ pc' = pc
    BY <1>1 DEF Push, jobVars
  <2>5. WorkersStop'
    BY <2>1, <2>2, <2>3, <2>4, WorkerGets
  <2> QED
    BY <1>1, <1>0, <2>5 DEF Push, writerVars, logVars, histVars
<1>2. ASSUME PingAll PROVE StopInv'
  <2>1. phase = "running" /\ mainVars' = mainVars /\ pc' = pc /\ wdone' = wdone
    BY <1>2 DEF PingAll, jobVars
  <2>2. ASSUME NEW w \in Worker
        PROVE  StopLast(queue'[w]) /\ ~HasStop(queue'[w]) /\ pc[w] # "done"
    <3>1. queue[w] \in Seq(WorkerMsg) /\ PingMsg \in WorkerMsg /\ PingMsg.Type # "STOP"
      BY Cmds DEF TypeInv, TypeOK, PoolOK
    <3>2. StopLast(queue[w]) /\ ~HasStop(queue[w]) /\ pc[w] # "done"
      BY <2>1, <1>c DEF WorkersStop
    <3>3. queue'[w] = Append(queue[w], PingMsg)
      BY <1>2 DEF PingAll
    <3>4. /\ StopLast(queue[w]) /\ ~HasStop(queue[w]) => StopLast(Append(queue[w], PingMsg))
          /\ HasStop(Append(queue[w], PingMsg)) <=> HasStop(queue[w]) \/ PingMsg.Type = "STOP"
      BY <3>1, AppendFacts
    <3> QED
      BY <3>1, <3>2, <3>3, <3>4
  <2>3. ASSUME NEW t \in Writer
        PROVE  /\ StopLast(wqueue'[t]) /\ ~HasStop(wqueue'[t]) /\ wdone[t] # TRUE
               /\ \A e \in Statements(wqueue[t]) : e \in Statements(wqueue'[t])
    <3>1. wqueue[t] \in Seq(WriterMsg) /\ PingMsg \in WriterMsg /\ PingMsg.Type # "STOP"
      BY Cmds DEF TypeInv, TypeOK, WriterOK
    <3>2. StopLast(wqueue[t]) /\ ~HasStop(wqueue[t]) /\ wdone[t] # TRUE
      BY <2>1, <1>d DEF WritersStop
    <3>3. wqueue'[t] = Append(wqueue[t], PingMsg)
      BY <1>2 DEF PingAll
    <3>4. /\ StopLast(wqueue[t]) /\ ~HasStop(wqueue[t]) => StopLast(Append(wqueue[t], PingMsg))
          /\ HasStop(Append(wqueue[t], PingMsg)) <=> HasStop(wqueue[t]) \/ PingMsg.Type = "STOP"
          /\ \A e : e \in Statements(wqueue[t]) => e \in Statements(Append(wqueue[t], PingMsg))
      BY <3>1, AppendFacts
    <3> QED
      BY <3>1, <3>2, <3>3, <3>4
  <2>4. phase' = "running"
    BY <2>1 DEF mainVars
  <2>5. WorkersStop'
    BY <2>1, <2>2, <2>4 DEF WorkersStop, WorkerJoined
  <2>6. WritersStop'
    BY <2>1, <2>3, <2>4 DEF WritersStop, WriterJoined
  <2>7. Accounted'
    BY <1>2, <2>3, AccountedGrows DEF PingAll, logVars, histVars
  <2> QED
    BY <1>2, <1>0, <2>5, <2>6, <2>7 DEF PingAll
<1>3. ASSUME Quit PROVE StopInv'
  <2>1. phase = "running" /\ phase' = "stopWorkers" /\ stopAt' = 0 /\ asked' = FALSE /\ bstart' = bstart
    BY <1>3, <1>a DEF Quit
  <2>2. queue' = queue /\ pc' = pc /\ wqueue' = wqueue /\ wdone' = wdone /\ logVars' = logVars
    BY <1>3 DEF Quit, poolVars, jobVars, writerVars
  <2>3. MainStops'
    BY <2>1 DEF MainStops
  <2>4. WorkersStop'
    BY <2>1, <2>2, <1>c DEF WorkersStop, WorkerJoined
  <2>5. WritersStop'
    BY <2>1, <2>2, <1>d DEF WritersStop, WriterJoined
  <2>6. LogStops'
    BY <2>1, <2>2 DEF LogStops, LogTold, logVars
  <2> QED
    BY <1>3, <1>0, <2>2, <2>3, <2>4, <2>5, <2>6 DEF Quit, logVars, histVars
<1>4. ASSUME StopWorker PROVE StopInv'
  <2>1. /\ phase = "stopWorkers" /\ asked = FALSE /\ asked' = TRUE
        /\ phase' = phase /\ stopAt' = stopAt /\ bstart' = bstart /\ stopAt \in Worker
    BY <1>4, <1>b DEF StopWorker, MainStops
  <2>2. ~WorkerTold(stopAt) /\ Stop \in WorkerMsg
    BY <2>1, Cmds DEF WorkerTold
  <2>3. /\ \A v \in Worker : WorkerTold(v) => (WorkerTold(v))'
        /\ \A v \in Worker : (WorkerJoined(v))' = WorkerJoined(v)
        /\ (WorkerTold(stopAt))'
    BY <2>1 DEF WorkerTold, WorkerJoined
  <2>4. queue' = [queue EXCEPT ![stopAt] = Append(@, Stop)] /\ pc' = pc
    BY <1>4 DEF StopWorker, jobVars
  <2>5. WorkersStop'
    BY <2>1, <2>2, <2>3, <2>4, WorkerGets
  <2>6. WritersStop'
    BY <1>4, <2>1 DEF StopWorker, WritersStop, WriterTold, WriterJoined, writerVars
  <2>7. LogStops' /\ MainStops'
    BY <1>4, <2>1 DEF StopWorker, LogStops, LogTold, logVars, MainStops
  <2> QED
    BY <1>4, <1>0, <2>5, <2>6, <2>7 DEF StopWorker, writerVars, logVars, histVars
<1>5. ASSUME JoinWorker PROVE StopInv'
  <2>1. /\ phase = "stopWorkers" /\ asked = TRUE /\ asked' = FALSE /\ stopAt \in Worker /\ pc[stopAt] = "done"
        /\ \/ stopAt + 1 < NW /\ stopAt' = stopAt + 1 /\ phase' = phase
           \/ ~(stopAt + 1 < NW) /\ stopAt' = 0 /\ phase' = "stopWriters"
    BY <1>5, <1>a DEF JoinWorker, Joined, MainStops
  <2>2. bstart' = bstart /\ queue' = queue /\ pc' = pc /\ writerVars' = writerVars /\ logVars' = logVars
        /\ wqueue' = wqueue /\ wdone' = wdone
    BY <1>5 DEF JoinWorker, Joined, poolVars, jobVars, writerVars
  <2>3. MainStops'
    BY <2>1 DEF MainStops
  <2>4. /\ \A v \in Worker : WorkerTold(v) => (WorkerTold(v))'
        /\ \A v \in Worker : (WorkerJoined(v))' => WorkerJoined(v) \/ v = stopAt
    BY <2>1 DEF WorkerTold, WorkerJoined
  <2>5. WorkersStop'
    BY <2>1, <2>2, <2>4 DEF WorkersStop
  <2>6. WritersStop'
    BY <2>1, <2>2, <1>d DEF WritersStop, WriterJoined
  <2>7. LogStops'
    BY <2>1, <2>2 DEF LogStops, LogTold, logVars
  <2> QED
    BY <1>5, <1>0, <2>2, <2>3, <2>5, <2>6, <2>7 DEF JoinWorker, Joined, logVars, histVars
<1>6. ASSUME StopWriter PROVE StopInv'
  <2>1. /\ phase = "stopWriters" /\ asked = FALSE /\ asked' = TRUE
        /\ phase' = phase /\ stopAt' = stopAt /\ bstart' = bstart /\ stopAt \in Writer
    BY <1>6, <1>b DEF StopWriter, MainStops
  <2>2. ~WriterTold(stopAt) /\ Stop \in WriterMsg
    BY <2>1, Cmds DEF WriterTold
  <2>3. /\ \A v \in Writer : WriterTold(v) => (WriterTold(v))'
        /\ \A v \in Writer : (WriterJoined(v))' = WriterJoined(v)
        /\ (WriterTold(stopAt))'
    BY <2>1 DEF WriterTold, WriterJoined
  <2>4. wqueue' = [wqueue EXCEPT ![stopAt] = Append(@, Stop)] /\ wdone' = wdone
    BY <1>6 DEF StopWriter
  <2>5. WritersStop'
    BY <2>1, <2>2, <2>3, <2>4, WriterGets
  <2>6. WorkersStop'
    BY <1>6, <2>1 DEF StopWriter, WorkersStop, WorkerTold, WorkerJoined, poolVars, jobVars
  <2>7. LogStops' /\ MainStops'
    BY <1>6, <2>1 DEF StopWriter, LogStops, LogTold, logVars, MainStops
  <2>8. wqueue[stopAt] \in Seq(WriterMsg) /\ wqueue \in [Writer -> Seq(WriterMsg)]
    BY <2>1 DEF TypeInv, TypeOK, WriterOK
  <2>9. \A t \in Writer : \A e \in Statements(wqueue[t]) : e \in Statements(wqueue'[t])
    BY <2>2, <2>4, <2>8, AppendFacts
  <2>10. Accounted'
    BY <1>6, <2>9, AccountedGrows DEF StopWriter, logVars, histVars
  <2> QED
    BY <1>0, <2>5, <2>6, <2>7, <2>10
<1>7. ASSUME JoinWriter PROVE StopInv'
  <2>1. /\ phase = "stopWriters" /\ asked = TRUE /\ asked' = FALSE /\ stopAt \in Writer /\ wdone[stopAt] = TRUE
        /\ \/ stopAt + 1 < NT /\ stopAt' = stopAt + 1 /\ phase' = phase
           \/ ~(stopAt + 1 < NT) /\ stopAt' = 0 /\ phase' = "stopLog"
    BY <1>7, <1>a DEF JoinWriter, Joined, MainStops
  <2>2. bstart' = bstart /\ queue' = queue /\ pc' = pc /\ writerVars' = writerVars /\ logVars' = logVars
        /\ wqueue' = wqueue /\ wdone' = wdone
    BY <1>7 DEF JoinWriter, Joined, poolVars, jobVars, writerVars
  <2>3. MainStops'
    BY <2>1 DEF MainStops
  <2>4. /\ \A v \in Writer : WriterTold(v) => (WriterTold(v))'
        /\ \A v \in Writer : (WriterJoined(v))' => WriterJoined(v) \/ v = stopAt
    BY <2>1 DEF WriterTold, WriterJoined
  <2>5. WritersStop'
    BY <2>1, <2>2, <2>4 DEF WritersStop
  <2>6. WorkersStop'
    BY <2>1, <2>2 DEF WorkersStop, WorkerTold, WorkerJoined
  <2>7. LogStops'
    BY <2>1, <2>2 DEF LogStops, LogTold, logVars
  <2> QED
    BY <1>7, <1>0, <2>2, <2>3, <2>5, <2>6, <2>7 DEF JoinWriter, Joined, logVars, histVars
<1>8. ASSUME StopLog PROVE StopInv'
  <2>1. /\ phase = "stopLog" /\ asked = FALSE /\ asked' = TRUE
        /\ phase' = phase /\ stopAt' = stopAt /\ bstart' = FALSE
    BY <1>8, <1>b DEF StopLog
  <2>2. logq' = Append(logq, Stop) /\ ldone' = ldone /\ logq \in Seq(WriterMsg \ {PingMsg})
        /\ Stop \in WriterMsg \ {PingMsg}
    BY <1>8, Cmds DEF StopLog, TypeInv, TypeOK, LogOK
  <2>3. ~HasStop(logq) /\ ldone # TRUE /\ StopLast(logq)
    BY <2>1 DEF LogStops, LogTold
  <2>4. StopLast(logq') /\ \A e \in Statements(logq) : e \in Statements(logq')
    BY <2>2, <2>3, AppendFacts
  <2>5. LogStops'
    BY <2>1, <2>2, <2>3, <2>4 DEF LogStops, LogTold
  <2>6. WorkersStop'
    BY <1>8, <2>1 DEF StopLog, WorkersStop, WorkerTold, WorkerJoined, poolVars, jobVars
  <2>7. WritersStop' /\ MainStops'
    BY <1>8, <2>1 DEF StopLog, WritersStop, WriterTold, WriterJoined, writerVars, MainStops
  <2>8. Accounted'
    BY <1>8, <2>4, AccountedGrows DEF StopLog, writerVars, histVars
  <2> QED
    BY <1>0, <2>5, <2>6, <2>7, <2>8
<1>9. ASSUME JoinLog PROVE StopInv'
  <2>1. /\ phase = "stopLog" /\ asked = TRUE /\ asked' = FALSE /\ stopAt = 0 /\ ldone = TRUE
        /\ stopAt' = 0 /\ phase' = "stopped" /\ bstart' = bstart
    BY <1>9, <1>a DEF JoinLog, Joined, MainStops
  <2>2. queue' = queue /\ pc' = pc /\ wqueue' = wqueue /\ wdone' = wdone /\ logVars' = logVars
    BY <1>9 DEF JoinLog, Joined, poolVars, jobVars, writerVars
  <2>3. MainStops'
    BY <2>1 DEF MainStops
  <2>4. WorkersStop'
    BY <2>1, <2>2 DEF WorkersStop, WorkerTold, WorkerJoined
  <2>5. WritersStop'
    BY <2>1, <2>2 DEF WritersStop, WriterTold, WriterJoined
  <2>6. LogStops'
    BY <2>1, <2>2 DEF LogStops, LogTold, logVars
  <2> QED
    BY <1>9, <1>0, <2>2, <2>3, <2>4, <2>5, <2>6 DEF JoinLog, Joined, logVars, histVars
<1>10. ASSUME NEW w \in Worker, Take(w) PROVE StopInv'
  <2>1. /\ mainVars' = mainVars /\ pc[w] = "take" /\ queue[w] # <<>>
        /\ queue' = [queue EXCEPT ![w] = Tail(@)]
    BY <1>10 DEF Take
  <2>2. pc' = [pc EXCEPT ![w] = "table"]
    BY <1>10 DEF Take
  <2>4. WorkersStop'
    BY <2>1, <2>2, WorkerTakes
  <2> QED
    BY <1>10, <1>0, <2>4 DEF Take, writerVars, logVars, histVars
<1>11. ASSUME NEW w \in Worker, TakePing(w) PROVE StopInv'
  <2>1. /\ mainVars' = mainVars /\ pc[w] = "take" /\ queue[w] # <<>>
        /\ queue' = [queue EXCEPT ![w] = Tail(@)]
    BY <1>11 DEF TakePing
  <2>2. pc' = [pc EXCEPT ![w] = "take"]
    BY <1>11 DEF TakePing, TypeInv, TypeOK, JobOK, jobVars
  <2>4. WorkersStop'
    BY <2>1, <2>2, WorkerTakes
  <2> QED
    BY <1>11, <1>0, <2>4 DEF TakePing, writerVars, logVars, histVars
<1>12. ASSUME NEW w \in Worker, TakeStop(w) PROVE StopInv'
  <2>1. /\ mainVars' = mainVars /\ pc[w] = "take" /\ queue[w] # <<>>
        /\ queue' = [queue EXCEPT ![w] = Tail(@)]
    BY <1>12 DEF TakeStop
  <2>2. pc' = [pc EXCEPT ![w] = "done"]
    BY <1>12 DEF TakeStop
  <2>3. Head(queue[w]).Type = "STOP"
    BY <1>12 DEF TakeStop
  <2>4. WorkersStop'
    BY <2>1, <2>2, <2>3, WorkerTakes
  <2> QED
    BY <1>12, <1>0, <2>4 DEF TakeStop, writerVars, logVars, histVars
<1>13. ASSUME NEW w \in Worker, SaveToRedis(w) PROVE StopInv'
  <2>1. mainVars' = mainVars /\ queue' = queue /\ pc[w] # "done" /\ pc' = [pc EXCEPT ![w] = "mysql"]
    BY <1>13 DEF SaveToRedis, AtRedis, poolVars
  <2>2. WorkersStop'
    BY <2>1, WorkerGoesOn DEF TypeInv, TypeOK
  <2> QED
    BY <1>13, <1>0, <2>2 DEF SaveToRedis, writerVars, logVars, histVars
<1>14. ASSUME NEW w \in Worker, SaveToRedisRefused(w) PROVE StopInv'
  <2> QED
    BY <1>14, <1>0 DEF SaveToRedisRefused, poolVars, writerVars, logVars, histVars
<1>15. ASSUME NEW w \in Worker, SaveToRedisNoReply(w) PROVE StopInv'
  <2> QED
    BY <1>15, <1>0 DEF SaveToRedisNoReply, poolVars, writerVars, logVars, histVars
<1>16. ASSUME NEW w \in Worker, SaveToRedisReplyLost(w) PROVE StopInv'
  <2> QED
    BY <1>16, <1>0 DEF SaveToRedisReplyLost, poolVars, writerVars, logVars, histVars
<1>17. ASSUME NEW w \in Worker, SaveToMySqlFails(w) PROVE StopInv'
  <2>1. mainVars' = mainVars /\ queue' = queue /\ pc[w] # "done" /\ pc' = [pc EXCEPT ![w] = "table"]
    BY <1>17 DEF SaveToMySqlFails, AtRedis, poolVars
  <2>2. WorkersStop'
    BY <2>1, WorkerGoesOn DEF TypeInv, TypeOK
  <2> QED
    BY <1>17, <1>0, <2>2 DEF SaveToMySqlFails, writerVars, logVars, histVars
<1>18. ASSUME NEW w \in Worker, LoadFromRedis(w) PROVE StopInv'
  <2>1. mainVars' = mainVars /\ queue' = queue /\ pc[w] # "done"
        /\ (pc' = pc \/ pc' = [pc EXCEPT ![w] = "mysql"])
    BY <1>18 DEF LoadFromRedis, AtRedis, poolVars
  <2>2. WorkersStop'
    BY <2>1, WorkerGoesOn DEF TypeInv, TypeOK
  <2> QED
    BY <1>18, <1>0, <2>2 DEF LoadFromRedis, writerVars, logVars, histVars
<1>19. ASSUME NEW w \in Worker, LoadFromMySql(w) PROVE StopInv'
  <2>1. mainVars' = mainVars /\ queue' = queue /\ pc[w] # "done" /\ pc' = [pc EXCEPT ![w] = "table"]
    BY <1>19 DEF LoadFromMySql, AtRedis, poolVars
  <2>2. WorkersStop'
    BY <2>1, WorkerGoesOn DEF TypeInv, TypeOK
  <2> QED
    BY <1>19, <1>0, <2>2 DEF LoadFromMySql, writerVars, logVars, histVars
<1>20. ASSUME NEW w \in Worker, LoadFromMySqlM(w) PROVE StopInv'
  <2>1. mainVars' = mainVars /\ queue' = queue /\ pc[w] # "done" /\ pc' = [pc EXCEPT ![w] = "table"]
    BY <1>20 DEF LoadFromMySqlM, AtRedis, poolVars
  <2>2. WorkersStop'
    BY <2>1, WorkerGoesOn DEF TypeInv, TypeOK
  <2> QED
    BY <1>20, <1>0, <2>2 DEF LoadFromMySqlM, writerVars, logVars, histVars
<1>21. ASSUME NEW w \in Worker, SendReply(w) PROVE StopInv'
  <2>1. mainVars' = mainVars /\ queue' = queue /\ pc[w] # "done" /\ pc' = [pc EXCEPT ![w] = "take"]
    BY <1>21 DEF SendReply, AtRedis, poolVars
  <2>2. WorkersStop'
    BY <2>1, WorkerGoesOn DEF TypeInv, TypeOK
  <2> QED
    BY <1>21, <1>0, <2>2 DEF SendReply, writerVars, logVars, histVars
<1>22. ASSUME NEW w \in Worker, SaveToMySql(w) PROVE StopInv'
  <2> DEFINE saved == out[w][Len(out[w])]
             m == Statement(saved.key, saved.ver, w)
             t == nextWriter'[w]
  <2>1. /\ mainVars' = mainVars /\ queue' = queue /\ pc[w] = "mysql" /\ pc' = [pc EXCEPT ![w] = "table"]
        /\ wqueue' = [wqueue EXCEPT ![t] = Append(@, m)] /\ wdone' = wdone
        /\ accepted' = accepted \cup {Keyed(saved)} /\ applied' = applied
        /\ recover' = recover /\ logq' = logq /\ logVars' = logVars
    BY <1>22 DEF SaveToMySql, poolVars, logVars
  <2>2. WorkersStop'
    BY <2>1, WorkerGoesOn DEF TypeInv, TypeOK
  <2>3. t \in Writer
    BY <1>0 DEF TypeInv, TypeOK
  <2>4. cmd[w].op = "set" /\ out[w] \in Seq(Reply) /\ out[w] # <<>>
    BY <1>22, <2>1 DEF SaveToMySql, TypeInv, TypeOK, JobOK, AtTable
  <2>5. saved \in Reply
    BY <2>4
  <2>6. m \in WriterMsg /\ m.Type = "CMD" /\ Keyed(m) = Keyed(saved)
    BY <2>5, CmdFields, Cmds DEF Reply, Statement, Keyed, WriterCmd
  <2>7. phase \in {"running", "stopWorkers"}
    <3>1. ~WorkerJoined(w)
      BY <2>1 DEF WorkersStop
    <3> QED
      BY <3>1 DEF WorkerJoined, TypeInv, TypeOK, MainOK
  <2> HIDE DEF saved, m, t
  <2>8. ~WriterTold(t)
    BY <2>3, <2>7, <1>d
  <2>9. /\ \A v \in Writer : (WriterTold(v))' = WriterTold(v)
        /\ \A v \in Writer : (WriterJoined(v))' = WriterJoined(v)
    BY <2>1 DEF WriterTold, WriterJoined, mainVars
  <2>10. WritersStop'
    BY <2>1, <2>3, <2>6, <2>8, <2>9, WriterGets
  <2>11. wqueue[t] \in Seq(WriterMsg) /\ wqueue \in [Writer -> Seq(WriterMsg)]
    BY <2>3 DEF TypeInv, TypeOK, WriterOK
  <2>12. /\ \A e \in Statements(wqueue[t]) : e \in Statements(Append(wqueue[t], m))
         /\ Keyed(m) \in Statements(Append(wqueue[t], m))
    BY <2>6, <2>11, AppendFacts
  <2>13. /\ \A v \in Writer : \A e \in Statements(wqueue[v]) : e \in Statements(wqueue'[v])
         /\ Keyed(saved) \in Statements(wqueue'[t])
    <3>1. wqueue'[t] = Append(wqueue[t], m) /\ \A v \in Writer : v # t => wqueue'[v] = wqueue[v]
      BY <2>1, <2>3, <2>11
    <3>2. ASSUME NEW v \in Writer, NEW e \in Statements(wqueue[v]) PROVE e \in Statements(wqueue'[v])
      BY <2>12, <3>1
    <3> QED
      BY <2>6, <2>12, <3>1, <3>2
  <2>14. Accounted'
    BY <2>1, <2>3, <2>13, AccountedGrows
  <2> QED
    BY <1>0, <2>1, <2>2, <2>10, <2>14
<1>23. ASSUME NEW t \in Writer, Execute(t) PROVE StopInv'
  <2>1. /\ mainVars' = mainVars /\ AtWriter(t, "CMD") /\ queue' = queue /\ pc' = pc
        /\ wqueue' = [wqueue EXCEPT ![t] = Tail(@)] /\ wdone' = wdone /\ accepted' = accepted
    BY <1>23 DEF Execute, poolVars, jobVars, histVars
  <2>2. WritersStop'
    BY <2>1, WriterTakes
  <2>3. applied \subseteq applied' /\ Keyed(Head(wqueue[t])) \in applied' /\ logVars' = logVars
    BY <1>23 DEF Execute, Executed
  <2>4. Accounted'
    BY <2>1, <2>3, AccountedTakes DEF logVars
  <2> QED
    BY <1>0, <2>1, <2>2, <2>3, <2>4
<1>24. ASSUME NEW t \in Writer, ExecuteFails(t) PROVE StopInv'
  <2>1. /\ mainVars' = mainVars /\ AtWriter(t, "CMD") /\ queue' = queue /\ pc' = pc
        /\ wqueue' = [wqueue EXCEPT ![t] = Tail(@)] /\ wdone' = wdone /\ accepted' = accepted
    BY <1>24 DEF ExecuteFails, poolVars, jobVars, histVars
  <2>2. WritersStop'
    BY <2>1, WriterTakes
  <2>3. RawLog(Head(wqueue[t])) /\ ldone' = ldone /\ recover' = recover /\ applied \subseteq applied'
    BY <1>24 DEF ExecuteFails, histVars
  <2>4. /\ LogStops'
        /\ Keyed(Head(wqueue[t])) \in Statements(logq')
        /\ \A e \in Statements(logq) : e \in Statements(logq')
    BY <2>1, <2>3, WriterLogs
  <2>5. Accounted'
    BY <2>1, <2>3, <2>4, AccountedTakes
  <2> QED
    BY <1>0, <2>1, <2>2, <2>4, <2>5
<1>25. ASSUME NEW t \in Writer, ExecuteRefused(t) PROVE StopInv'
  <2>1. /\ mainVars' = mainVars /\ AtWriter(t, "CMD") /\ queue' = queue /\ pc' = pc
        /\ wqueue' = [wqueue EXCEPT ![t] = Tail(@)] /\ wdone' = wdone /\ accepted' = accepted
    BY <1>25 DEF ExecuteRefused, poolVars, jobVars, histVars
  <2>2. WritersStop'
    BY <2>1, WriterTakes
  <2>3. RawLog(Head(wqueue[t])) /\ ldone' = ldone /\ recover' = recover /\ applied \subseteq applied'
    BY <1>25 DEF ExecuteRefused, Executed
  <2>4. /\ LogStops'
        /\ Keyed(Head(wqueue[t])) \in Statements(logq')
        /\ \A e \in Statements(logq) : e \in Statements(logq')
    BY <2>1, <2>3, WriterLogs
  <2>5. Accounted'
    BY <2>1, <2>3, <2>4, AccountedTakes
  <2> QED
    BY <1>0, <2>1, <2>2, <2>4, <2>5
<1>26. ASSUME NEW t \in Writer, WriterPing(t) PROVE StopInv'
  <2>1. /\ mainVars' = mainVars /\ AtWriter(t, "PING") /\ queue' = queue /\ pc' = pc
        /\ wqueue' = [wqueue EXCEPT ![t] = Tail(@)] /\ wdone' = wdone /\ accepted' = accepted
    BY <1>26 DEF WriterPing, poolVars, jobVars, histVars
  <2>2. WritersStop'
    BY <2>1, WriterTakes
  <2>3. applied' = applied /\ logVars' = logVars
    BY <1>26 DEF WriterPing, histVars
  <2>4. Accounted'
    BY <2>1, <2>3, AccountedTakes DEF logVars
  <2> QED
    BY <1>0, <2>1, <2>2, <2>3, <2>4
<1>27. ASSUME NEW t \in Writer, WriterStop(t) PROVE StopInv'
  <2>1. /\ mainVars' = mainVars /\ AtWriter(t, "STOP") /\ queue' = queue /\ pc' = pc
        /\ wqueue' = [wqueue EXCEPT ![t] = Tail(@)] /\ wdone' = [wdone EXCEPT ![t] = TRUE] /\ accepted' = accepted
    BY <1>27 DEF WriterStop, poolVars, jobVars, histVars
  <2>2. WritersStop'
    BY <2>1, WriterTakes
  <2>3. applied' = applied /\ logVars' = logVars
    BY <1>27 DEF WriterStop, histVars
  <2>4. Accounted'
    BY <2>1, <2>3, AccountedTakes DEF logVars
  <2> QED
    BY <1>0, <2>1, <2>2, <2>3, <2>4
<1>28. ASSUME LogStep PROVE StopInv'
  <2>1. /\ mainVars' = mainVars /\ ldone # TRUE /\ logq # <<>> /\ logq' = Tail(logq)
        /\ logq \in Seq(WriterMsg \ {PingMsg})
    <3>1. ldone \in BOOLEAN /\ logq \in Seq(WriterMsg \ {PingMsg})
      BY DEF TypeInv, TypeOK, LogOK
    <3>2. ~ldone /\ logq # <<>> /\ logq' = Tail(logq) /\ mainVars' = mainVars
      BY <1>28 DEF LogStep
    <3> QED
      BY <3>1, <3>2
  <2>2. /\ StopLast(logq) => StopLast(logq')
        /\ HasStop(logq') => HasStop(logq)
        /\ Head(logq).Type = "STOP" => HasStop(logq)
        /\ StopLast(logq) /\ Head(logq).Type = "STOP" => logq' = <<>>
        /\ \A e : e \in Statements(logq) =>
               e \in Statements(logq') \/ (Head(logq).Type = "CMD" /\ e = Keyed(Head(logq)))
    BY <2>1, TailFacts
  <2>3. LogStops'
    <3>1. bstart' = bstart /\ LogTold' = LogTold /\ phase' = phase
      BY <2>1 DEF mainVars, LogTold
    <3>2. CASE Head(logq).Type = "STOP"
      <4>1. ldone' = TRUE
        BY <1>28, <3>2 DEF LogStep
      <4> QED
        BY <2>1, <2>2, <3>1, <3>2, <4>1 DEF LogStops
    <3>3. CASE Head(logq).Type # "STOP"
      <4>1. ldone' = ldone
        BY <1>28, <3>3 DEF LogStep
      <4> QED
        BY <2>1, <2>2, <3>1, <4>1 DEF LogStops
    <3> QED
      BY <3>2, <3>3
  <2>4. recover \subseteq recover' /\ (Head(logq).Type = "CMD" => Keyed(Head(logq)) \in recover')
    BY <1>28 DEF LogStep
  <2>5. accepted' = accepted /\ applied' = applied /\ wqueue' = wqueue
    BY <1>28 DEF LogStep, histVars, writerVars
  <2>6. Accounted'
    BY <2>2, <2>4, <2>5 DEF Accounted
  <2> QED
    BY <1>28, <1>0, <2>3, <2>6 DEF LogStep, poolVars, jobVars
<1>29. ASSUME RedisDown PROVE StopInv'
  BY <1>29, <1>0 DEF RedisDown, internalVars, poolVars, jobVars, writerVars, logVars
<1>30. ASSUME RedisBack PROVE StopInv'
  BY <1>30, <1>0 DEF RedisBack, internalVars, poolVars, jobVars, writerVars, logVars
<1>31. ASSUME MySqlDown PROVE StopInv'
  BY <1>31, <1>0 DEF MySqlDown, internalVars, poolVars, jobVars, writerVars, logVars
<1>32. ASSUME MySqlBack PROVE StopInv'
  BY <1>32, <1>0 DEF MySqlBack, internalVars, poolVars, jobVars, writerVars, logVars
<1>33. ASSUME NEW k \in Key, RedisForgets(k) PROVE StopInv'
  BY <1>33, <1>0 DEF RedisForgets, internalVars, poolVars, jobVars, writerVars, logVars
<1>36. ASSUME NEW w \in Worker, LoadFromRedisRefused(w) PROVE StopInv'
  <2>1. mainVars' = mainVars /\ queue' = queue /\ pc[w] # "done" /\ pc' = [pc EXCEPT ![w] = "mysql"]
    BY <1>36 DEF LoadFromRedisRefused, AtRedis, poolVars
  <2>2. WorkersStop'
    BY <2>1, WorkerGoesOn DEF TypeInv, TypeOK
  <2> QED
    BY <1>36, <1>0, <2>2 DEF LoadFromRedisRefused, writerVars, logVars
<1>37. ASSUME NEW w \in Worker, LoadFromMySqlUntyped(w) PROVE StopInv'
  <2>1. mainVars' = mainVars /\ queue' = queue /\ pc[w] # "done" /\ pc' = [pc EXCEPT ![w] = "table"]
    BY <1>37 DEF LoadFromMySqlUntyped, poolVars
  <2>2. WorkersStop'
    BY <2>1, WorkerGoesOn DEF TypeInv, TypeOK
  <2> QED
    BY <1>37, <1>0, <2>2 DEF LoadFromMySqlUntyped, writerVars, logVars, histVars
<1>38. ASSUME NEW s \in {"redis", "mysql"}, Silence(s) \/ Answers(s) PROVE StopInv'
  BY <1>38, <1>0 DEF Silence, Answers, internalVars, poolVars, jobVars, writerVars, logVars
<1>34. ASSUME Crash PROVE StopInv'
  <2>1. phase' = "running" /\ stopAt' = 0 /\ bstart' = TRUE
    BY <1>34 DEF Crash
  <2>2. MainStops' 
    BY <2>1 DEF MainStops
  <2>3. WorkersStop'
    BY <1>34, <2>1, EmptyFacts DEF Crash, WorkersStop, WorkerTold, WorkerJoined
  <2>4. WritersStop'
    BY <1>34, <2>1, EmptyFacts DEF Crash, WritersStop, WriterTold, WriterJoined
  <2>5. LogStops'
    BY <1>34, <2>1, EmptyFacts DEF Crash, LogStops, LogTold
  <2>6. Accounted'
    BY <1>34 DEF Crash, Accounted
  <2> QED
    BY <1>0, <2>2, <2>3, <2>4, <2>5, <2>6
<1>35. CASE UNCHANGED vars
  BY <1>35, <1>0 DEF vars, poolVars, jobVars, writerVars, logVars, histVars
<1> QED
  BY <1>1, <1>2, <1>3, <1>4, <1>5, <1>6, <1>7, <1>8, <1>9, <1>10, <1>11, <1>12, <1>13,
     <1>14, <1>15, <1>16, <1>17, <1>18, <1>19, <1>20, <1>21, <1>22, <1>23, <1>24, <1>25,
     <1>26, <1>27, <1>28, <1>29, <1>30, <1>31, <1>32, <1>33, <1>34, <1>35, <1>36, <1>37,
     <1>38
     DEF Next, Main, WorkerStep, WriterStep, Environment, Terminated

\* GracefulStopDrains holds of every behaviour of Spec: when main returns, no
\* request is left in a worker's queue, and no write handed to a writer is
\* missing from both MySQL and what the log thread has taken for the recover file,
\* because DBSrv::stop takes the pools down in the order in which they feed each
\* other.
THEOREM StopDrains == Spec => []GracefulStopDrains
<1>1. Init => StopInv
  BY InitStop
<1>2. StopInv /\ [Next]_vars => StopInv'
  BY StepStop
<1>3. StopInv => GracefulStopDrains
  <2> SUFFICES ASSUME StopInv, phase = "stopped" 
               PROVE  /\ \A w \in Worker : queue[w] = <<>> /\ pc[w] = "done"
                      /\ accepted \subseteq applied \cup recover
    BY DEF GracefulStopDrains
  <2>1. \A w \in Worker : pc[w] = "done" /\ queue[w] = <<>>
    BY DEF StopInv, WorkersStop, WorkerJoined
  <2>2. \A t \in Writer : wqueue[t] = <<>>
    BY DEF StopInv, WritersStop, WriterJoined
  <2>3. logq = <<>>
    BY DEF StopInv, LogStops
  <2> QED
    BY <2>1, <2>2, <2>3, EmptyFacts DEF StopInv, Accounted
<1> QED
  BY <1>1, <1>2, <1>3, PTL DEF Spec

-----------------------------------------------------------------------------
(***************************************************************************)
(* The order of the writes of DBSrvStore, for any number of threads, keys, *)
(* outages and crashes: no two places hold the same value, a writer's      *)
(* queue holds the values of one worker in the order redis took them, and  *)
(* what has been acknowledged is what redis answers with. From these: the  *)
(* store implements WriteBehind, SameLaneInOrder and NoStaleRead.          *)
(***************************************************************************)

HIDE StoreAssumption DEF Worker, Writer

\* The values that wait in a queue, and those of one worker among them.
Vers(q) == {q[i].ver : i \in {j \in DOMAIN q : q[j].Type = "CMD"}}
VersBy(q, w) == {q[i].ver : i \in {j \in DOMAIN q : q[j].Type = "CMD" /\ q[j].by = w}}

\* No value waits twice in a queue; those of one worker wait in their order.
NoDup(q) ==
    \A i, j \in DOMAIN q :
        i < j /\ q[i].Type = "CMD" /\ q[j].Type = "CMD" => q[i].ver # q[j].ver
InOrder(q) ==
    \A i, j \in DOMAIN q :
        i < j /\ q[i].Type = "CMD" /\ q[j].Type = "CMD" /\ q[i].by = q[j].by
            => q[i].ver < q[j].ver

\* The value a worker has put into redis and has not yet handed to a writer.
Held(w) == IF pc[w] = "mysql" /\ cmd[w].op = "set" THEN {out[w][Len(out[w])].ver} ELSE {}

\* Every value anywhere has been handed out by the clock.
Bounded ==
    /\ \A k \in Key : redis[k] <= clock /\ mysql[k] <= clock
    /\ \A w \in Worker : Held(w) \subseteq 0 .. clock
    /\ \A t \in Writer : Vers(wqueue[t]) \subseteq 0 .. clock
    /\ Vers(logq) \subseteq 0 .. clock

\* A value is in one place on its way to MySQL.
Apart ==
    /\ \A w, x \in Worker : w # x => Held(w) \cap Held(x) = {}
    /\ \A w \in Worker, t \in Writer : Held(w) \cap Vers(wqueue[t]) = {}
    /\ \A t, u \in Writer : t # u => Vers(wqueue[t]) \cap Vers(wqueue[u]) = {}
    /\ \A w \in Worker : Held(w) \cap Vers(logq) = {}
    /\ \A t \in Writer : Vers(wqueue[t]) \cap Vers(logq) = {}
Once == NoDup(logq) /\ \A t \in Writer : NoDup(wqueue[t]) /\ InOrder(wqueue[t])

\* What comes through a pair of worker and writer comes in order, up to the row
\* it was the last to store.
InLane ==
    \A w \in Worker, t \in Writer :
        /\ \A v \in VersBy(wqueue[t], w), s \in Held(w) : v < s
        /\ \A k \in Key : lane[k] = <<w, t>> =>
              \A v \in VersBy(wqueue[t], w) \cup Held(w) : mysql[k] < v

VerInv == Bounded /\ Apart /\ Once /\ InLane

-----------------------------------------------------------------------------
(* Queues *)

\* A queue p that holds nothing queue q does not hold, in no other order.
Shrinks(p, q) ==
    /\ Vers(p) \subseteq Vers(q)
    /\ \A w : VersBy(p, w) \subseteq VersBy(q, w)
    /\ NoDup(q) => NoDup(p)
    /\ InOrder(q) => InOrder(p)

LEMMA ShrinksSame == \A q : Shrinks(q, q) /\ Shrinks(<<>>, q)
BY DEF Shrinks, Vers, VersBy, NoDup, InOrder

\* What Append does to the values of a queue.
LEMMA AppendVers ==
    ASSUME NEW T, NEW q \in Seq(T), NEW m \in T
    PROVE  /\ m.Type # "CMD" => Shrinks(Append(q, m), q)
           /\ \A v \in Vers(Append(q, m)) : v \in Vers(q) \/ v = m.ver
           /\ \A w : \A v \in VersBy(Append(q, m), w) : v \in VersBy(q, w) \/ (v = m.ver /\ m.by = w)
           /\ NoDup(q) /\ m.ver \notin Vers(q) => NoDup(Append(q, m))
           /\ InOrder(q) /\ (\A v \in VersBy(q, m.by) : v < m.ver) => InOrder(Append(q, m))
<1> DEFINE r == Append(q, m)
<1>1. /\ DOMAIN r = 1 .. Len(q) + 1 /\ Len(r) = Len(q) + 1 /\ Len(q) \in Nat
      /\ DOMAIN q = 1 .. Len(q)
      /\ \A i \in 1 .. Len(q) : r[i] = q[i]
      /\ r[Len(q) + 1] = m
  OBVIOUS
<1>2. \A i \in DOMAIN r : (i \in DOMAIN q /\ r[i] = q[i]) \/ (i = Len(q) + 1 /\ r[i] = m)
  BY <1>1
<1> HIDE DEF r
<1>3. \A v \in Vers(r) : v \in Vers(q) \/ (v = m.ver /\ m.Type = "CMD")
  BY <1>2 DEF Vers
<1>4. \A w : \A v \in VersBy(r, w) : v \in VersBy(q, w) \/ (v = m.ver /\ m.by = w /\ m.Type = "CMD")
  BY <1>2 DEF VersBy
<1>5. NoDup(q) /\ (m.Type # "CMD" \/ m.ver \notin Vers(q)) => NoDup(r)
  <2> SUFFICES ASSUME NoDup(q), m.Type # "CMD" \/ m.ver \notin Vers(q),
                      NEW i \in DOMAIN r, NEW j \in DOMAIN r, i < j,
                      r[i].Type = "CMD", r[j].Type = "CMD"
               PROVE  r[i].ver # r[j].ver
    BY DEF NoDup
  <2>1. i \in DOMAIN q /\ r[i] = q[i]
    BY <1>1
  <2>2. CASE j \in DOMAIN q
    BY <1>1, <2>1, <2>2 DEF NoDup
  <2>3. CASE j \notin DOMAIN q
    BY <1>2, <2>1, <2>3 DEF Vers
  <2> QED
    BY <2>2, <2>3
<1>6. InOrder(q) /\ (m.Type # "CMD" \/ \A v \in VersBy(q, m.by) : v < m.ver) => InOrder(r)
  <2> SUFFICES ASSUME InOrder(q), m.Type # "CMD" \/ \A v \in VersBy(q, m.by) : v < m.ver,
                      NEW i \in DOMAIN r, NEW j \in DOMAIN r, i < j,
                      r[i].Type = "CMD", r[j].Type = "CMD", r[i].by = r[j].by
               PROVE  r[i].ver < r[j].ver
    BY DEF InOrder
  <2>1. i \in DOMAIN q /\ r[i] = q[i]
    BY <1>1
  <2>2. CASE j \in DOMAIN q
    BY <1>1, <2>1, <2>2 DEF InOrder
  <2>3. CASE j \notin DOMAIN q
    BY <1>2, <2>1, <2>3 DEF VersBy
  <2> QED
    BY <2>2, <2>3
<1>7. m.Type # "CMD" => Shrinks(r, q)
  BY <1>3, <1>4, <1>5, <1>6 DEF Shrinks
<1> QED
  BY <1>3, <1>4, <1>5, <1>6, <1>7 DEF r

\* What taking the head does to them.
LEMMA TailVers ==
    ASSUME NEW T, NEW q \in Seq(T), q # <<>>
    PROVE  /\ Shrinks(Tail(q), q)
           /\ Head(q).Type = "CMD" => /\ Head(q).ver \in Vers(q)
                                      /\ Head(q).ver \in VersBy(q, Head(q).by)
           /\ Head(q).Type = "CMD" /\ NoDup(q) => Head(q).ver \notin Vers(Tail(q))
           /\ Head(q).Type = "CMD" /\ InOrder(q) =>
                  \A v \in VersBy(Tail(q), Head(q).by) : Head(q).ver < v
<1> DEFINE r == Tail(q)
<1>1. /\ Len(q) \in Nat \ {0} /\ DOMAIN q = 1 .. Len(q) /\ DOMAIN r = 1 .. Len(q) - 1
      /\ \A i \in 1 .. Len(q) - 1 : r[i] = q[i + 1]
      /\ Head(q) = q[1]
  <2>1. Len(q) \in Nat /\ Len(q) # 0 /\ DOMAIN q = 1 .. Len(q)
    OBVIOUS
  <2>2. Tail(q) \in Seq(T) /\ Len(Tail(q)) = Len(q) - 1 /\ Head(q) = q[1]
    BY <2>1
  <2>3. DOMAIN Tail(q) = 1 .. Len(q) - 1
    BY <2>1, <2>2
  <2>4. \A i \in 1 .. Len(q) - 1 : Tail(q)[i] = q[i + 1]
    BY <2>1
  <2> QED
    BY <2>1, <2>2, <2>3, <2>4
<1>2. \A i \in DOMAIN r : i + 1 \in DOMAIN q /\ r[i] = q[i + 1] /\ 1 < i + 1
  BY <1>1
<1>3. 1 \in DOMAIN q
  BY <1>1
<1> HIDE DEF r
<1>4. Vers(r) \subseteq Vers(q) /\ \A w : VersBy(r, w) \subseteq VersBy(q, w)
  BY <1>2 DEF Vers, VersBy
<1>5. NoDup(q) => NoDup(r)
  BY <1>1, <1>2 DEF NoDup
<1>6. InOrder(q) => InOrder(r)
  BY SMTT(30), <1>1, <1>2 DEF InOrder
<1>7. Head(q).Type = "CMD" => Head(q).ver \in Vers(q) /\ Head(q).ver \in VersBy(q, Head(q).by)
  BY <1>1, <1>3 DEF Vers, VersBy
<1>8. Head(q).Type = "CMD" /\ NoDup(q) => Head(q).ver \notin Vers(r)
  BY <1>1, <1>2, <1>3 DEF Vers, NoDup
<1>9. Head(q).Type = "CMD" /\ InOrder(q) => \A v \in VersBy(r, Head(q).by) : Head(q).ver < v
  BY <1>1, <1>2, <1>3 DEF VersBy, InOrder
<1> QED
  BY <1>4, <1>5, <1>6, <1>7, <1>8, <1>9 DEF r, Shrinks

\* An empty queue holds no value; what waits for one worker waits.
LEMMA VersFacts ==
    /\ Vers(<<>>) = {} /\ (\A w : VersBy(<<>>, w) = {}) /\ NoDup(<<>>) /\ InOrder(<<>>)
    /\ \A q, w : VersBy(q, w) \subseteq Vers(q)
    /\ \A q : \A e \in Statements(q) : e.ver \in Vers(q)
BY DEF Vers, VersBy, NoDup, InOrder, Statements, Keyed

-----------------------------------------------------------------------------
(* The invariant is inductive *)

LEMMA InitVers == Init => VerInv
<1> SUFFICES ASSUME Init PROVE VerInv
  OBVIOUS
<1>1. /\ \A w \in Worker : pc[w] = "take"
      /\ \A t \in Writer : wqueue[t] = <<>>
      /\ logq = <<>> /\ clock = 1
      /\ \A k \in Key : redis[k] = 0 /\ lane[k] = <<0, 0>>
  BY DEF Init
<1>2. \A k \in Key : mysql[k] \in {0, 1}
  BY DEF Init
<1>3. \A w \in Worker : Held(w) = {}
  BY <1>1 DEF Held
<1> USE VersFacts
<1>4. Bounded
  BY <1>1, <1>2, <1>3 DEF Bounded
<1>5. Apart
  BY <1>1, <1>3 DEF Apart
<1>6. Once
  BY <1>1 DEF Once
<1>7. InLane
  BY <1>1, <1>3 DEF InLane
<1> QED
  BY <1>4, <1>5, <1>6, <1>7 DEF VerInv

\* A step that puts no value anywhere and stores none keeps the invariant.
LEMMA VersFrame ==
    ASSUME VerInv, TypeInv, TypeInv', clock <= clock',
           \A k \in Key : redis'[k] <= clock',
           mysql' = mysql, lane' = lane,
           \A w \in Worker : (Held(w))' \subseteq Held(w),
           \A t \in Writer : Shrinks(wqueue'[t], wqueue[t]),
           Shrinks(logq', logq)
    PROVE  VerInv'
<1>1. clock \in Nat /\ clock' \in Nat /\ \A k \in Key : mysql[k] \in Nat
  BY DEF TypeInv, TypeOK, HistOK, MySqlOK
<1>2. 0 .. clock \subseteq 0 .. clock'
  BY <1>1
<1>3. Bounded'
  BY <1>1, <1>2 DEF Bounded, VerInv, Shrinks
<1>4. Apart'
  BY DEF Apart, VerInv, Shrinks
<1>5. Once'
  BY DEF Once, VerInv, Shrinks
<1>6. InLane'
  BY DEF InLane, VerInv, Shrinks
<1> QED
  BY <1>3, <1>4, <1>5, <1>6 DEF VerInv

\* A worker that does not come from redis with a value of its own holds no new one.
LEMMA HeldFrame ==
    ASSUME NEW w \in Worker,
           \A x \in Worker : x # w => pc'[x] = pc[x] /\ cmd'[x] = cmd[x] /\ out'[x] = out[x],
           pc'[w] # "mysql" \/ cmd'[w].op # "set" 
    PROVE  \A x \in Worker : (Held(x))' \subseteq Held(x)
BY DEF Held

LEMMA HeldSame ==
    jobVars' = jobVars => \A x \in Worker : (Held(x))' \subseteq Held(x)
BY DEF Held, jobVars

\* Redis takes the value of a set: it is newer than any other.
LEMMA SaveVers ==
    ASSUME VerInv, TypeInv, TypeInv', NEW w \in Worker, SaveToRedis(w)
    PROVE  VerInv'
<1>1. /\ clock \in Nat /\ clock' = clock + 1 /\ clock' \in Nat
      /\ mysql' = mysql /\ lane' = lane /\ wqueue' = wqueue /\ logq' = logq
      /\ \A k \in Key : redis[k] \in Nat /\ mysql[k] \in Nat
  BY DEF SaveToRedis, TypeInv, TypeOK, HistOK, mysqlVars, writerVars, logVars, RedisOK, MySqlOK
<1>2. \A k \in Key : redis'[k] <= clock'
  BY <1>1 DEF SaveToRedis, VerInv, Bounded, TypeInv, TypeOK, RedisOK
<1>3. \A x \in Worker : x # w => Held(x)' = Held(x)
  <2>1. \A x \in Worker : x # w => pc'[x] = pc[x] /\ cmd'[x] = cmd[x] /\ out'[x] = out[x]
    BY DEF SaveToRedis, Answer, TypeInv, TypeOK, JobOK
  <2> QED
    BY <2>1 DEF Held
<1>4. Held(w)' = {clock'}
  <2>1. pc'[w] = "mysql" /\ cmd'[w].op = "set" /\ out[w] \in Seq(Reply)
        /\ out'[w] = Append(out[w], [key |-> KeyOf(w), status |-> "OK", ver |-> clock',
                                     past |-> LookedPast(w)])
    BY DEF SaveToRedis, Answer, AtRedis, TypeInv, TypeOK, JobOK
  <2>2. out'[w][Len(out'[w])] = [key |-> KeyOf(w), status |-> "OK", ver |-> clock',
                                  past |-> LookedPast(w)]
    BY <2>1
  <2> QED
    BY <2>1, <2>2 DEF Held
<1>5. Bounded /\ Apart /\ Once /\ InLane
  BY DEF VerInv
<1>6. Bounded'
  <2>1. \A x \in Worker : (Held(x))' \subseteq 0 .. clock'
    BY <1>1, <1>3, <1>4, <1>5 DEF Bounded
  <2>2. 0 .. clock \subseteq 0 .. clock'
    BY <1>1
  <2> QED
    BY <1>1, <1>2, <1>5, <2>1, <2>2 DEF Bounded
<1>7. /\ \A x \in Worker : clock' \notin Held(x)
      /\ \A t \in Writer : clock' \notin Vers(wqueue[t])
      /\ clock' \notin Vers(logq)
  BY <1>1, <1>5 DEF Bounded
<1>8. Apart'
  <2>1. ASSUME NEW x \in Worker, NEW y \in Worker, x # y PROVE Held(x)' \cap Held(y)' = {}
    BY <1>3, <1>4, <1>5, <1>7, <2>1 DEF Apart
  <2>2. ASSUME NEW x \in Worker, NEW t \in Writer PROVE Held(x)' \cap Vers(wqueue'[t]) = {}
    BY <1>1, <1>3, <1>4, <1>5, <1>7 DEF Apart
  <2>3. ASSUME NEW x \in Worker PROVE Held(x)' \cap Vers(logq') = {}
    BY <1>1, <1>3, <1>4, <1>5, <1>7 DEF Apart
  <2>4. /\ \A t, u \in Writer : t # u => Vers(wqueue'[t]) \cap Vers(wqueue'[u]) = {}
        /\ \A t \in Writer : Vers(wqueue'[t]) \cap Vers(logq') = {}
    BY <1>1, <1>5 DEF Apart
  <2> QED
    BY <2>1, <2>2, <2>3, <2>4 DEF Apart
<1>9. Once'
  BY <1>1, <1>5 DEF Once
<1>10. \A k \in Key : mysql[k] < clock'
  BY <1>1, <1>5 DEF Bounded
<1>11. \A t \in Writer : \A v \in VersBy(wqueue[t], w) : v < clock'
  BY <1>1, <1>5, VersFacts DEF Bounded
<1>12. InLane'
  BY <1>1, <1>3, <1>4, <1>5, <1>10, <1>11 DEF InLane
<1> QED
  BY <1>6, <1>8, <1>9, <1>12 DEF VerInv

\* A worker hands its value to a writer: behind its earlier ones.
LEMMA HandVers ==
    ASSUME VerInv, TypeInv, TypeInv', NEW w \in Worker, SaveToMySql(w)
    PROVE  VerInv'
<1> DEFINE saved == out[w][Len(out[w])]
           m == Statement(saved.key, saved.ver, w)
           t == nextWriter'[w]
<1>1. /\ pc[w] = "mysql" /\ cmd[w].op = "set" /\ pc' = [pc EXCEPT ![w] = "table"]
      /\ wqueue' = [wqueue EXCEPT ![t] = Append(@, m)]
      /\ cmd' = cmd /\ out' = out /\ clock' = clock /\ redis' = redis
      /\ mysql' = mysql /\ lane' = lane /\ logq' = logq
  BY DEF SaveToMySql, redisVars, mysqlVars, logVars
<1>2. t \in Writer /\ wqueue[t] \in Seq(WriterMsg) /\ wqueue \in [Writer -> Seq(WriterMsg)]
  BY DEF TypeInv, TypeOK, WriterOK
<1>3. out[w] \in Seq(Reply) /\ out[w] # <<>>
  BY <1>1 DEF TypeInv, TypeOK, JobOK, AtTable
<1>4. saved \in Reply
  BY <1>3
<1>5. m \in WriterMsg /\ m.Type = "CMD" /\ m.ver = saved.ver /\ m.by = w
  BY <1>4, CmdFields DEF Reply, Statement, WriterCmd
<1>6. Held(w) = {m.ver}
  BY <1>1, <1>5 DEF Held
<1>7. Held(w)' = {} /\ \A x \in Worker : x # w => Held(x)' = Held(x)
  BY <1>1 DEF Held, TypeInv, TypeOK, JobOK
<1> HIDE DEF saved, m, t
<1>8. wqueue'[t] = Append(wqueue[t], m) /\ \A u \in Writer : u # t => wqueue'[u] = wqueue[u]
  BY <1>1, <1>2
<1>9. /\ \A v \in Vers(wqueue'[t]) : v \in Vers(wqueue[t]) \/ v = m.ver
      /\ \A x : \A v \in VersBy(wqueue'[t], x) : v \in VersBy(wqueue[t], x) \/ (v = m.ver /\ m.by = x)
      /\ NoDup(wqueue[t]) /\ m.ver \notin Vers(wqueue[t]) => NoDup(wqueue'[t])
      /\ InOrder(wqueue[t]) /\ (\A v \in VersBy(wqueue[t], m.by) : v < m.ver) => InOrder(wqueue'[t])
  BY <1>2, <1>5, <1>8, AppendVers
<1>10. Bounded /\ Apart /\ Once /\ InLane
  BY DEF VerInv
<1>11. m.ver \in 0 .. clock
  BY <1>6, <1>10 DEF Bounded
<1>12. Bounded'
  BY <1>1, <1>7, <1>8, <1>9, <1>10, <1>11 DEF Bounded
<1>13. Apart'
  <2>1. ASSUME NEW x \in Worker, NEW y \in Worker, x # y PROVE Held(x)' \cap Held(y)' = {}
    BY <1>7, <1>10, <2>1 DEF Apart
  <2>2. ASSUME NEW x \in Worker, NEW u \in Writer PROVE Held(x)' \cap Vers(wqueue'[u]) = {}
    BY ZenonT(30), <1>6, <1>7, <1>8, <1>9, <1>10 DEF Apart
  <2>3. ASSUME NEW x \in Worker PROVE Held(x)' \cap Vers(logq') = {}
    BY <1>1, <1>7, <1>10 DEF Apart
  <2>4. ASSUME NEW u \in Writer, NEW v \in Writer, u # v
        PROVE  Vers(wqueue'[u]) \cap Vers(wqueue'[v]) = {}
    BY <1>6, <1>8, <1>9, <1>10, <2>4 DEF Apart
  <2>5. ASSUME NEW u \in Writer PROVE Vers(wqueue'[u]) \cap Vers(logq') = {}
    BY <1>1, <1>6, <1>8, <1>9, <1>10 DEF Apart
  <2> QED
    BY <2>1, <2>2, <2>3, <2>4, <2>5 DEF Apart
<1>14. Once'
  BY <1>1, <1>2, <1>5, <1>6, <1>8, <1>9, <1>10 DEF Once, Apart, InLane
<1>15. InLane'
  <2> SUFFICES ASSUME NEW x \in Worker, NEW u \in Writer
               PROVE  /\ \A v \in VersBy(wqueue'[u], x), s \in Held(x)' : v < s
                      /\ \A k \in Key : lane'[k] = <<x, u>> =>
                            \A v \in VersBy(wqueue'[u], x) \cup Held(x)' : mysql'[k] < v
    BY DEF InLane
  <2>1. Held(x)' \subseteq Held(x)
    BY <1>7
  <2>2. \A v \in VersBy(wqueue'[u], x) : v \in VersBy(wqueue[u], x) \/ (x = w /\ v \in Held(x))
    BY <1>5, <1>6, <1>8, <1>9
  <2>3. x = w => Held(x)' = {}
    BY <1>7
  <2>4. \A v \in VersBy(wqueue'[u], x), s \in Held(x)' : v < s
    BY <1>10, <2>1, <2>2, <2>3 DEF InLane
  <2>5. ASSUME NEW k \in Key, lane'[k] = <<x, u>>, NEW v \in VersBy(wqueue'[u], x) \cup Held(x)'
        PROVE  mysql'[k] < v
    <3>1. v \in VersBy(wqueue[u], x) \cup Held(x)
      BY <2>1, <2>2
    <3> QED
      BY <1>1, <1>10, <2>5, <3>1 DEF InLane
  <2> QED
    BY <2>4, <2>5
<1> QED
  BY <1>12, <1>13, <1>14, <1>15 DEF VerInv

\* A writer is through with a statement: its value is stored, or logged, or both.
LEMMA WriteVers ==
    ASSUME VerInv, TypeInv, TypeInv', NEW t \in Writer, AtWriter(t, "CMD"),
           wqueue' = [wqueue EXCEPT ![t] = Tail(@)],
           logq' = logq \/ RawLog(Head(wqueue[t])),
           Executed(Head(wqueue[t]), t) \/ (mysql' = mysql /\ lane' = lane),
           jobVars' = jobVars, clock' = clock, redis' = redis
    PROVE  VerInv'
<1> DEFINE p == Head(wqueue[t])
<1>1. wqueue[t] \in Seq(WriterMsg) /\ wqueue \in [Writer -> Seq(WriterMsg)] /\ wqueue[t] # <<>>
  BY DEF TypeInv, TypeOK, WriterOK, AtWriter
<1>2. p \in WriterMsg /\ p.Type = "CMD"
  BY <1>1 DEF AtWriter
<1>3. p \in WriterMsg \ {PingMsg} /\ p.key \in Key /\ p.ver \in Nat /\ p.by \in Worker
  BY <1>2, Cmds, CmdFields
<1>4. wqueue'[t] = Tail(wqueue[t]) /\ \A u \in Writer : u # t => wqueue'[u] = wqueue[u]
  BY <1>1
<1>5. Bounded /\ Apart /\ Once /\ InLane
  BY DEF VerInv
<1>6. NoDup(wqueue[t]) /\ InOrder(wqueue[t])
  BY <1>5 DEF Once
<1>7. /\ Shrinks(wqueue'[t], wqueue[t])
      /\ p.ver \in Vers(wqueue[t]) /\ p.ver \in VersBy(wqueue[t], p.by)
      /\ p.ver \notin Vers(wqueue'[t])
      /\ \A v \in VersBy(wqueue'[t], p.by) : p.ver < v
  BY <1>1, <1>2, <1>4, <1>6, TailVers
<1>8. \A u \in Writer : Shrinks(wqueue'[u], wqueue[u])
  BY <1>4, <1>7, ShrinksSame
<1>9. \A x \in Worker : Held(x)' = Held(x)
  BY DEF Held, jobVars
<1>10. p.ver \notin Vers(logq)
  BY <1>5, <1>7 DEF Apart
<1>11. logq \in Seq(WriterMsg \ {PingMsg})
  BY DEF TypeInv, TypeOK, LogOK
<1>12. logq' = logq \/ logq' = Append(logq, p)
  BY DEF RawLog
<1> HIDE DEF p
<1>13. NoDup(logq') /\ \A v \in Vers(logq') : v \in Vers(logq) \/ v = p.ver
  <2>1. NoDup(logq)
    BY <1>5 DEF Once
  <2>2. CASE logq' = logq
    BY <2>1, <2>2
  <2>3. CASE logq' = Append(logq, p)
    BY <1>3, <1>10, <1>11, <2>1, <2>3, AppendVers
  <2> QED
    BY <1>12, <2>2, <2>3
<1>14. Once'
  BY <1>5, <1>8, <1>13 DEF Once, Shrinks
<1>15. \A u \in Writer : p.ver \notin Vers(wqueue'[u])
  BY <1>4, <1>5, <1>7 DEF Apart
<1>16. \A x \in Worker : p.ver \notin Held(x)
  BY <1>5, <1>7 DEF Apart
<1>17. Apart'
  <2>1. /\ \A x, y \in Worker : x # y => Held(x)' \cap Held(y)' = {}
        /\ \A x \in Worker, u \in Writer : Held(x)' \cap Vers(wqueue'[u]) = {}
        /\ \A u, v \in Writer : u # v => Vers(wqueue'[u]) \cap Vers(wqueue'[v]) = {}
    <3>1. \A u \in Writer : Vers(wqueue'[u]) \subseteq Vers(wqueue[u])
      BY <1>8 DEF Shrinks
    <3>2. \A x, y \in Worker : x # y => Held(x)' \cap Held(y)' = {}
      BY <1>5, <1>9 DEF Apart
    <3>3. \A x \in Worker, u \in Writer : Held(x)' \cap Vers(wqueue'[u]) = {}
      BY <1>5, <1>9, <3>1 DEF Apart
    <3>4. \A u, v \in Writer : u # v => Vers(wqueue'[u]) \cap Vers(wqueue'[v]) = {}
      BY <1>5, <3>1 DEF Apart
    <3> QED
      BY <3>2, <3>3, <3>4
  <2>2. ASSUME NEW x \in Worker PROVE Held(x)' \cap Vers(logq') = {}
    <3>1. Held(x)' = Held(x) /\ Held(x) \cap Vers(logq) = {} /\ p.ver \notin Held(x)
      BY <1>5, <1>9, <1>16 DEF Apart
    <3> QED
      BY <1>13, <3>1
  <2>3. ASSUME NEW u \in Writer PROVE Vers(wqueue'[u]) \cap Vers(logq') = {}
    <3>1. Vers(wqueue[u]) \cap Vers(logq) = {} /\ Vers(wqueue'[u]) \subseteq Vers(wqueue[u])
      BY <1>5, <1>8 DEF Apart, Shrinks
    <3> QED
      BY <1>13, <1>15, <3>1
  <2> QED
    BY <2>1, <2>2, <2>3 DEF Apart
<1>18. \A k \in Key : \/ mysql'[k] = mysql[k] /\ lane'[k] = lane[k]
                      \/ mysql'[k] = p.ver /\ lane'[k] = <<p.by, t>>
  <2>1. mysql \in [Key -> Nat] /\ lane \in [Key -> Nat \X Nat]
    BY DEF TypeInv, TypeOK, MySqlOK
  <2>2. CASE Executed(p, t)
    <3>1. mysql' = [mysql EXCEPT ![p.key] = p.ver] /\ lane' = [lane EXCEPT ![p.key] = <<p.by, t>>]
      BY <2>2 DEF Executed
    <3> QED
      BY <2>1, <3>1
  <2>3. CASE mysql' = mysql /\ lane' = lane
    BY <2>3
  <2> QED
    BY <2>2, <2>3 DEF p
<1>19. Bounded'
  <2>1. p.ver \in 0 .. clock
    BY <1>5, <1>7 DEF Bounded
  <2>2. \A k \in Key : redis'[k] <= clock' /\ mysql'[k] <= clock'
    BY <1>5, <1>18, <2>1 DEF Bounded
  <2> QED
    BY <1>5, <1>8, <1>9, <1>13, <2>1, <2>2 DEF Bounded, Shrinks
<1>20. InLane'
  <2> SUFFICES ASSUME NEW x \in Worker, NEW u \in Writer
               PROVE  /\ \A v \in VersBy(wqueue'[u], x), s \in Held(x)' : v < s
                      /\ \A k \in Key : lane'[k] = <<x, u>> =>
                            \A v \in VersBy(wqueue'[u], x) \cup Held(x)' : mysql'[k] < v
    BY DEF InLane
  <2>1. Held(x)' = Held(x) /\ VersBy(wqueue'[u], x) \subseteq VersBy(wqueue[u], x)
    BY <1>8, <1>9 DEF Shrinks
  <2>2. \A v \in VersBy(wqueue'[u], x), s \in Held(x)' : v < s
    BY <1>5, <2>1 DEF InLane
  <2>3. ASSUME NEW k \in Key, lane'[k] = <<x, u>>, NEW v \in VersBy(wqueue'[u], x) \cup Held(x)'
        PROVE  mysql'[k] < v
    <3>1. CASE mysql'[k] = mysql[k] /\ lane'[k] = lane[k]
      BY <1>5, <2>1, <2>3, <3>1 DEF InLane
    <3>2. CASE mysql'[k] = p.ver /\ lane'[k] = <<p.by, t>>
      <4>1. x = p.by /\ u = t
        BY <2>3, <3>2
      <4>2. \A s \in Held(x) : p.ver < s
        BY <1>5, <1>7, <4>1 DEF InLane
      <4> QED
        BY <1>7, <2>1, <3>2, <4>1, <4>2
    <3> QED
      BY <1>18, <3>1, <3>2
  <2> QED
    BY <2>2, <2>3
<1> QED
  BY <1>14, <1>17, <1>19, <1>20 DEF VerInv

\* Every step keeps the invariant.
LEMMA StepVers == VerInv /\ TypeInv /\ [Next]_vars => VerInv'
<1> SUFFICES ASSUME VerInv, TypeInv, [Next]_vars PROVE VerInv'
  OBVIOUS
<1>a. TypeInv'
  BY StepTyped
<1>b. clock \in Nat /\ \A k \in Key : redis[k] <= clock /\ redis[k] \in Nat
  BY DEF TypeInv, TypeOK, HistOK, RedisOK, VerInv, Bounded
<1>c. /\ pc \in [Worker -> {"take", "table", "mysql", "done"}]
      /\ DOMAIN cmd = Worker /\ DOMAIN out = Worker /\ DOMAIN queue = Worker
  BY DEF TypeInv, TypeOK, JobOK, PoolOK
<1> USE <1>a, <1>b, ShrinksSame, HeldSame
<1>1. ASSUME NEW r \in Requests, NEW c \in Conn, NEW id \in ConId, Push(r, c, id) PROVE VerInv'
  BY <1>1, VersFrame DEF Push, writerVars, logVars, redisVars, mysqlVars, histVars
<1>2. ASSUME PingAll PROVE VerInv'
  <2>1. ASSUME NEW t \in Writer PROVE Shrinks(wqueue'[t], wqueue[t])
    <3>1. wqueue[t] \in Seq(WriterMsg) /\ PingMsg \in WriterMsg /\ PingMsg.Type # "CMD"
      BY Cmds DEF TypeInv, TypeOK, WriterOK
    <3>2. wqueue'[t] = Append(wqueue[t], PingMsg)
      BY <1>2 DEF PingAll
    <3> QED
      BY <3>1, <3>2, AppendVers
  <2> QED
    BY <1>2, <2>1, VersFrame DEF PingAll, logVars, redisVars, mysqlVars, histVars
<1>3. ASSUME Quit PROVE VerInv'
  BY <1>3, VersFrame DEF Quit, writerVars, logVars, redisVars, mysqlVars, histVars
<1>4. ASSUME StopWorker PROVE VerInv'
  BY <1>4, VersFrame DEF StopWorker, writerVars, logVars, redisVars, mysqlVars, histVars
<1>5. ASSUME NEW n \in Nat, Joined(n) PROVE VerInv'
  BY <1>5, VersFrame DEF Joined, writerVars, logVars, redisVars, mysqlVars, histVars
<1>6. ASSUME StopWriter PROVE VerInv'
  <2>1. ASSUME NEW t \in Writer PROVE Shrinks(wqueue'[t], wqueue[t])
    <3>1. wqueue[t] \in Seq(WriterMsg) /\ Stop \in WriterMsg /\ Stop.Type # "CMD"
      BY Cmds DEF TypeInv, TypeOK, WriterOK
    <3>2. wqueue'[t] = Append(wqueue[t], Stop) \/ wqueue'[t] = wqueue[t]
      BY <1>6 DEF StopWriter, TypeInv, TypeOK, WriterOK
    <3> QED
      BY <3>1, <3>2, AppendVers
  <2> QED
    BY <1>6, <2>1, VersFrame DEF StopWriter, logVars, redisVars, mysqlVars, histVars
<1>7. ASSUME StopLog PROVE VerInv'
  <2>1. Shrinks(logq', logq)
    <3>1. logq \in Seq(WriterMsg \ {PingMsg}) /\ Stop \in WriterMsg \ {PingMsg} /\ Stop.Type # "CMD"
      BY Cmds DEF TypeInv, TypeOK, LogOK
    <3> QED
      BY <1>7, <3>1, AppendVers DEF StopLog
  <2> QED
    BY <1>7, <2>1, VersFrame DEF StopLog, writerVars, redisVars, mysqlVars, histVars
<1>8. ASSUME NEW w \in Worker, WorkerStep(w), ~SaveToRedis(w), ~SaveToMySql(w) PROVE VerInv'
  <2>1. \A x \in Worker : (Held(x))' \subseteq Held(x)
    <3>1. CASE jobVars' = jobVars
      BY <3>1
    <3>2. CASE /\ \A x \in Worker : x # w => pc'[x] = pc[x] /\ cmd'[x] = cmd[x] /\ out'[x] = out[x]
               /\ pc'[w] # "mysql" \/ cmd'[w].op # "set"
      BY <3>2, HeldFrame
    <3>3. CASE Take(w)
      BY <3>2, <3>3, <1>c DEF Take
    <3>4. CASE TakePing(w)
      BY <3>1, <3>4 DEF TakePing
    <3>5. CASE TakeStop(w)
      BY <3>2, <3>5, <1>c DEF TakeStop
    <3>6. CASE SaveToRedisRefused(w) \/ SaveToRedisNoReply(w) \/ SaveToRedisReplyLost(w)
      <4>1. pc' = pc /\ cmd' = cmd /\ pc[w] = "table" /\ \A x \in Worker : x # w => out'[x] = out[x]
        BY <3>6, <1>c DEF SaveToRedisRefused, SaveToRedisNoReply, SaveToRedisReplyLost, AtRedis, Answer
      <4> QED
        BY <4>1, <3>2
    <3>7. CASE SaveToMySqlFails(w) \/ SendReply(w)
      BY <3>2, <3>7, <1>c DEF SaveToMySqlFails, SendReply
    <3>8. CASE LoadFromRedis(w) \/ LoadFromRedisRefused(w)
      <4>1. cmd' = cmd /\ cmd[w].op # "set" /\ \A x \in Worker : x # w => out'[x] = out[x] /\ pc'[x] = pc[x]
        BY <3>8, <1>c DEF LoadFromRedis, LoadFromRedisRefused, AtRedis, Answer
      <4> QED
        BY <4>1, <3>2
    <3>9. CASE LoadFromMySql(w) \/ LoadFromMySqlM(w) \/ LoadFromMySqlUntyped(w)
      <4>1. cmd' = cmd /\ pc' = [pc EXCEPT ![w] = "table"] /\ \A x \in Worker : x # w => out'[x] = out[x]
        BY <3>9, <1>c DEF LoadFromMySql, LoadFromMySqlM, LoadFromMySqlUntyped, Answer
      <4> QED
        BY <4>1, <3>2, <1>c
    <3> QED
      BY <1>8, <3>3, <3>4, <3>5, <3>6, <3>7, <3>8, <3>9 DEF WorkerStep
  <2>2. wqueue' = wqueue /\ logq' = logq /\ mysql' = mysql /\ lane' = lane
    BY <1>8 DEF WorkerStep, Take, TakePing, TakeStop, SaveToRedisRefused, SaveToRedisNoReply,
       SaveToRedisReplyLost, SaveToMySqlFails, SendReply, LoadFromRedis, LoadFromRedisRefused, LoadFromMySql,
       LoadFromMySqlM, LoadFromMySqlUntyped,
       writerVars, logVars, mysqlVars
  <2>3. clock <= clock' /\ \A k \in Key : redis'[k] <= clock'
    <3>1. CASE SaveToRedisReplyLost(w)
      BY <3>1 DEF SaveToRedisReplyLost, TypeInv, TypeOK, RedisOK
    <3>2. CASE ~SaveToRedisReplyLost(w)
      <4>1. clock' = clock /\ redis' = redis
        BY <1>8, <3>2 DEF WorkerStep, Take, TakePing, TakeStop, SaveToRedisRefused, SaveToRedisNoReply,
           SaveToMySqlFails, SendReply, LoadFromRedis, LoadFromRedisRefused, LoadFromMySql,
       LoadFromMySqlM, LoadFromMySqlUntyped,
           redisVars, histVars
      <4> QED
        BY <4>1
    <3> QED
      BY <3>1, <3>2
  <2> QED
    BY <2>1, <2>2, <2>3, VersFrame
<1>9. ASSUME NEW w \in Worker, SaveToRedis(w) PROVE VerInv'
  BY <1>9, SaveVers
<1>10. ASSUME NEW w \in Worker, SaveToMySql(w) PROVE VerInv'
  BY <1>10, HandVers
<1>11. ASSUME NEW t \in Writer, Execute(t) PROVE VerInv'
  BY <1>11, WriteVers DEF Execute, logVars, redisVars
<1>12. ASSUME NEW t \in Writer, ExecuteFails(t) PROVE VerInv'
  BY <1>12, WriteVers DEF ExecuteFails, redisVars, mysqlVars, histVars
<1>13. ASSUME NEW t \in Writer, ExecuteRefused(t) PROVE VerInv'
  BY <1>13, WriteVers DEF ExecuteRefused, redisVars
<1>14. ASSUME NEW t \in Writer, WriterPing(t) \/ WriterStop(t) PROVE VerInv'
  <2>1. ASSUME NEW u \in Writer PROVE Shrinks(wqueue'[u], wqueue[u])
    <3>1. wqueue[t] \in Seq(WriterMsg) /\ wqueue[t] # <<>> /\ wqueue \in [Writer -> Seq(WriterMsg)]
      BY <1>14 DEF WriterPing, WriterStop, AtWriter, TypeInv, TypeOK, WriterOK
    <3>2. wqueue' = [wqueue EXCEPT ![t] = Tail(@)]
      BY <1>14 DEF WriterPing, WriterStop
    <3>3. CASE u = t
      BY <3>1, <3>2, <3>3, TailVers
    <3>4. CASE u # t
      BY <3>1, <3>2, <3>4
    <3> QED
      BY <3>3, <3>4
  <2> QED
    BY <1>14, <2>1, VersFrame DEF WriterPing, WriterStop, logVars, redisVars, mysqlVars, histVars
<1>15. ASSUME LogStep PROVE VerInv'
  <2>1. Shrinks(logq', logq)
    <3>1. logq \in Seq(WriterMsg \ {PingMsg})
      BY DEF TypeInv, TypeOK, LogOK
    <3> QED
      BY <1>15, <3>1, TailVers DEF LogStep
  <2> QED
    BY <1>15, <2>1, VersFrame DEF LogStep, writerVars, redisVars, mysqlVars, histVars
<1>16. ASSUME Environment PROVE VerInv'
  <2>1. \A k \in Key : redis'[k] <= clock
    BY <1>16 DEF Environment, RedisDown, RedisBack, MySqlDown, MySqlBack, RedisForgets, Silence, Answers,
       redisVars, TypeInv, TypeOK, RedisOK
  <2>2. /\ jobVars' = jobVars /\ clock' = clock /\ wqueue' = wqueue /\ logq' = logq
        /\ mysql' = mysql /\ lane' = lane
    BY <1>16 DEF Environment, RedisDown, RedisBack, MySqlDown, MySqlBack, RedisForgets, Silence,
       Answers, internalVars, writerVars, logVars, mysqlVars
  <2> QED
    BY <2>1, <2>2, VersFrame
<1>17. ASSUME Crash PROVE VerInv'
  <2>1. \A w \in Worker : (Held(w))' = {}
    BY <1>17 DEF Crash, Held
  <2>2. /\ clock' = clock /\ redis' = redis /\ mysql' = mysql /\ lane' = lane /\ logq' = <<>>
        /\ \A t \in Writer : wqueue'[t] = <<>>
    BY <1>17 DEF Crash, redisVars, mysqlVars
  <2> QED
    BY <2>1, <2>2, VersFrame
<1>18. CASE UNCHANGED vars
  BY <1>18, VersFrame DEF vars, writerVars, logVars, redisVars, mysqlVars, histVars
<1>19. Main => VerInv'
  <2>1. NW \in Nat /\ NT \in Nat /\ 1 \in Nat
    BY StoreAssumption
  <2> QED
    BY <1>3, <1>4, <1>5, <1>6, <1>7, <2>1 DEF Main, JoinWorker, JoinWriter, JoinLog
<1>20. \A w \in Worker : WorkerStep(w) => VerInv'
  BY <1>8, <1>9, <1>10
<1>21. \A t \in Writer : WriterStep(t) => VerInv'
  BY <1>11, <1>12, <1>13, <1>14 DEF WriterStep
<1> QED
  BY <1>1, <1>2, <1>15, <1>16, <1>17, <1>18, <1>19, <1>20, <1>21 DEF Next, Terminated

\* A value that MySQL exchanges for an older one came through another pair of
\* threads: each queue between redis and MySQL keeps its order, whatever fails.
THEOREM LanesKeepOrder == Spec => SameLaneInOrder
<1>1. Init => VerInv /\ TypeInv
  BY InitVers, InitTyped
<1>2. VerInv /\ TypeInv /\ [Next]_vars => (VerInv /\ TypeInv)'
  BY StepVers, StepTyped
<1>3. VerInv /\ TypeInv /\ [Next]_vars =>
          [\A k \in Key : mysql'[k] < mysql[k] => lane'[k] # lane[k]]_vars
  <2> SUFFICES ASSUME VerInv, TypeInv, [Next]_vars, NEW k \in Key, mysql'[k] < mysql[k], lane'[k] = lane[k]
               PROVE  FALSE
    OBVIOUS
  <2>1. mysql[k] \in Nat
    BY DEF TypeInv, TypeOK, MySqlOK
  <2>2. mysql' # mysql
    BY <2>1
  <2>3. PICK t \in Writer : Execute(t) \/ ExecuteRefused(t)
    BY ZenonT(30), <2>2 DEF Next, vars, Push, PingAll, Main, Quit, StopWorker, JoinWorker, StopWriter, JoinWriter,
       StopLog, JoinLog, Joined, WorkerStep, Take, TakePing, TakeStop, SaveToRedis, SaveToRedisRefused,
       SaveToRedisNoReply, SaveToRedisReplyLost, SaveToMySql, SaveToMySqlFails, LoadFromRedis,
       LoadFromRedisRefused, LoadFromMySql, LoadFromMySqlM, LoadFromMySqlUntyped, SendReply, WriterStep, ExecuteFails, WriterPing, WriterStop,
       LogStep, Environment, RedisDown, RedisBack, MySqlDown, MySqlBack, RedisForgets, Silence, Answers, Crash,
       Terminated, mysqlVars
  <2>4. AtWriter(t, "CMD") /\ Executed(Head(wqueue[t]), t)
    BY <2>2, <2>3 DEF Execute, ExecuteRefused
  <2>5. /\ wqueue[t] \in Seq(WriterMsg) /\ wqueue[t] # <<>>
        /\ Head(wqueue[t]) \in WriterMsg /\ Head(wqueue[t]).Type = "CMD"
    BY <2>4 DEF AtWriter, TypeInv, TypeOK, WriterOK
  <2> DEFINE p == Head(wqueue[t])
  <2>6. p.by \in Worker /\ p.key \in Key /\ p.ver \in Nat /\ p.ver \in VersBy(wqueue[t], p.by)
    BY <2>5, Cmds, CmdFields, TailVers
  <2>7. /\ mysql \in [Key -> Nat] /\ lane \in [Key -> Nat \X Nat]
        /\ mysql' = [mysql EXCEPT ![p.key] = p.ver] /\ lane' = [lane EXCEPT ![p.key] = <<p.by, t>>]
    BY <2>4 DEF Executed, TypeInv, TypeOK, MySqlOK
  <2> HIDE DEF p
  <2>8. k = p.key
    BY <2>1, <2>7
  <2>9. mysql'[k] = p.ver /\ lane[k] = <<p.by, t>>
    BY <2>6, <2>7, <2>8
  <2>10. mysql[k] < p.ver
    BY <2>6, <2>9 DEF VerInv, InLane
  <2> QED
    BY <2>1, <2>6, <2>9, <2>10
<1> QED
  BY <1>1, <1>2, <1>3, PTL DEF Spec, SameLaneInOrder

-----------------------------------------------------------------------------
(* The store implements WriteBehind *)

\* Append adds one statement to those of a queue, taking the head removes one.
LEMMA StatementsAppend ==
    ASSUME NEW T, NEW q \in Seq(T), NEW m \in T
    PROVE  Statements(Append(q, m)) =
               IF m.Type = "CMD" THEN Statements(q) \cup {Keyed(m)} ELSE Statements(q)
<1> DEFINE r == Append(q, m)
<1>1. /\ DOMAIN r = 1 .. Len(q) + 1 /\ Len(q) \in Nat /\ DOMAIN q = 1 .. Len(q)
      /\ \A i \in 1 .. Len(q) : r[i] = q[i]
      /\ r[Len(q) + 1] = m
  OBVIOUS
<1>2. \A i \in DOMAIN r : (i \in DOMAIN q /\ r[i] = q[i]) \/ (i = Len(q) + 1 /\ r[i] = m)
  BY <1>1
<1> HIDE DEF r
<1>3. Statements(q) \subseteq Statements(r)
  BY <1>1 DEF Statements
<1>4. m.Type = "CMD" => Keyed(m) \in Statements(r)
  BY <1>1 DEF Statements
<1>5. \A e \in Statements(r) : e \in Statements(q) \/ (m.Type = "CMD" /\ e = Keyed(m))
  BY <1>2 DEF Statements
<1> QED
  BY <1>3, <1>4, <1>5 DEF r

LEMMA StatementsTail ==
    ASSUME NEW T, NEW q \in Seq(T), q # <<>>
    PROVE  Statements(q) = IF Head(q).Type = "CMD" THEN Statements(Tail(q)) \cup {Keyed(Head(q))}
                                                   ELSE Statements(Tail(q))
<1> DEFINE r == Tail(q)
<1>1. /\ Len(q) \in Nat \ {0} /\ DOMAIN q = 1 .. Len(q) /\ DOMAIN r = 1 .. Len(q) - 1
      /\ \A i \in 1 .. Len(q) - 1 : r[i] = q[i + 1]
      /\ Head(q) = q[1]
  <2>1. Len(q) \in Nat /\ Len(q) # 0 /\ DOMAIN q = 1 .. Len(q)
    OBVIOUS
  <2>2. Tail(q) \in Seq(T) /\ Len(Tail(q)) = Len(q) - 1 /\ Head(q) = q[1]
    BY <2>1
  <2>3. DOMAIN Tail(q) = 1 .. Len(q) - 1
    BY <2>1, <2>2
  <2>4. \A i \in 1 .. Len(q) - 1 : Tail(q)[i] = q[i + 1]
    BY <2>1
  <2> QED
    BY <2>1, <2>2, <2>3, <2>4
<1>2. \A i \in DOMAIN r : i + 1 \in DOMAIN q /\ r[i] = q[i + 1]
  BY <1>1
<1>3. \A j \in DOMAIN q : (j = 1 /\ q[j] = Head(q)) \/ (j - 1 \in DOMAIN r /\ r[j - 1] = q[j])
  BY <1>1
<1> HIDE DEF r
<1>4. Statements(r) \subseteq Statements(q)
  BY <1>2 DEF Statements
<1>5. Head(q).Type = "CMD" => Keyed(Head(q)) \in Statements(q)
  BY <1>1 DEF Statements
<1>6. \A e \in Statements(q) : e \in Statements(r) \/ (Head(q).Type = "CMD" /\ e = Keyed(Head(q)))
  BY <1>3 DEF Statements
<1> QED
  BY <1>4, <1>5, <1>6 DEF r

\* Nothing is owed more or less when the queues hold the same statements.
LEMMA PendingSame ==
    ASSUME \A t \in Writer : Statements(wqueue'[t]) = Statements(wqueue[t]),
           Statements(logq') = Statements(logq)
    PROVE  Pending' = Pending
BY DEF Pending

\* What is owed waits in some queue.
LEMMA PendingElem ==
    /\ \A e : e \in Pending <=>
           (\E t \in Writer : e \in Statements(wqueue[t])) \/ e \in Statements(logq)
    /\ \A e : e \in Pending' <=>
           (\E t \in Writer : e \in Statements(wqueue'[t])) \/ e \in Statements(logq')
<1>1. \A e : e \in Pending <=>
           (\E t \in Writer : e \in Statements(wqueue[t])) \/ e \in Statements(logq)
  BY DEF Pending
<1>2. \A e : e \in Pending' <=>
           (\E t \in Writer : e \in Statements(wqueue'[t])) \/ e \in Statements(logq')
  BY DEF Pending
<1> QED
  BY <1>1, <1>2

\* A step that leaves redis, MySQL, the recover file and what is owed alone, and
\* does not end the program, is a stutter of WriteBehind.
LEMMA Quiet ==
    ASSUME redis' = redis, mysql' = mysql, recover' = recover, Pending' = Pending,
           (phase = "stopped")' = (phase = "stopped")
    PROVE  UNCHANGED WB!vars
BY DEF WB!vars

\* Redis takes a value newer than all it holds.
LEMMA CacheStep ==
    ASSUME VerInv, TypeInv, NEW w \in Worker, SaveToRedis(w) \/ SaveToRedisReplyLost(w)
    PROVE  WB!Next
<1> DEFINE k == KeyOf(w)
<1>1. /\ clock' = clock + 1 /\ clock \in Nat /\ redis' = [redis EXCEPT ![k] = clock']
      /\ mysql' = mysql /\ recover' = recover /\ phase' = phase /\ AtRedis(w, {"set"})
      /\ wqueue' = wqueue /\ logq' = logq
  BY DEF SaveToRedis, SaveToRedisReplyLost, TypeInv, TypeOK, HistOK, mysqlVars, logVars,
     mainVars, writerVars
<1>2. k \in Key /\ redis \in [Key -> Nat]
  BY <1>1, KeyOfTyped DEF AtRedis, TypeInv, TypeOK, RedisOK
<1>3. Pending' = Pending
  BY <1>1, PendingSame
<1> HIDE DEF k
<1>4. redis'[k] = clock + 1 /\ \A j \in Key : redis[j] < redis'[k]
  BY <1>1, <1>2 DEF VerInv, Bounded
<1>5. WB!Cache(k)
  BY <1>1, <1>3, <1>4 DEF WB!Cache
<1> QED
  BY <1>2, <1>5 DEF WB!Next

\* A worker hands a statement to a writer: it is owed from now on.
LEMMA OweStep ==
    ASSUME StopInv, TypeInv', NEW w \in Worker, SaveToMySql(w)
    PROVE  WB!Next
<1> DEFINE saved == out[w][Len(out[w])]
           m == Statement(saved.key, saved.ver, w)
           t == nextWriter'[w]
<1>1. /\ pc[w] = "mysql" /\ cmd[w].op = "set" /\ wqueue' = [wqueue EXCEPT ![t] = Append(@, m)]
      /\ redis' = redis /\ mysql' = mysql /\ logq' = logq /\ recover' = recover /\ phase' = phase
  BY DEF SaveToMySql, redisVars, mysqlVars, logVars, mainVars
<1>2. t \in Writer /\ wqueue[t] \in Seq(WriterMsg) /\ wqueue \in [Writer -> Seq(WriterMsg)]
  BY DEF StopInv, TypeInv, TypeOK, WriterOK
<1>3. out[w] \in Seq(Reply) /\ out[w] # <<>>
  BY <1>1 DEF StopInv, TypeInv, TypeOK, JobOK, AtTable
<1>4. saved \in Reply
  BY <1>3
<1>5. m \in WriterMsg /\ m.Type = "CMD"
  BY <1>4, CmdFields DEF Reply, Statement, WriterCmd
<1> HIDE DEF saved, m, t
<1>6. wqueue'[t] = Append(wqueue[t], m) /\ \A u \in Writer : u # t => wqueue'[u] = wqueue[u]
  BY <1>1, <1>2
<1>7. Statements(wqueue'[t]) = Statements(wqueue[t]) \cup {Keyed(m)}
  BY <1>2, <1>5, <1>6, StatementsAppend
<1>8. Pending' = Pending \cup {Keyed(m)}
  BY <1>1, <1>2, <1>6, <1>7 DEF Pending
<1>9. phase # "stopped"
  BY <1>1 DEF StopInv, WorkersStop, WorkerJoined
<1>10. WB!Owe(Keyed(m)) /\ Keyed(m) \in Pending'
  BY <1>1, <1>8, <1>9 DEF WB!Owe
<1> QED
  BY <1>10 DEF WB!Next

\* A writer is through with a statement: stored and owed no more, logged and
\* still owed, or both.
LEMMA StoreStep ==
    ASSUME StopInv, VerInv, NEW t \in Writer, WriterStep(t)
    PROVE  [WB!Next]_WB!vars
<1> DEFINE p == Head(wqueue[t])
<1>1. wqueue' = [wqueue EXCEPT ![t] = Tail(@)] /\ mainVars' = mainVars /\ recover' = recover
      /\ ldone' = ldone /\ redis' = redis /\ phase' = phase
  BY DEF WriterStep, Execute, ExecuteFails, ExecuteRefused, WriterPing, WriterStop, logVars, redisVars,
     mainVars
<1>2. wqueue[t] \in Seq(WriterMsg) /\ wqueue \in [Writer -> Seq(WriterMsg)] /\ wqueue[t] # <<>>
  BY DEF WriterStep, Execute, ExecuteFails, ExecuteRefused, WriterPing, WriterStop, AtWriter,
     StopInv, TypeInv, TypeOK, WriterOK
<1>3. wqueue'[t] = Tail(wqueue[t]) /\ \A u \in Writer : u # t => wqueue'[u] = wqueue[u]
  BY <1>1, <1>2
<1>4. Statements(wqueue[t]) = IF p.Type = "CMD" THEN Statements(wqueue'[t]) \cup {Keyed(p)}
                                                ELSE Statements(wqueue'[t])
  BY <1>2, <1>3, StatementsTail
<1>5. CASE p.Type # "CMD"
  <2>1. mysql' = mysql /\ logq' = logq
    BY <1>5 DEF WriterStep, Execute, ExecuteFails, ExecuteRefused, WriterPing, WriterStop, AtWriter,
       mysqlVars, logVars
  <2>2. Pending' = Pending
    BY <1>3, <1>4, <1>5, <2>1, PendingSame
  <2> QED
    BY <1>1, <2>1, <2>2, Quiet
<1>6. CASE p.Type = "CMD"
  <2> DEFINE e == Keyed(p)
  <2>1. /\ AtWriter(t, "CMD")
        /\ \/ Executed(p, t) /\ logq' = logq
           \/ mysql' = mysql /\ RawLog(p)
           \/ Executed(p, t) /\ RawLog(p)
    BY <1>6 DEF WriterStep, Execute, ExecuteFails, ExecuteRefused, WriterPing, WriterStop, AtWriter,
       mysqlVars, logVars
  <2>2. e \in Pending /\ e.key = p.key /\ e.ver = p.ver
    BY <1>4, <1>6 DEF Pending, Keyed
  <2>3. p \in WriterMsg \ {PingMsg}
    BY <1>2, <1>6, Cmds
  <2>4. RawLog(p) => Statements(logq') = Statements(logq) \cup {e}
    <3> SUFFICES ASSUME RawLog(p) PROVE Statements(logq') = Statements(logq) \cup {e}
      OBVIOUS
    <3>1. wdone[t] # TRUE
      BY <2>1 DEF AtWriter, StopInv, TypeInv, TypeOK, WriterOK
    <3>2. ~LogTold
      BY <3>1 DEF LogTold, StopInv, WritersStop, WriterJoined
    <3>3. bstart = TRUE
      BY <3>2 DEF StopInv, LogStops, TypeInv, TypeOK, MainOK
    <3>4. logq' = Append(logq, p) /\ logq \in Seq(WriterMsg \ {PingMsg})
      BY <3>3 DEF RawLog, StopInv, TypeInv, TypeOK, LogOK
    <3> QED
      BY <1>6, <2>3, <3>4, StatementsAppend
  <2>5. RawLog(p) => Pending' = Pending
    <3> SUFFICES ASSUME RawLog(p) PROVE Pending' = Pending
      OBVIOUS
    <3>1. /\ Statements(logq') = Statements(logq) \cup {e}
          /\ Statements(wqueue[t]) = Statements(wqueue'[t]) \cup {e}
          /\ \A u \in Writer : u # t => Statements(wqueue'[u]) = Statements(wqueue[u])
      BY <1>3, <1>4, <1>6, <2>4
    <3> HIDE DEF p, e
    <3>2. \A x : x \in Pending' => x \in Pending
      BY <3>1, PendingElem
    <3>3. \A x : x \in Pending => x \in Pending'
      BY <3>1, PendingElem
    <3> QED
      BY <3>2, <3>3
  <2>6. logq' = logq => Pending' = Pending \/ Pending' = Pending \ {e}
    <3> SUFFICES ASSUME logq' = logq PROVE Pending' = Pending \/ Pending' = Pending \ {e}
      OBVIOUS
    <3> HIDE DEF p
    <3>1. Pending = Pending' \cup {e}
      BY <1>3, <1>4, <1>6 DEF Pending
    <3> QED
      BY <3>1
  <2>7. CASE mysql' = mysql /\ RawLog(p)
    BY <1>1, <2>5, <2>7, Quiet
  <2>8. CASE Executed(p, t)
    <3>1. mysql' = [mysql EXCEPT ![e.key] = e.ver]
      BY <2>2, <2>8 DEF Executed
    <3>2. Pending' \in {Pending, Pending \ {e}}
      BY <2>1, <2>5, <2>6
    <3> HIDE DEF e
    <3>3. WB!Store(e)
      BY <1>1, <2>2, <3>1, <3>2 DEF WB!Store
    <3> QED
      BY <2>2, <3>3 DEF WB!Next
  <2> QED
    BY <2>1, <2>7, <2>8
<1> QED
  BY <1>5, <1>6

\* The log thread takes a line for the recover file, or ends.
LEMMA RecordStep ==
    ASSUME TypeInv, VerInv, LogStep
    PROVE  [WB!Next]_WB!vars
<1> DEFINE p == Head(logq)
           e == Keyed(p)
<1>1. /\ logq # <<>> /\ logq' = Tail(logq) /\ wqueue' = wqueue /\ redis' = redis /\ mysql' = mysql
      /\ phase' = phase
      /\ recover' = IF p.Type = "STOP" THEN recover ELSE recover \cup {e}
  BY DEF LogStep, writerVars, redisVars, mysqlVars, mainVars
<1>2. logq \in Seq(WriterMsg \ {PingMsg}) /\ p \in WriterMsg \ {PingMsg}
  BY <1>1 DEF TypeInv, TypeOK, LogOK
<1>3. Statements(logq) = IF p.Type = "CMD" THEN Statements(logq') \cup {e} ELSE Statements(logq')
  BY <1>1, <1>2, StatementsTail
<1>4. p.Type = "CMD" \/ p.Type = "STOP"
  BY <1>2 DEF WriterMsg, Stop, PingMsg
<1>5. CASE p.Type = "STOP"
  <2>1. Pending' = Pending
    BY <1>1, <1>3, <1>5, PendingSame
  <2> QED
    BY <1>1, <1>5, <2>1, Quiet
<1>6. CASE p.Type = "CMD"
  <2>1. p.ver \in Vers(logq) /\ p.ver \notin Vers(logq') /\ e.ver = p.ver
    BY <1>1, <1>2, <1>6, TailVers DEF VerInv, Once, Keyed
  <2>2. \A t \in Writer : p.ver \notin Vers(wqueue[t])
    BY <2>1 DEF VerInv, Apart
  <2>3. e \notin Statements(logq') /\ \A t \in Writer : e \notin Statements(wqueue[t])
    BY <2>1, <2>2, VersFacts
  <2> HIDE DEF p, e
  <2>4. e \in Pending /\ Pending' = Pending \ {e}
    <3>1. Statements(logq) = Statements(logq') \cup {e} /\ wqueue' = wqueue
      BY <1>1, <1>3, <1>6
    <3>2. \A x : x \in Pending' <=> x \in Pending /\ x # e
      BY <2>3, <3>1, PendingElem
    <3> QED
      BY <3>1, <3>2, PendingElem
  <2>5. WB!Record(e)
    BY <1>1, <1>6, <2>4 DEF WB!Record
  <2> QED
    BY <2>4, <2>5 DEF WB!Next
<1> QED
  BY <1>4, <1>5, <1>6

\* Every step of the store is a step of WriteBehind or a stutter of it.
LEMMA StepRefines ==
    ASSUME StopInv, VerInv, TypeInv', [Next]_vars
    PROVE  [WB!Next]_WB!vars
<1>t. TypeInv
  BY DEF StopInv
<1>1. ASSUME NEW r \in Requests, NEW c \in Conn, NEW id \in ConId, Push(r, c, id)
      PROVE  [WB!Next]_WB!vars
  BY <1>1, PendingSame, Quiet DEF Push, mainVars, writerVars, logVars, redisVars, mysqlVars
<1>2. ASSUME PingAll PROVE [WB!Next]_WB!vars
  <2>1. ASSUME NEW t \in Writer PROVE Statements(wqueue'[t]) = Statements(wqueue[t])
    <3>1. wqueue[t] \in Seq(WriterMsg) /\ PingMsg \in WriterMsg /\ PingMsg.Type # "CMD"
      BY <1>t, Cmds DEF TypeInv, TypeOK, WriterOK
    <3>2. wqueue'[t] = Append(wqueue[t], PingMsg)
      BY <1>2 DEF PingAll
    <3> QED
      BY <3>1, <3>2, StatementsAppend
  <2>2. Pending' = Pending
    BY <1>2, <2>1, PendingSame DEF PingAll, logVars
  <2> QED
    BY <1>2, <2>2, Quiet DEF PingAll, mainVars, logVars, redisVars, mysqlVars
<1>3. ASSUME Quit \/ StopWorker \/ JoinWorker \/ JoinWriter PROVE [WB!Next]_WB!vars
  <2>1. phase # "stopped" /\ phase' # "stopped"
    BY <1>3 DEF Quit, StopWorker, JoinWorker, JoinWriter, Joined, StopOrder
  <2>2. /\ redis' = redis /\ mysql' = mysql /\ recover' = recover
        /\ wqueue' = wqueue /\ logq' = logq
    BY <1>3 DEF Quit, StopWorker, JoinWorker, JoinWriter, Joined, redisVars, mysqlVars, logVars, writerVars
  <2> QED
    BY <2>1, <2>2, PendingSame, Quiet
<1>4. ASSUME StopWriter PROVE [WB!Next]_WB!vars
  <2>1. ASSUME NEW t \in Writer PROVE Statements(wqueue'[t]) = Statements(wqueue[t])
    <3>1. wqueue[t] \in Seq(WriterMsg) /\ Stop \in WriterMsg /\ Stop.Type # "CMD"
      BY <1>t, Cmds DEF TypeInv, TypeOK, WriterOK
    <3>2. wqueue'[t] = Append(wqueue[t], Stop) \/ wqueue'[t] = wqueue[t]
      BY <1>4, <1>t DEF StopWriter, TypeInv, TypeOK, WriterOK
    <3> QED
      BY <3>1, <3>2, StatementsAppend
  <2>2. Pending' = Pending
    BY <1>4, <2>1, PendingSame DEF StopWriter, logVars
  <2> QED
    BY <1>4, <2>2, Quiet DEF StopWriter, logVars, redisVars, mysqlVars
<1>5. ASSUME StopLog PROVE [WB!Next]_WB!vars
  <2>1. Statements(logq') = Statements(logq)
    <3>1. logq \in Seq(WriterMsg \ {PingMsg}) /\ Stop \in WriterMsg \ {PingMsg} /\ Stop.Type # "CMD"
      BY <1>t, Cmds DEF TypeInv, TypeOK, LogOK
    <3> QED
      BY <1>5, <3>1, StatementsAppend DEF StopLog
  <2>2. Pending' = Pending
    BY <1>5, <2>1, PendingSame DEF StopLog, writerVars
  <2> QED
    BY <1>5, <2>2, Quiet DEF StopLog, redisVars, mysqlVars
<1>6. ASSUME JoinLog PROVE [WB!Next]_WB!vars
  <2>1. /\ phase = "stopLog" /\ ldone = TRUE /\ phase' = "stopped"
        /\ redis' = redis /\ mysql' = mysql /\ recover' = recover /\ wqueue' = wqueue /\ logq' = logq
    <3>1. stopAt = 0 /\ phase = "stopLog"
      BY <1>6 DEF JoinLog, StopInv, MainStops
    <3> QED
      BY <1>6, <3>1, <1>t
         DEF JoinLog, Joined, StopOrder, TypeInv, TypeOK, LogOK, redisVars, mysqlVars, logVars, writerVars
  <2>2. logq = <<>> /\ \A t \in Writer : wqueue[t] = <<>>
    BY <2>1 DEF StopInv, LogStops, WritersStop, WriterJoined
  <2>3. Pending = {} /\ Pending' = Pending
    BY <2>1, <2>2, EmptyFacts DEF Pending
  <2>4. WB!End
    BY <2>1, <2>3 DEF WB!End
  <2> QED
    BY <2>4 DEF WB!Next
<1>7. ASSUME NEW w \in Worker, WorkerStep(w) PROVE [WB!Next]_WB!vars
  <2>1. CASE SaveToRedis(w) \/ SaveToRedisReplyLost(w)
    BY <2>1, <1>t, CacheStep
  <2>2. CASE SaveToMySql(w)
    BY <2>2, OweStep
  <2>3. CASE ~SaveToRedis(w) /\ ~SaveToRedisReplyLost(w) /\ ~SaveToMySql(w)
    <3>1. /\ redis' = redis /\ mysql' = mysql /\ recover' = recover
          /\ wqueue' = wqueue /\ logq' = logq /\ phase' = phase
      BY <1>7, <2>3 DEF WorkerStep, Take, TakePing, TakeStop, SaveToRedisRefused, SaveToRedisNoReply,
         SaveToMySqlFails, SendReply, LoadFromRedis, LoadFromRedisRefused, LoadFromMySql,
       LoadFromMySqlM, LoadFromMySqlUntyped,
         writerVars, logVars, redisVars, mysqlVars, mainVars
    <3> QED
      BY <3>1, PendingSame, Quiet
  <2> QED
    BY <2>1, <2>2, <2>3
<1>8. ASSUME NEW t \in Writer, WriterStep(t) PROVE [WB!Next]_WB!vars
  BY <1>8, StoreStep
<1>9. ASSUME LogStep PROVE [WB!Next]_WB!vars
  BY <1>9, <1>t, RecordStep
<1>10. ASSUME Environment PROVE [WB!Next]_WB!vars
  <2>1. /\ mysql' = mysql /\ recover' = recover /\ wqueue' = wqueue /\ logq' = logq /\ phase' = phase
    BY <1>10 DEF Environment, RedisDown, RedisBack, MySqlDown, MySqlBack, RedisForgets, Silence,
       Answers, internalVars, writerVars, logVars, mysqlVars, mainVars
  <2>2. Pending' = Pending
    BY <2>1, PendingSame
  <2>3. CASE redis' = redis
    BY <2>1, <2>2, <2>3, Quiet
  <2>4. ASSUME NEW k \in Key, RedisForgets(k) PROVE [WB!Next]_WB!vars
    <3>1. WB!Forget(k)
      BY <2>1, <2>2, <2>4 DEF RedisForgets, WB!Forget
    <3> QED
      BY <3>1 DEF WB!Next
  <2> QED
    BY <1>10, <2>3, <2>4 DEF Environment, RedisDown, RedisBack, MySqlDown, MySqlBack, Silence, Answers,
       redisVars
<1>11. ASSUME Crash PROVE [WB!Next]_WB!vars
  <2>1. /\ phase # "stopped" /\ phase' # "stopped"
        /\ redis' = redis /\ mysql' = mysql /\ recover' = recover
        /\ logq' = <<>> /\ \A t \in Writer : wqueue'[t] = <<>>
    BY <1>11 DEF Crash, redisVars, mysqlVars
  <2>2. Pending' = {}
    BY <2>1, EmptyFacts DEF Pending
  <2>3. WB!Crash
    BY <2>1, <2>2 DEF WB!Crash
  <2> QED
    BY <2>3 DEF WB!Next
<1>12. CASE UNCHANGED vars
  BY <1>12, PendingSame, Quiet DEF vars, mainVars, writerVars, logVars, redisVars, mysqlVars
<1> QED
  BY <1>1, <1>2, <1>3, <1>4, <1>5, <1>6, <1>7, <1>8, <1>9, <1>10, <1>11, <1>12
     DEF Next, Main, Terminated

LEMMA InitRefines == Init => WB!Init
<1> SUFFICES ASSUME Init PROVE WB!Init
  OBVIOUS
<1>1. logq = <<>> /\ \A t \in Writer : wqueue[t] = <<>>
  BY DEF Init
<1>2. Pending = {}
  BY <1>1, EmptyFacts DEF Pending
<1> QED
  BY <1>2 DEF Init, WB!Init

\* The store implements WriteBehind: whatever threads, queues and servers do,
\* an accepted write is owed until MySQL has it or the log thread has taken
\* its key, only a crash loses what is owed, and main returns owing nothing.
THEOREM PromiseIsKept == Spec => Promise
<1>1. Init => StopInv /\ VerInv /\ TypeInv
  BY InitStop, InitVers, InitTyped
<1>2. StopInv /\ VerInv /\ TypeInv /\ [Next]_vars => (StopInv /\ VerInv /\ TypeInv)'
  BY StepStop, StepVers, StepTyped
<1>3. StopInv /\ VerInv /\ TypeInv' /\ [Next]_vars => [WB!Next]_WB!vars
  BY StepRefines
<1> QED
  BY <1>1, <1>2, <1>3, InitRefines, PTL DEF Spec, Promise, WB!Spec

-----------------------------------------------------------------------------
(* What a get answers *)

\* Value v of key k is where a reader finds it, or a newer one.
Findable(k, v) == v <= clock /\ (k \in lost \/ v <= redis[k])

\* Redis answers with what has been acknowledged, or something newer, for every
\* key it has not lost, and with nothing for a key it has.
AckedKept == \A e \in acked : Findable(e.key, e.ver)
LostGone == \A k \in lost : redis[k] = 0

\* So it does for what worker w is about to acknowledge.
OksKept(w) == \A i \in DOMAIN out[w] : out[w][i].status = "OK" => Findable(out[w][i].key, out[w][i].ver)

\* What the requests of a queue saw acknowledged when they arrived is among a.
SeenIn(q, a) == \A i \in DOMAIN q : q[i].Type = "CMD" => q[i].seen \subseteq a

\* Nothing acknowledged that worker w saw is stored under its key.
Unseen(w) == \A e \in cmd[w].seen : e.key = KeyOf(w) => e.ver = 0

\* A read that goes to MySQL has seen nothing acknowledged that redis should have had.
Missing(w) == pc[w] = "mysql" /\ cmd[w].op # "set" => missed[w] \/ Unseen(w)

\* NoStaleRead for worker w.
Fresh(w) ==
    \A i \in DOMAIN out[w] :
        out[w][i].status \in {"redis", "mysql", "none"} /\ ~out[w][i].past
            => \A e \in cmd[w].seen : e.key = out[w][i].key => e.ver <= out[w][i].ver

JobRead(w) == OksKept(w) /\ cmd[w].seen \subseteq acked /\ Missing(w) /\ Fresh(w)

ReadInv ==
    /\ AckedKept /\ LostGone
    /\ \A w \in Worker : JobRead(w) /\ SeenIn(queue[w], acked)

LEMMA InitRead == Init => ReadInv
<1> SUFFICES ASSUME Init PROVE ReadInv
  OBVIOUS
<1>1. acked = {} /\ \A w \in Worker : pc[w] = "take" /\ out[w] = <<>> /\ queue[w] = <<>> /\ cmd[w] = Idle
  BY DEF Init
<1>2. Idle.seen = acked
  BY DEF Idle, Command
<1>3. lost = {}
  BY DEF Init
<1> QED
  BY <1>1, <1>2, <1>3 DEF ReadInv, AckedKept, LostGone, JobRead, OksKept, SeenIn, Missing, Fresh

\* Redis never exchanges a value for an older one without the key being counted
\* as lost, and what is acknowledged stays so.
Grows ==
    /\ acked \subseteq acked'
    /\ \A k \in Key, v \in Nat : Findable(k, v) => Findable(k, v)'
    /\ LostGone => LostGone'

LEMMA RedisGrows ==
    ASSUME TypeInv, VerInv, [Next]_vars
    PROVE  Grows
<1>1. redis \in [Key -> Nat] /\ clock \in Nat /\ lost \subseteq Key
  BY DEF TypeInv, TypeOK, RedisOK, HistOK
<1>2. CASE redis' = redis /\ lost' = lost /\ acked' = acked /\ clock' = clock
  BY <1>1, <1>2 DEF Grows, Findable, LostGone
<1>3. ASSUME NEW w \in Worker, SaveToRedis(w) \/ SaveToRedisReplyLost(w) PROVE Grows
  <2>1. /\ redis' = [redis EXCEPT ![KeyOf(w)] = clock + 1] /\ clock' = clock + 1
        /\ lost' = lost \ {KeyOf(w)} /\ acked' = acked
    BY <1>3 DEF SaveToRedis, SaveToRedisReplyLost
  <2>2. ASSUME NEW k \in Key, NEW v \in Nat, Findable(k, v) PROVE Findable(k, v)'
    <3>1. CASE k = KeyOf(w)
      BY <1>1, <2>1, <2>2, <3>1 DEF Findable
    <3>2. CASE k # KeyOf(w)
      BY <1>1, <2>1, <2>2, <3>2 DEF Findable
    <3> QED
      BY <3>1, <3>2
  <2>3. LostGone => LostGone'
    BY <1>1, <2>1 DEF LostGone
  <2> QED
    BY <2>1, <2>2, <2>3 DEF Grows
<1>4. ASSUME NEW w \in Worker, SendReply(w) PROVE Grows
  BY <1>1, <1>4 DEF SendReply, redisVars, Grows, Findable, LostGone
<1>5. ASSUME NEW k \in Key, RedisForgets(k) PROVE Grows
  <2>1. redis' = [redis EXCEPT ![k] = 0] /\ lost' = lost \cup {k} /\ acked' = acked /\ clock' = clock
    BY <1>5 DEF RedisForgets, internalVars
  <2>2. ASSUME NEW j \in Key, NEW v \in Nat, Findable(j, v) PROVE Findable(j, v)'
    BY <1>1, <2>1, <2>2 DEF Findable
  <2>3. LostGone => LostGone'
    BY <1>1, <2>1 DEF LostGone
  <2> QED
    BY <2>1, <2>2, <2>3 DEF Grows
<1>6. ASSUME NEW w \in Worker, WorkerStep(w) PROVE Grows
  <2>1. CASE SaveToRedis(w) \/ SaveToRedisReplyLost(w) \/ SendReply(w)
    BY <2>1, <1>3, <1>4
  <2>2. CASE ~(SaveToRedis(w) \/ SaveToRedisReplyLost(w) \/ SendReply(w))
    <3>1. redis' = redis /\ lost' = lost /\ acked' = acked /\ clock' = clock
      BY <1>6, <2>2 DEF WorkerStep, Take, TakePing, TakeStop, SaveToRedisRefused, SaveToRedisNoReply,
         SaveToMySql, SaveToMySqlFails, LoadFromRedis, LoadFromRedisRefused, LoadFromMySql,
         LoadFromMySqlM, LoadFromMySqlUntyped, redisVars, histVars
    <3> QED
      BY <1>2, <3>1
  <2> QED
    BY <2>1, <2>2
<1>7. ASSUME NEW t \in Writer, WriterStep(t) PROVE Grows
  BY <1>2, <1>7 DEF WriterStep, Execute, ExecuteFails, ExecuteRefused, WriterPing, WriterStop,
     redisVars, histVars
<1>8. ASSUME Environment PROVE Grows
  BY <1>2, <1>5, <1>8 DEF Environment, RedisDown, RedisBack, MySqlDown, MySqlBack, Silence, Answers,
     internalVars, redisVars
<1>9. CASE Main
  BY <1>2, <1>9 DEF Main, Quit, StopWorker, JoinWorker, StopWriter, JoinWriter, StopLog, JoinLog, Joined,
     redisVars, histVars
<1>10. ASSUME NEW r \in Requests, NEW c \in Conn, NEW id \in ConId, Push(r, c, id) PROVE Grows
  BY <1>2, <1>10 DEF Push, redisVars, histVars
<1>11. CASE PingAll \/ LogStep \/ Crash \/ UNCHANGED vars
  BY <1>2, <1>11 DEF PingAll, LogStep, Crash, vars, redisVars, histVars
<1> QED
  BY <1>6, <1>7, <1>8, <1>9, <1>10, <1>11 DEF Next, Terminated

\* A worker that adds no answer, and goes to MySQL for a read only with nothing
\* acknowledged to look for, has its part of the invariant kept for it.
LEMMA JobFrame ==
    ASSUME TypeInv, TypeInv', Grows, NEW w \in Worker, JobRead(w),
           cmd'[w] = cmd[w], out'[w] = out[w],
           pc'[w] = "mysql" /\ cmd[w].op # "set" =>
               (pc[w] = "mysql" /\ missed'[w] = missed[w]) \/ missed'[w] \/ Unseen(w)
    PROVE  JobRead(w)'
<1>1. out[w] \in Seq(Reply) /\ \A i \in DOMAIN out[w] : out[w][i].key \in Key /\ out[w][i].ver \in Nat
  <2>1. out[w] \in Seq(Reply)
    BY DEF TypeInv, TypeOK, JobOK
  <2>2. \A i \in DOMAIN out[w] : out[w][i] \in Reply
    BY <2>1
  <2> QED
    BY <2>1, <2>2 DEF Reply
<1>3. Unseen(w)' = Unseen(w)
  BY DEF Unseen, KeyOf, Table1
<1>5. OksKept(w)'
  <2> SUFFICES ASSUME NEW i \in DOMAIN out[w], out[w][i].status = "OK"
               PROVE  Findable(out[w][i].key, out[w][i].ver)'
    BY DEF OksKept
  <2>1. Findable(out[w][i].key, out[w][i].ver)
    BY DEF JobRead, OksKept
  <2> DEFINE k == out[w][i].key
             v == out[w][i].ver
  <2>2. k \in Key /\ v \in Nat /\ (out'[w][i]).key = k /\ (out'[w][i]).ver = v
    BY <1>1
  <2> HIDE DEF k, v
  <2>3. \A kk \in Key, vv \in Nat : Findable(kk, vv) => Findable(kk, vv)'
    BY DEF Grows
  <2>4. Findable(k, v)
    BY <2>1 DEF k, v
  <2>5. v <= clock' /\ (k \in lost' \/ v <= redis'[k])
    BY <2>2, <2>3, <2>4 DEF Findable
  <2> QED
    BY <2>2, <2>5 DEF Findable
<1>6. (cmd[w].seen \subseteq acked)'
  BY DEF JobRead, Grows
<1>7. Missing(w)'
  BY <1>3 DEF JobRead, Missing
<1>8. Fresh(w)'
  BY DEF JobRead, Fresh
<1> QED
  BY <1>5, <1>6, <1>7, <1>8 DEF JobRead

\* An answer to the request of worker w is added to those it has.
LEMMA AnswerRead ==
    ASSUME TypeInv, TypeInv', Grows, NEW w \in Worker, JobRead(w),
           cmd'[w] = cmd[w], NEW r \in Reply, out'[w] = Append(out[w], r),
           r.status = "OK" => r.ver <= clock' /\ r.ver <= redis'[r.key],
           r.status \in {"redis", "mysql", "none"} /\ ~r.past
               => \A e \in cmd[w].seen : e.key = r.key => e.ver <= r.ver,
           pc'[w] # "mysql" \/ cmd[w].op = "set"
    PROVE  JobRead(w)'
<1>1. out[w] \in Seq(Reply)
  BY DEF TypeInv, TypeOK, JobOK
<1>2. \A i \in DOMAIN out'[w] :
          (i \in DOMAIN out[w] /\ out'[w][i] = out[w][i]) \/ out'[w][i] = r
  <2>1. DOMAIN Append(out[w], r) = 1 .. Len(out[w]) + 1 /\ DOMAIN out[w] = 1 .. Len(out[w])
    BY <1>1
  <2>2. \A i \in 1 .. Len(out[w]) + 1 : (i \in 1 .. Len(out[w]) /\ Append(out[w], r)[i] = out[w][i])
                                        \/ Append(out[w], r)[i] = r
    BY <1>1
  <2> QED
    BY <2>1, <2>2
<1>3. \A i \in DOMAIN out[w] : out[w][i].key \in Key /\ out[w][i].ver \in Nat
  <2>1. \A i \in DOMAIN out[w] : out[w][i] \in Reply
    BY <1>1
  <2> QED
    BY <2>1 DEF Reply
<1>5. OksKept(w)'
  <2> SUFFICES ASSUME NEW i \in DOMAIN out'[w], out'[w][i].status = "OK"
               PROVE  /\ out'[w][i].ver <= clock'
                      /\ out'[w][i].key \in lost' \/ out'[w][i].ver <= redis'[out'[w][i].key]
    BY DEF OksKept, Findable
  <2>1. CASE out'[w][i] = r
    BY <2>1
  <2>2. CASE i \in DOMAIN out[w] /\ out'[w][i] = out[w][i]
    <3> DEFINE k == out[w][i].key
               v == out[w][i].ver
    <3>1. k \in Key /\ v \in Nat
      BY <1>3, <2>2
    <3>2. Findable(k, v)
      BY <2>2 DEF JobRead, OksKept
    <3> HIDE DEF k, v
    <3>3. v <= clock' /\ (k \in lost' \/ v <= redis'[k])
      BY <3>1, <3>2 DEF Grows, Findable
    <3> QED
      BY <2>2, <3>3 DEF k, v
  <2> QED
    BY <1>2, <2>1, <2>2
<1>6. (cmd[w].seen \subseteq acked)'
  BY DEF JobRead, Grows
<1>7. Missing(w)'
  BY DEF Missing
<1>8. Fresh(w)'
  BY <1>2 DEF JobRead, Fresh
<1> QED
  BY <1>5, <1>6, <1>7, <1>8 DEF JobRead

\* What waits in a queue was seen when it was put there.
LEMMA SeenFrame ==
    ASSUME NEW a, NEW b, a \subseteq b, NEW T, NEW q \in Seq(T), SeenIn(q, a)
    PROVE  /\ SeenIn(q, b)
           /\ q # <<>> => SeenIn(Tail(q), b) /\ (Head(q).Type = "CMD" => Head(q).seen \subseteq b)
           /\ \A m \in T : (m.Type = "CMD" => m.seen \subseteq b) => SeenIn(Append(q, m), b)
<1>1. SeenIn(q, b)
  BY DEF SeenIn
<1>2. ASSUME q # <<>>
      PROVE  SeenIn(Tail(q), b) /\ (Head(q).Type = "CMD" => Head(q).seen \subseteq b)
  <2>1. \A i \in DOMAIN Tail(q) : i + 1 \in DOMAIN q /\ Tail(q)[i] = q[i + 1]
    BY <1>2
  <2>2. Head(q) = q[1] /\ 1 \in DOMAIN q
    BY <1>2
  <2> QED
    BY <1>1, <2>1, <2>2 DEF SeenIn
<1>3. ASSUME NEW m \in T, m.Type = "CMD" => m.seen \subseteq b
      PROVE  SeenIn(Append(q, m), b)
  <2>1. \A i \in DOMAIN Append(q, m) :
            (i \in DOMAIN q /\ Append(q, m)[i] = q[i]) \/ Append(q, m)[i] = m
    OBVIOUS
  <2> QED
    BY <1>1, <1>3, <2>1 DEF SeenIn
<1> QED
  BY <1>1, <1>2, <1>3

\* What has been acknowledged stays in redis, whatever is acknowledged next.
LEMMA AckedFrame ==
    ASSUME TypeInv, TypeInv', Grows, ReadInv,
           \A e \in acked' : e \in acked \/
               \E w \in Worker : \E i \in DOMAIN out[w] :
                   out[w][i].status = "OK" /\ e.key = out[w][i].key /\ e.ver = out[w][i].ver
    PROVE  AckedKept'
<1> SUFFICES ASSUME NEW e \in acked'
             PROVE  e.ver <= clock' /\ (e.key \in lost' \/ e.ver <= redis'[e.key])
  BY DEF AckedKept, Findable
<1>1. e.key \in Key /\ e.ver \in Nat
  BY DEF TypeInv, TypeOK, HistOK, Version
<1>2. Findable(e.key, e.ver)
  BY DEF ReadInv, AckedKept, JobRead, OksKept
<1> QED
  BY <1>1, <1>2 DEF Grows, Findable

\* A step of worker w is looked at for w alone, and for what it acknowledges.
LEMMA WorkerRead ==
    ASSUME TypeInv, TypeInv', Grows, ReadInv, NEW w \in Worker,
           \A x \in Worker : x # w => /\ pc'[x] = pc[x] /\ cmd'[x] = cmd[x] /\ out'[x] = out[x]
                                      /\ queue'[x] = queue[x] /\ missed'[x] = missed[x],
           queue'[w] = queue[w] \/ (queue[w] # <<>> /\ queue'[w] = Tail(queue[w])),
           JobRead(w)', AckedKept'
    PROVE  ReadInv'
<1>1. ASSUME NEW x \in Worker PROVE JobRead(x)'
  <2>1. CASE x = w
    BY <2>1
  <2>2. CASE x # w
    BY <2>2, JobFrame DEF ReadInv
  <2> QED
    BY <2>1, <2>2
<1>3. LostGone'
  BY DEF ReadInv, Grows
<1>2. ASSUME NEW x \in Worker PROVE SeenIn(queue'[x], acked')
  <2>1. queue[x] \in Seq(WorkerMsg) /\ SeenIn(queue[x], acked) /\ acked \subseteq acked'
    BY DEF TypeInv, TypeOK, PoolOK, ReadInv, Grows
  <2>2. SeenIn(queue[x], acked') /\ (queue[x] # <<>> => SeenIn(Tail(queue[x]), acked'))
    BY <2>1, SeenFrame
  <2> QED
    BY <2>2
<1> QED
  BY <1>1, <1>2, <1>3 DEF ReadInv

\* Every step keeps the invariant.
LEMMA StepRead == ReadInv /\ VerInv /\ TypeInv /\ [Next]_vars => ReadInv'
<1> SUFFICES ASSUME ReadInv, VerInv, TypeInv, [Next]_vars PROVE ReadInv'
  OBVIOUS
<1>a. TypeInv' /\ Grows
  BY StepTyped, RedisGrows
<1>b. /\ pc \in [Worker -> {"take", "table", "mysql", "done"}]
      /\ cmd \in [Worker -> WorkerCmd] /\ out \in [Worker -> Seq(Reply)]
      /\ queue \in [Worker -> Seq(WorkerMsg)] /\ JobOK /\ missed \in [Worker -> BOOLEAN]
  BY DEF TypeInv, TypeOK, JobOK, PoolOK, WorkerCmd, HistOK
<1> USE <1>a
<1>1. ASSUME jobVars' = jobVars, acked' = acked, missed' = missed,
             \A w \in Worker : SeenIn(queue[w], acked') => SeenIn(queue'[w], acked')
      PROVE  ReadInv'
  <2>1. AckedKept'
    BY <1>1, AckedFrame
  <2>2. \A w \in Worker : JobRead(w)'
    BY <1>1, JobFrame DEF jobVars, ReadInv
  <2> QED
    BY <1>1, <2>1, <2>2 DEF ReadInv, Grows
<1>2. ASSUME NEW r \in Requests, NEW c \in Conn, NEW id \in ConId, Push(r, c, id) PROVE ReadInv'
  <2> DEFINE m == Command(r, c, id)
  <2>1. m \in WorkerMsg /\ m.seen = acked
    BY StoreAssumption, CommandTyped DEF Command, TypeInv, TypeOK, WorkerCmd
  <2>2. jobVars' = jobVars /\ acked' = acked /\ missed' = missed /\ queue' = [queue EXCEPT ![nextThreadId'] = Append(@, m)]
    BY <1>2 DEF Push, histVars
  <2> HIDE DEF m
  <2>3. ASSUME NEW w \in Worker, SeenIn(queue[w], acked') PROVE SeenIn(queue'[w], acked')
    <3>0. acked' \subseteq acked' /\ m.seen \subseteq acked' /\ queue[w] \in Seq(WorkerMsg)
      BY <1>b, <2>1, <2>2
    <3>1. SeenIn(Append(queue[w], m), acked')
      BY <2>1, <2>3, <3>0, SeenFrame
    <3>2. queue'[w] = queue[w] \/ queue'[w] = Append(queue[w], m)
      BY <1>b, <2>2
    <3> QED
      BY <2>3, <3>1, <3>2
  <2> QED
    BY <1>1, <2>2, <2>3
<1>3. ASSUME PingAll \/ StopWorker PROVE ReadInv'
  <2>1. jobVars' = jobVars /\ acked' = acked /\ missed' = missed
    BY <1>3 DEF PingAll, StopWorker, histVars
  <2>2. ASSUME NEW w \in Worker, SeenIn(queue[w], acked') PROVE SeenIn(queue'[w], acked')
    <3>0. acked' \subseteq acked' /\ queue[w] \in Seq(WorkerMsg)
          /\ \A m \in {PingMsg, Stop} : m \in WorkerMsg /\ m.Type # "CMD"
      BY <1>b, Cmds
    <3>1. \A m \in {PingMsg, Stop} : SeenIn(Append(queue[w], m), acked')
      BY <2>2, <3>0, SeenFrame
    <3>2. queue'[w] = queue[w] \/ \E m \in {PingMsg, Stop} : queue'[w] = Append(queue[w], m)
      BY <1>3, <1>b DEF PingAll, StopWorker
    <3> QED
      BY <2>2, <3>1, <3>2
  <2> QED
    BY <1>1, <2>1, <2>2
<1>4. ASSUME Main, ~StopWorker PROVE ReadInv'
  BY <1>1, <1>4 DEF Main, Quit, JoinWorker, StopWriter, JoinWriter, StopLog, JoinLog, Joined,
     poolVars, histVars
<1>5. ASSUME NEW t \in Writer, WriterStep(t) PROVE ReadInv'
  BY <1>1, <1>5 DEF WriterStep, Execute, ExecuteFails, ExecuteRefused, WriterPing, WriterStop,
     poolVars, histVars
<1>6. ASSUME LogStep \/ Environment \/ UNCHANGED vars PROVE ReadInv'
  BY <1>1, <1>6 DEF LogStep, Environment, RedisDown, RedisBack, MySqlDown, MySqlBack, RedisForgets, Silence,
     Answers, vars, internalVars, poolVars, histVars
<1>7. ASSUME Crash PROVE ReadInv'
  <2>1. acked' = acked /\ \A w \in Worker :
            pc'[w] = "take" /\ out'[w] = <<>> /\ queue'[w] = <<>> /\ cmd'[w] = Idle
    BY <1>7 DEF Crash
  <2>2. Idle.seen = acked
    BY DEF Idle, Command
  <2>3. AckedKept'
    BY <2>1, AckedFrame
  <2> QED
    BY <2>1, <2>2, <2>3 DEF ReadInv, JobRead, OksKept, SeenIn, Missing, Fresh, Grows
<1>8. ASSUME NEW w \in Worker, WorkerStep(w) PROVE ReadInv'
  <2>1. JobRead(w) /\ AckedKept /\ SeenIn(queue[w], acked) /\ acked \subseteq acked'
    BY DEF ReadInv, Grows
  <2>2. ASSUME acked' = acked PROVE AckedKept'
    BY <2>2, AckedFrame
  <2>3. CASE Take(w)
    <3>1. Head(queue[w]).seen \subseteq acked
      BY <1>b, <2>1, <2>3 DEF Take, SeenIn
    <3>2. cmd'[w] = Head(queue[w]) /\ out'[w] = <<>> /\ pc'[w] = "table" /\ acked' = acked /\ missed' = missed
      BY <1>b, <2>3 DEF Take, histVars
    <3>3. JobRead(w)'
      BY <3>1, <3>2 DEF JobRead, OksKept, Missing, Fresh
    <3> QED
      BY <1>b, <2>2, <2>3, <3>2, <3>3, WorkerRead DEF Take
  <2>4. CASE TakePing(w) \/ TakeStop(w)
    <3>1. pc'[w] # "mysql" /\ cmd' = cmd /\ out' = out /\ acked' = acked /\ missed' = missed
          /\ \A x \in Worker : x # w => pc'[x] = pc[x]
      BY <1>b, <2>4 DEF TakePing, TakeStop, jobVars, histVars
    <3>2. JobRead(w)'
      BY <2>1, <3>1, JobFrame
    <3>3. queue[w] # <<>> /\ queue' = [queue EXCEPT ![w] = Tail(@)]
      BY <2>4 DEF TakePing, TakeStop
    <3> QED
      BY <1>b, <2>2, <3>1, <3>2, <3>3, WorkerRead
  <2>5. CASE SaveToMySql(w) \/ SaveToMySqlFails(w)
    <3>1. pc' = [pc EXCEPT ![w] = "table"] /\ cmd' = cmd /\ out' = out /\ acked' = acked /\ queue' = queue
          /\ missed' = missed
      BY <2>5 DEF SaveToMySql, SaveToMySqlFails, poolVars, histVars
    <3>2. JobRead(w)'
      BY <1>b, <2>1, <3>1, JobFrame
    <3> QED
      BY <1>b, <2>2, <3>1, <3>2, WorkerRead
  <2>6. CASE SendReply(w)
    <3>1. pc' = [pc EXCEPT ![w] = "take"] /\ cmd' = cmd /\ out' = out /\ queue' = queue /\ missed' = missed
      BY <2>6 DEF SendReply, poolVars
    <3>2. JobRead(w)'
      BY <1>b, <2>1, <3>1, JobFrame
    <3>3. \A e \in acked' : e \in acked \/ \E i \in DOMAIN out[w] :
              out[w][i].status = "OK" /\ e.key = out[w][i].key /\ e.ver = out[w][i].ver
      BY <2>6 DEF SendReply, Keyed
    <3>4. AckedKept'
      BY <3>3, AckedFrame
    <3> QED
      BY <1>b, <3>1, <3>2, <3>4, WorkerRead
  <2>7. ASSUME NEW s \in {"OK", "ERROR", "REDISERROR", "redis", "mysql", "none", "empty", "-1", "-2", "-3"},
               NEW v \in Nat, Answer(w, s, v), Len(out[w]) < Len(cmd[w].tables),
               cmd' = cmd, queue' = queue, acked' = acked,
               \A x \in Worker : x # w => pc'[x] = pc[x] /\ missed'[x] = missed[x],
               pc'[w] # "mysql" \/ cmd[w].op = "set",
               s = "OK" => v <= clock' /\ v <= redis'[KeyOf(w)],
               s \in {"redis", "mysql", "none"} /\ ~LookedPast(w)
                   => \A e \in cmd[w].seen : e.key = KeyOf(w) => e.ver <= v
        PROVE  ReadInv'
    <3> DEFINE r == [key |-> KeyOf(w), status |-> s, ver |-> v, past |-> LookedPast(w)]
    <3>1. out'[w] = Append(out[w], r) /\ \A x \in Worker : x # w => out'[x] = out[x]
      BY <1>b, <2>7, AnswerTyped
    <3>0. LookedPast(w) \in BOOLEAN
      BY DEF LookedPast
    <3>2. r \in Reply /\ r.key = KeyOf(w) /\ r.status = s /\ r.ver = v /\ r.past = LookedPast(w)
      BY <1>b, <2>7, <3>0, KeyOfTyped DEF Reply
    <3> HIDE DEF r
    <3>3. JobRead(w)'
      BY <2>1, <2>7, <3>1, <3>2, AnswerRead
    <3> QED
      BY <2>2, <2>7, <3>1, <3>3, WorkerRead
  <2>8. CASE SaveToRedis(w)
    <3>1. /\ Answer(w, "OK", clock') /\ clock' \in Nat /\ Len(out[w]) < Len(cmd[w].tables)
          /\ cmd' = cmd /\ queue' = queue /\ acked' = acked /\ cmd[w].op = "set"
          /\ pc' = [pc EXCEPT ![w] = "mysql"] /\ redis' = [redis EXCEPT ![KeyOf(w)] = clock']
          /\ missed' = missed
      BY <2>8 DEF SaveToRedis, AtRedis, poolVars, TypeInv, TypeOK, HistOK
    <3>2. redis'[KeyOf(w)] = clock' /\ clock' <= clock'
      BY <1>b, <3>1, KeyOfTyped DEF TypeInv, TypeOK, RedisOK
    <3> QED
      BY <1>b, <2>7, <3>1, <3>2
  <2>9. CASE SaveToRedisRefused(w) \/ SaveToRedisNoReply(w) \/ SaveToRedisReplyLost(w)
    <3>1. /\ Answer(w, "ERROR", 0) \/ Answer(w, "REDISERROR", 0)
          /\ Len(out[w]) < Len(cmd[w].tables)
          /\ cmd' = cmd /\ queue' = queue /\ acked' = acked /\ cmd[w].op = "set" /\ pc' = pc
          /\ missed' = missed
      BY <2>9 DEF SaveToRedisRefused, SaveToRedisNoReply, SaveToRedisReplyLost, AtRedis, poolVars, histVars
    <3> QED
      BY <2>7, <3>1
  <2>10. CASE LoadFromRedis(w)
    <3> DEFINE k == KeyOf(w)
    <3>1. /\ pc[w] = "table" /\ Len(out[w]) < Len(cmd[w].tables) /\ acked' = acked
          /\ cmd' = cmd /\ queue' = queue /\ k \in Key
          /\ missed' = [missed EXCEPT ![w] = readis[w] # "ok" \/ k \in lost]
      BY <1>b, <2>10, KeyOfTyped DEF LoadFromRedis, AtRedis, poolVars
    <3>2. cmd[w].seen \subseteq acked /\ \A e \in acked : e \in Version /\ e.ver \in Nat
      BY <2>1 DEF JobRead, TypeInv, TypeOK, HistOK, Version
    <3>3. redis[k] \in Nat
      BY <3>1 DEF TypeInv, TypeOK, RedisOK
    <3>4. \A e \in cmd[w].seen : e.key = k /\ k \notin lost => e.ver <= redis[k]
      BY <2>1, <3>2 DEF AckedKept, Findable
    <3>5. CASE readis[w] = "ok" /\ redis[k] # 0
      <4>1. Answer(w, "redis", redis[k]) /\ pc' = pc
        BY <2>10, <3>5 DEF LoadFromRedis
      <4>2. k \notin lost
        BY <3>5 DEF ReadInv, LostGone
      <4>3. \A x \in Worker : x # w => missed'[x] = missed[x]
        BY <1>b, <3>1
      <4> HIDE DEF k
      <4> QED
        BY <2>7, <3>1, <3>3, <3>4, <4>1, <4>2, <4>3 DEF k
    <3>6. CASE ~(readis[w] = "ok" /\ redis[k] # 0)
      <4>1. out' = out /\ pc' = [pc EXCEPT ![w] = "mysql"]
        BY <2>10, <3>6 DEF LoadFromRedis
      <4>2. missed'[w] \/ Unseen(w)
        <5>1. CASE readis[w] # "ok" \/ k \in lost
          BY <1>b, <3>1, <5>1
        <5>2. CASE readis[w] = "ok" /\ k \notin lost
          BY <3>2, <3>4, <3>6, <5>2 DEF Unseen
        <5> QED
          BY <5>1, <5>2
      <4>3. JobRead(w)'
        BY <2>1, <3>1, <4>1, <4>2, JobFrame
      <4>4. \A x \in Worker : x # w => missed'[x] = missed[x] /\ pc'[x] = pc[x]
        BY <1>b, <3>1, <4>1
      <4> QED
        BY <2>2, <3>1, <4>1, <4>3, <4>4, WorkerRead
    <3> QED
      BY <3>5, <3>6
  <2>13. CASE LoadFromRedisRefused(w)
    <3>1. /\ acked' = acked /\ cmd' = cmd /\ queue' = queue /\ out' = out
          /\ pc' = [pc EXCEPT ![w] = "mysql"] /\ missed' = [missed EXCEPT ![w] = TRUE]
      BY <2>13 DEF LoadFromRedisRefused, AtRedis, poolVars
    <3>2. missed'[w] /\ \A x \in Worker : x # w => missed'[x] = missed[x] /\ pc'[x] = pc[x]
      BY <1>b, <3>1
    <3>3. JobRead(w)'
      BY <2>1, <3>1, <3>2, JobFrame
    <3> QED
      BY <2>2, <3>1, <3>2, <3>3, WorkerRead
  <2>11. CASE LoadFromMySql(w) \/ LoadFromMySqlM(w) \/ LoadFromMySqlUntyped(w)
    <3> DEFINE k == KeyOf(w)
    <3>1. /\ pc[w] = "mysql" /\ cmd[w].op # "set" /\ acked' = acked /\ missed' = missed
          /\ cmd' = cmd /\ queue' = queue /\ pc' = [pc EXCEPT ![w] = "table"]
      BY <2>11 DEF LoadFromMySql, LoadFromMySqlM, LoadFromMySqlUntyped, poolVars, histVars
    <3>2. Len(out[w]) < Len(cmd[w].tables)
      BY <3>1 DEF TypeInv, AtTable
    <3>3. k \in Key /\ mysql[k] \in Nat
      BY <1>b, <3>2, KeyOfTyped DEF TypeInv, TypeOK, MySqlOK
    <3>4. LookedPast(w) \/ \A e \in cmd[w].seen : e.key = k => e.ver = 0
      BY <2>1, <3>1 DEF JobRead, Missing, Unseen, LookedPast
    <3>5. \/ \E s \in {"none", "mysql"} : Answer(w, s, mysql[k])
          \/ \E s \in {"empty", "-1", "-2", "-3"} : Answer(w, s, 0)
      BY <2>11 DEF LoadFromMySql, LoadFromMySqlM, LoadFromMySqlUntyped, Failed
    <3>6. pc'[w] # "mysql" /\ \A x \in Worker : x # w => pc'[x] = pc[x]
      BY <1>b, <3>1
    <3> HIDE DEF k
    <3>7. ASSUME NEW s \in {"none", "mysql"}, Answer(w, s, mysql[k]) PROVE ReadInv'
      <4>1. ~LookedPast(w) => \A e \in cmd[w].seen : e.key = k => e.ver <= mysql[k]
        BY <3>3, <3>4
      <4> QED
        BY <2>7, <3>1, <3>2, <3>3, <3>6, <3>7, <4>1 DEF k
    <3>8. ASSUME NEW s \in {"empty", "-1", "-2", "-3"}, Answer(w, s, 0) PROVE ReadInv'
      BY <2>7, <3>1, <3>2, <3>6, <3>8
    <3> QED
      BY <3>5, <3>7, <3>8
  <2> QED
    BY <1>8, <2>3, <2>4, <2>5, <2>6, <2>8, <2>9, <2>10, <2>11, <2>13 DEF WorkerStep
<1> QED
  BY <1>2, <1>3, <1>4, <1>5, <1>6, <1>7, <1>8 DEF Next, Terminated

\* No get or mget is answered with a value older than one acknowledged before it
\* arrived, unless redis had lost the key, could not be asked or answered this very
\* look with an error: the write-behind is invisible to readers under every order
\* of the threads, every outage of MySQL and every crash.
THEOREM ReadsAreFresh == Spec => []NoStaleRead
<1>1. Init => ReadInv /\ VerInv /\ TypeInv
  BY InitRead, InitVers, InitTyped
<1>2. ReadInv /\ VerInv /\ TypeInv /\ [Next]_vars => (ReadInv /\ VerInv /\ TypeInv)'
  BY StepRead, StepVers, StepTyped
<1>3. ReadInv => NoStaleRead
  <2> SUFFICES ASSUME ReadInv, NEW w \in Worker PROVE Fresh(w)
    BY DEF Fresh, NoStaleRead
  <2> QED
    BY DEF ReadInv, JobRead
<1> QED
  BY <1>1, <1>2, <1>3, PTL DEF Spec

=============================================================================
