# A verification of cppGameFrame

cppGameFrame is a small C++ framework for game servers (`mysdk`) and the servers built on
it (`game`). This directory holds TLA+ models of the parts whose correctness depends on
the order in which threads, callbacks, messages and failures meet, the TLC configurations
that check them on small instances, and proofs, checked by TLAPS, of what holds for every
instance. Paths below are relative to ` my-simple-code/src/` of the repository.

## 1. The system

| component | state | operations | what is hard | models |
|---|---|---|---|---|
| `game/dbsrv` storage: `WorkerThread`, `WorkerThreadPool`, `WriterThread`, `WriterThreadPool`, `rcache`, `PBSql`, `LogThread` | a queue per thread, the round robins, a redis context and a MySQL handle per thread, the files of the log | get, set, mget, ping, write-behind, recover log, stop | two threads race on one key; redis and MySQL fail between two steps; crash between OK and the replace; shutdown with work queued; a log that rotates | `DBSrvStore`, `WriteBehind`, `TableRows`, `LogFiles` |
| `game/dbsrv` front: `DBSrv` | `nextid`, `conMap_`, the contexts | connect, disconnect, request, reply | a reply comes back after its connection has closed; the counter of connections wraps | `DBSrv` |
| `game/dbsrv/lua` | messages and the userdata that point to them | new, get, set, add, send, delete, `__gc` | who deletes a message | `LuaMessages` |
| `mysdk/net` server side: `EventLoop`, `EPollPoller`, `Session`, `Acceptor`, `TcpServer`, `TcpConnection`, `base/Array.h` | functors, sessions, connection states, output buffers, the array of connections | accept, read, write, close, functors, quit, destruction | a connection closes while events of the same round wait; a removal that moves another connection | `NetServer` |
| `mysdk/net` client side: `Connector`, `TcpClient` | the attempt, its backoff, the connection | connect, retry, stop, reconnect | a retry fires after another attempt; an attempt that is forgotten | `NetClient` |
| `mysdk/net` timers: `TimerQueue`, `Timer` | the ordered list, the timerfd | schedule, expire, repeat | callbacks and threads that change the queue while it runs | `TimerQueue` |
| `mysdk/base`: `YPipeT`, `YQueueT`, `AtomicPtrT` | the pointers of the pipe and its chunks | write, flush, read, check_read | writer and reader meet on one atomic word; memory is used again | `YPipe` |
| `mysdk/base`: `BlockingQueue`, `MutexLock`, `Condition`, `Thread` | the deque, the mutex, who waits | put, take, start, STOP, join | wake-ups without a signal, lost wake-ups | `BlockingQueue` |
| `mysdk/net/Buffer`, `mysdk/protocol/kabu/codec`, `game/dbsrv/codec` | bytes and two indices | append, retrieve, prepend, frame and unframe, arguments, messages by name | partial frames, several frames in a read, a buffer that grows or moves under them | `Framing`, `Packet` |
| `mysdk/database/mysql` | the pool, its pipes, its connections, the sessions of the server | execute, direct execute, transactions, ping, close | a connection lost inside a transaction; close with work queued | `Database` |
| `mysdk/exconfig` | the parsed settings | SetSource, GetVal | a parser of flags and `goto` | `ConfigFile` |
| `game/LoongBgSrv` connections, logins, joins, php thread | `bgPlayerMap_`, the `BgClient` of each connection, the list of clients, the joins of a day, the php queue | login, message, disconnect, idle timer, tell php, stop | a second login on a connection; a player deleted while a battle names it; a list kept in order by its use | `LoongBgSrv`, `BgClients` |
| `game/LoongBgSrv` battles: `Battleground`, `BattlegroundMgr`, `StateBattleground*` | state, teams, scene, result | enter, leave, run, settle, close | players come and go in any state; a battleground is used again | `Battle`, `Battleground` |
| `game/LoongBgSrv` fight: `BgUnit`, `BgPlayer`, `BgFlower`, `BgBuilding`, `skill`, `package`, `scene` | hit points, bufs and their bits, titles, items on the ground and in packages | hit, skill, buf, plant, select a pet, pick up, use, run | one blow kills, splashes, burns and is answered; bufs expire while other things happen | `Combat` |
| the same, towards clients | what each client was told | the packets that are broadcast | a packet left out, or in the wrong order | `SceneView` |
| `game/LoongBgSrv/base` | the four base tables | load, look up | ids are positions; lists are cut by colons | `BaseTables` |
| `game/bosssrv` | the boss, who hurt it, the ranking, the php queue | hit, tick, settle, stop | the settlement is reached by three ways; the thread that tells php | `BossSrv` |
| `main` of dbsrv, LoongBgSrv and bosssrv | the process, the pid file, the port | options, cores, root, daemon, pid file, config, serve, stop | several processes share two files; kill at any moment | `Startup` |
| signal handlers of the three | the handlers and the locks a line of the log takes | install, handle, end | a handler needs the lock its thread holds | `Signals` |
| `LogSrv`, `xmlSrv`, `dataServer`, `luaevent`, `game/kabu_codec`, `mysdk/protocol/protobuf`, `mysdk/config`, tools, tests, php | | | no server of the build uses them, or generated | not modelled |

How they meet: the loop thread of a server owns its connections and never blocks. `DBSrv`
pushes each request with the *number* of its connection to one of the worker queues; a
worker works on redis and MySQL, pushes statements to the writers' queues, and sends the
reply back as a functor queued in the loop. Writers report what MySQL refused to the log
thread. Thus the threads share queues and nothing else, and the model's atomic steps are
the code between two accesses to a queue, to redis or to MySQL. The queue is
`mysdk/base/BlockingQueue.h`, one mutex and one condition, so that put and take are single
steps.

Each model takes the parts below it as they were shown to be: `DBSrvStore` has `put` and
`take` in one step each because `BlockingQueue` implements `Handover`, `Database` has a pipe
that is a queue because `YPipe` does, and the servers handle whole messages because of `Framing`.

## 2. Modules

| module | what it is |
|---|---|
| `WriteBehind` | the abstract promise of the store: an accepted write stays owed until it is in the database or its key is taken by the log thread |
| `DBSrvStore` | the threads, queues and links of dbsrv's storage and the shutdown of `main.cc` |
| `DBSrv` | extends `DBSrvStore` with the loop's side: connections, numbers, functors |
| `TableRows` | a table that dbsrv takes apart into columns and puts together again |
| `LogFiles` | the log thread's files, their rotation and their recovery |
| `LuaMessages` | the messages a worker and its scripts hold |
| `NetServer` | one event loop, its acceptor and its connections |
| `NetClient` | one event loop with a client that reconnects |
| `TimerQueue` | the timers of a loop and the threads that schedule |
| `Handover` | the abstract promise of a queue between threads: put and take in one step each, in order, until the last item |
| `YPipe`, `BlockingQueue` | the two queues between threads, at the grain of their atomic steps |
| `Framing`, `Packet` | `Packet` extends `Framing`: buffers and frames, and the arguments and messages in them |
| `Database` | the pool of MySQL connections and its threads |
| `ConfigFile` | the configuration reader, against what the author of a file means |
| `Battle` | the abstract promise of the battlegrounds: one battle at a time for a player, a prize only at the end of a fight, everyone released |
| `Battleground` | the states, members, scenes and flowers of the battlegrounds, and the count of battles |
| `LoongBgSrv` | extends `Battleground` with connections, logins and the tick |
| `BgClients` | the list of clients, the idle timer, the packet limits, the php thread |
| `Combat`, `SceneView` | the fight in one scene, and what its clients know of it |
| `BaseTables`, `BossSrv`, `Startup`, `Signals` | the base tables, bosssrv, the three `main`s, the signals |
| `DBSrvStoreProofs`, `DBSrvProofs` | the proofs about `DBSrvStore` with its refinement of `WriteBehind`; about `DBSrv`, about what arrives through `Framing` and `Packet`, and about `ConfigFile`, the file dbsrv is configured by |
| `NetServerProofs` | those about `NetServer` and `TimerQueue` |
| `QueueProofs` | those about `BlockingQueue` and `YPipe`, and that both implement `Handover` |
| `LoongBgSrvProofs` | those about `LoongBgSrv`, its refinement of `Battle`, and `BgClients` |
| `CombatProofs`, `FoldFacts` | those about `Combat` and `SceneView`, and what they need of folds |
| `PartProofs` | those about the parts that share no state with others: `Signals`, `Startup`, `Database`, `NetClient`, `BaseTables`, `LuaMessages`, `LogFiles`, `BossSrv` |
| `MCDBSrvStore`, `MCDBSrv`, `MCNetServer`, `MCLoongBgSrv`, `MCTableRows` | instances of one module |
| `MCCombat`, `MCLoops`, `MCParts` | instances of several modules that share no state: a behaviour picks one part and is a behaviour of its module |

Definitions whose comment starts with MUTANT are not part of a specification: each is a
mapped definition with a plausible mistake in it, and shows that the property it is paired
with in `PROJECT.json` would notice.

### DBSrvStore

A value is the number of the redis SET that stored it, so newer is larger; a key is a user and a
table. `queue[w]` and `wqueue[t]` are the `queue_` of a `WorkerThread` and a `WriterThread`,
`logq` and `bstart` the queue and `bstart_` of `LogThread`, `recover` what it took for its file
(`LogFiles` says what becomes of the line). `pc[w]` says where the handler of worker `w` is: in
`queue_.take()`, before redis for the next table (`"table"`), before MySQL (`"mysql"`) or
returned (`"done"`); `out[w]` is the reply it builds. `readis`, `wmysql` and `tmysql` are the
states of the connections: a MySQL handle is `"open"`, `"stale"` when the server went away, and
`"null"` after a failed reopen, from which the code never recovers
(`MySQLConnection::handleMySQLErrno`); a redis context recovers at the next ping. `silent` holds
the servers that leave what they are sent without an answer: hiredis gets a limit for the
connect only (`rcache.cc`) and MySQL none, so a thread that asks one of them waits until it
answers or goes away. `sql` of a set says what `saveToMySql` can make of its contents: nothing,
a statement, or one that needs the handle to be escaped. `missed[w]` is history: the last look
of `w` into redis could not tell. `phase`, `stopAt`, `asked` follow `main` through `DBSrv::stop`
and `LogThread::stop`, thread by thread, STOP and join apart.

One action is one uninterrupted piece of a thread: `Take`, `TakePing`, `TakeStop`
(`threadHandler`), `SaveToRedis*` (the outcomes of the command: done, refused, not sent, sent
with the reply lost), `SaveToMySql`, `SaveToMySqlFails`, `LoadFromRedis`, `LoadFromRedisRefused`
(an error reply, which the code takes for no value), `LoadFromMySql`, `LoadFromMySqlM`,
`LoadFromMySqlUntyped` (a type that cannot be created), `SendReply`, `Execute*`, `WriterPing`,
`WriterStop`, `LogStep`, and `Push`, `PingAll`, `Quit`, `Stop*`, `Join*` for the loop thread and
main. `RedisDown`, `RedisForgets`, `MySqlDown`, `Silence`, `Answers` and so on are the world
outside. `Crash` kills the process in any state and starts it again with empty queues.

### DBSrv

`Connected` and `Disconnected` are the two halves of `onConnectionCallback`,
`OnKaBuMessage` composes with `Push`, `QueueReply` with `SendReply`, and `RunFunctor` is
`DBSrv::sendReply` run by the loop. `ConIdLimit` is the 90000000 of the code.

### NetServer

`at` is where the loop is: before the poll, in the handlers, in the functors, out of the
loop, or after the server's destructor. `fired[c]` is what the poll reported of connection
`c` and has not been handled; the sessions are handled in any order but one at a time,
errors before writes before reads, as in `Session::handleEvent`. `array` and `index` are
`tcpConnectionArray_` and the index each item carries. `HandleMessage` lets the program on
top do nothing, send to any connection, shut its own down or close it. A byte is its
position in the stream, so that order can be seen. A use of a deleted connection sets
`dangling` and has no other effect: the real outcome is undefined.

A second `connectDestroyed` of one connection is possible (see `net_timer`); the model goes
on with its first effect and lets `EndsOnce` say where it cannot come from.

### Battleground and LoongBgSrv

A `BgPlayer` object is named by its connection and its playerId; `here` is the set of those
that exist, `bgId`, `team` and `pScene` their members. `state`, `over` and `wait` stand for
`pState_`: which state object there is, whether its time limit has passed, and
`bWaitState_` of the run state. `scene` is `playerMgr_`, `down` the buildings without hit
points, `teamNum` the two counters (a uint8 each). `told` is what was last put into the
queue of the php thread; `settled` and `charged` are history, and `orphans` names the
players whose connection logged in again as somebody else.

The server has one thread, so an action is a message handler, a connection callback, or
what `BattlegroundMgr::run` does for one battleground: `EnterBattle` (`onEnterBattle` with
`addBgPlayer`), `ExitBattle`, `DestroyBuilding` (`onUseSkill`, the blow that kills: the
rest of the fight is `Combat`),
`PlantFlower`, `ConnectionUp`, `ConnectionDown` (the player leaves, then is deleted),
`LoginOk`, `LoginTwice` (the connection is closed inside `close()`, so it is
`ConnectionDown`), and `RunBattleground`, which is `SceneRun` followed by one of the states
or `CloseBattleground`. The packet limits and the idle timer close a connection:
`ConnectionDown` may happen at any time.

### Combat and SceneView

`unit[u]` is a `BgUnit` with its hit points and `bufs`, which are found and replaced by their id
and take their type from the table (`TypeOf`: several ids may have one type); what the bufs do
to `operation_` and to the flags of hurting is kept apart from them, since the code keeps it
apart. A package has its places and `curItemNum_`; a client may use item 0, which is what an
empty place holds. `twice` and `wasted` are history for the properties. A handler returns early
where the code does and does everything else in one step: a blow goes through `OnEmitSkill`,
`OnHurt`, the bufs of the skill and the splash. `SceneRun` is one run of the scene for players,
flowers and drops. A clock is the time since, capped where the code no longer distinguishes.
Positions are left out: who is near, and where an item falls, is chosen.

`SceneView` gives every client `view`, what a client that applies the packets as the
protocol document has them would know, and `Apply` is one packet. A flower is named by its
place in the order of planting and carries its id, which another may carry too (`twin`, history,
says that one did); `getFlower` finds the first. Its actions are those of
`Combat` cut down to what they send and to whom.

### The loops (`MCLoops`)

* `NetClient`: `Start`, `Retry`, `Restart` are those of `Connector` (`Connecting` its
  `connecting`); the session, the retry timer, the connection and the functors are kept as
  the loop sees them, so that an event may find what a functor deleted. `Poll`,
  `Handle*`, `SwapFunctors`, `RunFunctor`, `EndRound` are a round of `EventLoop::loop`.
* `TimerQueue`: `Schedule` and `FinishSchedule` are `schedule` before and after its unlock;
  `Wake`, `TakeExpired`, `RunTimer`, `Rearm`, `ResetForNext` are `handleRead`.
* `YPipe`: one action per access to the atomic pointer, with what the thread does alone
  before it. `BlockingQueue`: one action per step that holds or releases the mutex.
* `Database`: `ExecuteOk` and `ExecuteRefused` are one statement of a job, any of which may be
  refused, `START TRANSACTION`, `COMMIT` and `ROLLBACK` too (`slipped` is the history of those
  that leave changes without a transaction around them); `LoseConnection` may happen at any
  time; `handleMySQLErrno` reopens and sends the statement again.
* `BgClients`: `PeerMessage`, `OnTimer`, `TellPhpBattleInfo` and the php thread's `PhpTest`
  and `PhpTake`. A poll takes the time once, a callback takes it anew: `lag` is between them.
* `Framing`: `Decode*` is one turn of the loop of `onMessage`. `Packet`: `Get*`, `Put*`.
* `Signals`: a thread's `todo` are the locks it is about to take and give; a signal puts the
  handler's steps before them.
* `LuaMessages`: one action per binding that makes, hands over, uses or deletes a message. What
  the fields hold is left out. A use of a message that is gone is undefined and only noted
  (`wild`).

### The other parts (`MCParts`)

* `BaseTables`: `Fetch*` reads a row into the array, `Get*BaseInfo` looks one up. A number of a
  column goes through a short, as in `ColonBuf::GetShort`.
* `BossSrv`: handlers of the loop, and `PhpThreadHandler`, one message at a time.
* `ConfigFile`: the file is written by `Write*` one token at a time beside what it `meant`, and
  the `Passes` over a line are the code between two `goto parse`. `Aborts` is a pass whose
  assert fails: `CMakeLists.txt` defines `NDEBUG` for Release builds only, which are not its
  default.
* `Startup`: `Main` is the order of each program's steps; `At(p, step)` is where `p` is.
  Opening, closing and removing the pid file may fail.
* `LogFiles`: `TakeLine` is one line of the thread with the rotation it may cause.

## 3. What is checked

| run | instance | properties |
|---|---|---|
| `dbsrv_store` | 2 workers, 1 writer, a key, 3 requests of set (contents to escape or plain), get and mget, 1 fault (an outage, a silence, a refusal, an eviction), 1 crash | `TypeOK`, `NoStaleRead`, `SameLaneInOrder` |
| `dbsrv_stop` | 2 workers, 2 writers, 2 sets, a ping, 1 fault | `GracefulStopDrains`, `StopTerminates`, `Promise` |
| `dbsrv_front` | 3 connections, 2 numbers, 2 requests, 1 crash | `RepliesReachTheAsker`, `EveryRequestAnswered` |
| `net_server` | 2 connections, kernel buffer of 1 byte, answers of 2 bytes, 1 message, 1 functor of another thread, 1 timer, 1 reset | `ArrayIndexed`, `SentInOrder`, `EndsOnce`, `AbortsOnlyOnReset`, `ClosedPeerIsDeleted` |
| `bg_ends` | 1 battleground of 2 a team, 2 connections, 2 ids, 2 entries, 1 flower | `FreshStart`, `BattlesEnd` |
| `bg_combat` | 2 players with pets, 1 flower, 2 buildings, 2 skills, 6 bufs of which 2 stun, 1 drop, 1 use of item 0, 2 entries; beside it 2 clients, 2 flowers of 1 id, 1 building, 1 spot | `FightAddsUp`, `FlagsMatchBufs`, `KillIsADeath`, `ViewsAgree` |
| `loops` | 10 parts; client: 2 faults, 4 flips of the server; timers: 2, one other thread; pipe: chunks of 2, 4 writes; queue: 2 putters of 2; database: 1 direct connection, 2 threads, 1 loss, 2 refusals; 2 peers; 2 frames; 3 arguments | `OneAttempt`, `TimersWatched`, `PipeDelivers`, `QueueHandsOver`, `TransAtomic`, `IdleAreClosed`, `BytesIntact`, `SignalsEndIt`, `ScriptsAreSafe`, `ClientReconnects`, `EveryTimerRuns`, `PhpServesUntilStop` |
| `parts` | 6 parts; battles: 2 battlegrounds of 1 a team, 2 connections, 2 ids, 3 entries; tables of 2 rows; 3 blows of 3 players; files of 7 tokens, 2 blocks and 2 names; 2 processes, 3 numbers; 4 lines | `TeamsCounted`, `SceneIsBattle`, `SettledRight`, `BasesAreFound`, `PrizesRight`, `SettingsAsMeant`, `StartsInOrder`, `LinesAreKept`, `Promise` |
| `bg_joins` | violated | `JoinLimit` |
| `bg_flowers` | violated | `FlowerIdsUnique` |
| `table_rows` | violated | `MySqlTellsTheTable` |
| `net_timer` | violated | `DestroyedIsLast` |

What they show:

* **NoStaleRead.** A get does not answer with a value older than one whose OK had been
  given before the get arrived, through crashes, MySQL outages and any order of threads,
  unless the worker had to look past redis for that very answer: it had no connection, redis
  answered with an error, or redis had lost the key and no set has brought it back. Get and mget
  alike. Three requests are the fewest that
  show the hazard (two sets and a get), and two workers the fewest that reorder.
* **SameLaneInOrder.** Two sets of a key may reach MySQL in the wrong order: the code does
  not prevent it. The property says exactly how: only through different pairs of worker
  and writer.
* **GracefulStopDrains**, **Promise**, **StopTerminates.** When main returns, every request was
  handled and every dispatched write is in MySQL or was taken by the log thread as a line of the
  recover file (`LinesAreKept` says what becomes of a line). `Promise` is the refinement: every
  step of `DBSrvStore` is a step of `WriteBehind` or a stutter, with what waits in the writers'
  queues and the log's as the owed writes. The shutdown ends through outages, refusals and lost
  answers, unless a server stays silent for ever: then a thread that main joins waits for it,
  since nothing bounds the wait. Two of each thread let every STOP be misrouted; one fault
  covers each outage, silence, refusal and loss in turn.
* **Front.** Two numbers for three connections make the counter wrap: `conMap_` never
  holds a closed connection even then, while a reply may go to a stranger only after it.
  Every request is answered or its connection closed, unless redis or MySQL stays silent.
* **NetServer.** Two connections are enough for an erase that moves the other one, and a one
  byte kernel buffer for every partial write. `AbortsOnlyOnReset` bounds a known weakness
  (`abort(); // FIXME` in `handleWrite`): the server dies only when the socket of a connection
  is in error (a reset, or any other error of the network). `EndsOnce` says that a connection is
  reported up once and down once, and destroyed once unless timers close connections.
* **Battlegrounds.** However players come and go, the counters that drive a battle are
  those of its members, and php knows them (`TeamsCounted`), the scene broadcasts to who is
  there (`SceneIsBattle`), a fight is settled at most once, with the result of its buildings
  and prizes that follow it, for players who were counted (`SettledRight`), and a closed
  battleground is as good as new (`FreshStart`). `Promise` is the refinement to `Battle`,
  with the players of a scene as the members of a battle. Three entries are the fewest with
  which somebody enters a fight that has begun. Two battlegrounds let a player go from one
  to the other and be released by one while in the other; one player a team makes every
  team full or empty, so that each test of the states goes both ways, and `bg_ends` has room
  left in the teams, where the time limits decide. `SceneIsBattle` excepts the players in
  `orphans`: a second login on one connection leaves the first player in its scene for good,
  and in `bgPlayerMap_`, where it bars its owner.
* **Fight.** Points on the ground and hit points add up, and a package counts its items, less
  one for each use of item 0, which `delItem` subtracts though nothing was there. A unit that
  cannot act, or cannot be hurt, has a buf that says so, through deaths, potions, new pets and
  returns; and the other way round, unless it has had two bufs of the type at once, of which the
  first to end clears the flag of both (two of the ids are stuns for that). A kill is
  one death of one enemy (`KillIsADeath`). Two players are one enemy each, one or two pets
  of 2 points survive one blow and not two. `ViewsAgree`: a client that has asked once knows
  the scene from broadcasts alone, with the exceptions listed in section 5. Two flowers of one id,
  as `bg_flowers` shows to be possible, are in the instance: a client knows no id that is not
  planted, and each flower that never shared its id.
* **Client and timers.** From `connect` on exactly one thing leads on, a timer, an attempt or
  a connection, and while the server is up the client is connected again and again, unless
  `connect` met an error that is only logged. Both need that no round of the loop lasts as
  long as the shortest retry delay (`SlowHandlers = FALSE`): else a retry may start an
  attempt that a functor of the same round deletes, and the client never tries again. A
  timer in the list always has an armed or readable timerfd, and runs.
* **Queues.** `PipeDelivers`, `QueueHandsOver`: in order, once, nobody sleeps on an item.
  Four writes through chunks of two reuse memory, and two putters interleave; one wake-up
  without signal shows the loop around the wait.
* **Database.** A transaction is whole unless its connection was lost while it ran (then the
  rest goes into a new session that commits each statement by itself), or the server refused to
  start it or to roll it back, which nobody looks at; after two refused COMMITs it is whole or
  still to be committed with the next.
* **Bytes.** Frames and their arguments arrive as sent however the stream is cut and
  whatever the buffer does: `InitialSize` of 2 makes it grow, move and grow again. A body of
  32762 bytes reaches the limit of an int16, which the codec of dbsrv compares lengths with.
* **Signals, scripts, idle clients, php.** Asked to end, a server ends unless a thread waits for
  a lock it holds itself, which a handler that logs makes possible. Each message has one owner
  and is deleted once, unless a script calls `pb.delete`; a script meets a message that is gone
  only as the part of a whole that was collected, or after such a delete. The idle list is in
  order up to the length of a round. php hears everything before SIGTERM.
* **Other parts.** Base tables in order, whose numbers fit a short, are found by id; the prizes
  of a boss go out once each by whatever way the settlement is reached; well-formed files are
  read as meant, and badly formed ones refused, except where a name has its value on a later
  line and another name stands behind that value: there `SetSource` aborts (two names are the
  fewest that show it); a server serves without root, with what its command line and
  configuration asked, and a pid file never names a process that ended as it should, unless that
  process said that it could not remove it (the user of `-u` may not write the directory); no
  line of the log is lost but in files of one second.

Four statements of the repository do not hold, each shown by a run of its own:

* `TcpConnection.cc:193` says nothing follows the callback that deletes a connection.
  `handleClose` queues `connectDestroyed` whenever it is called, so a timer that closes a
  connection (as `LoongBgSrv::onTimer` does) in the round in which the poll also reported
  its end has it destroyed twice.
* `LoongBgSrv.cc:438` says that a player with five battles may not play again. Only login
  looks at the count; a player who is logged in goes on.
* `FlowerMgr.cc:24` says the id of a flower is unique. The counter is one for all scenes,
  and a battleground that closes sets it to 1 for the others.
* `msg.proto:45` says of status 3 that the data came from MySQL. `PBSql.cc:51` fetches
  another row for each column, so only the first column did.

Bounds: every `Max...` constant limits how often the environment or a client acts; the
programs themselves are not bounded. A run stays below six million states and a few minutes.
`parts` does not look for deadlocks: a file ends, a process returns, a server stops.

Fairness: `dbsrv_stop` and `dbsrv_front` assume weak fairness of each thread's step (the
operating system runs every thread; `take` waits on a condition that `put` signals) and of
main's. A thread that has asked a silent server cannot go on, so fairness does not move it.
`net_server` assumes it of the loop thread (`poll` has a time limit, so the loop always comes
round). `bg_ends` assumes it of the run of each battleground (`tickMe` fires every 0.2 s and
takes every third battleground) and of its clocks. `loops` assumes it, while a part is the one,
of the client's loop, the end of an attempt to connect and the clock; of the loop, the
scheduling threads and the clock of the timers; of the loop's tick and the php thread. Clients,
peers, redis, MySQL, quit, faults and signals owe nothing.

## 4. What is proved

Each theorem below is checked by TLAPS to the last leaf, for every value of the constants that
its module's assumption admits: any number of threads, connections, players, keys or lines, and
any bound. The assumptions say no more than what the code fixes: that counts are numbers, that a
bound which divides or indexes is not 0, that lengths and numbers have their widths, that the
constants which stand for "none" are not among the things they are none of, and that tables of
skills and items are tables. TLC evaluates each of them on its instance.

A safety property is rarely inductive by itself. Each proof has an invariant that is, a
conjunction of named parts, proved from `Init` and for every action; the property follows
from it. What the parts are for:

| theorem | says | invariant, and why it needs its parts |
|---|---|---|
| **`DBSrvStoreProofs`** | | from `StoreAssumption` |
| `TypeCorrect` | `[](TypeOK /\ AtTable)` | a step before MySQL reads the table the handler is at; `AtTable` says that there is one |
| `StopDrains` | `[]GracefulStopDrains` | `StopInv`. `Accounted`: an accepted write is in MySQL, taken by the log thread or in a queue. A STOP is the last message of its queue, for which nobody may push after it: `WorkersStop`, `WritersStop`, `LogStops` get that from where main is (`MainStops`): a worker has returned before the first writer is told to stop, and a writer before the log |
| `LanesKeepOrder` | `SameLaneInOrder`, an action property | `VerInv`. `InLane`: what waits between a worker and a writer is newer than the row that came through them last. That holds over a step only if no value is in two places (`Apart`, `Once`) and none is ahead of the clock (`Bounded`) |
| `PromiseIsKept` | the refinement of `WriteBehind` | `StopInv` and `VerInv`: a value that leaves one place is owed no more only if it is in no other |
| `ReadsAreFresh` | `[]NoStaleRead` | `ReadInv`. `AckedKept`: redis has what was acknowledged, or something newer, as long as it has not lost the key. `SeenIn` and `JobRead` carry what a get saw acknowledged from its arrival to its answer. `Missing`: who goes on to MySQL was told by redis that there is nothing, and then nothing was acknowledged, or could not be told, and then its answer is marked |
| **`DBSrvProofs`** | | with `ConAssumption` |
| `FrontKeepsStore`, `ServerKeepsPromise` | `SrvSpec => Spec`, and so the promises of the store | each step of the loop is a push or a ping of the storage, or a stutter |
| `RepliesFindTheAsker` | `[]RepliesReachTheAsker` | `FrontInv`. `NumbersLead`: until the counter wraps, each number in a queue, a hand or a functor leads in `conMap_` to who asked, or nowhere |
| `FramesArrive` | `[]FramesIntact` | from `FramingAssumption`. `FrameInv`. `RestOK`: the readable bytes followed by what is still in the stream are a chain of whole frames, namely those sent and not yet delivered, wherever a read ends and however the buffer moves; `NoneWaits`: after a turn of the loop no whole frame is left behind |
| `BytesArrive` | `[]BytesIntact` | with `PacketAssumption` (a type name is 1 to 1023 bytes of 1 to 254, an argument fits its width, a string its int16). `PacketInv`. `GotRight`, `LeftRight`: the arguments got and those still in the packet are the ones put; `MessageStands` is the message of dbsrv between its two ends |
| `SettingsRead` | `[]SettingsAsMeant` | `CfgInv`: what is left of the line has a chain of places, from one where the parser stands (`Follows`: its flags, block, name and map are the author's there) to the one where the author is. From `ConfigFileAssumption`: no name is empty, and no two names of a file share a hash, which the code takes on trust |
| **`QueueProofs`** | | `QueueAssumption`, `PipeAssumption` |
| `QueueIsFifo` | `[]QueueHandsOver` | `QueueInv`. `Exclusive`: the queue that was looked at is the one popped from; `NoLostWake`: who waits unsignalled sleeps over an empty queue; `Lives`, `StopIsLast`: no put of the starter follows its STOP |
| `PipeIsFifo` | `[]PipeDelivers` | `PipeInv`. `InTurn` and `Meet`: what the two threads know of each other's positions through the atomic pointer; `OwnChunks`: the recycled chunk is nobody else's; `Kept`: what is not read yet is in its slot |
| `QueueHandsOverAtOnce` | the refinement of `Handover` by `BlockingQueue`: the put is the push, the take the pop | `QueueInv`, with `Going`: a thread that has taken STOP does not come back to take, whatever others put behind it |
| `PipeHandsOverAtOnce` | the refinement of `Handover` by `YPipe`: what waits are the items between what was read and `w` | `PipeInv`. A flush that found the reader asleep puts where it stores the pointer, any other where its cas does |
| **`NetServerProofs`** | | `NetAssumption`, `TimerAssumption` |
| `ConnectionsAreFound`, `BytesStayInOrder`, `ConnectionsEndOnce`, `OnlyResetsAbort` | `[]ArrayIndexed`, `[]SentInOrder`, `[]EndsOnce`, `[]AbortsOnlyOnReset` | `NetInv`. `Indexed`: array and index are each other's inverse; `InOrder` with the writing flag; `Asked`: what the poll reported is still so when its handler runs; `DeletedLater`, `DeletedOnce`: no connection is deleted in the round that has events of it |
| `TimersAreWatched` | `[]TimersWatched` | `TimersInv`. `InTime` speaks of `nextExpire` while it is computed but not yet set; `Setters` says who may still set the timerfd |
| **`LoongBgSrvProofs`** | | `BattlegroundAssumption`, `LoongBgSrvAssumption`, `BgClientsAssumption` |
| `MembersAreCounted`, `ScenesHoldTheirBattle`, `FightsAreSettledRight`, `BattlegroundsStartFresh` | `[]TeamsCounted`, `[]SceneIsBattle`, `[]SettledRight`, `[]FreshStart` | `BgInv`. `Membership`, `LoggedIn` and `InScene` tie player, connection, battleground and scene together, so that whoever goes, however he goes, is taken out of each; `TeamsRight`, `Told`, `Settled`, `Fresh` are about the battleground |
| `BattlesKeepPromise` | the refinement of `Battle` | `BgInv` |
| `IdleClientsGo` | `[]IdleAreClosed` | `ClientsInv`. `AgedSince`: whoever was not idle at the last `onTimer` has aged by the time since; with the order of the list (`InLine`) it bounds everybody |
| **`PartProofs`** | | the assumption of each module |
| `SignalsComeToAnEnd` | `[]SignalsEndIt` | `SigInv`. `Owners`: who holds a lock is about to give it back, or is interrupted before that; `Pending`: a signal that was caught still has its step before it |
| `ServersStartInOrder` | `[]StartsInOrder` | `StartInv`. `AllPrepared`: what a process has done by the step it is at, for each of the three mains; `Numbered`, `FileOf`: a pid in the file is of who wrote it and has not removed it, or could not |
| `TransactionsAreAtomic` | `[]TransAtomic` | `DbInv`. `Stage`, for each point in a job: what its session and the tables hold of it. `Clean`, `Own`: a session begins without another job's changes; `Alone`, `Piped`: a job is in one place; `Begun`: none has effects before it starts; `AllOrNothing`: the effects of a job that has ended, and what its session still holds of it, are both of its changes or neither |
| `OneThingLeadsOn` | `[]OneAttempt` | `ClientInv`, under the hypothesis `~SlowHandlers`. `Somewhere`: one of waiting for a retry, attempting, connected, given up, each with the functor still to run; `ReportsHold`: what the poll reported still holds |
| `BasesHoldTheDatabase` | `[]BasesAreFound` | `BaseInv`: after each table that is read, the array holds what the rows with valid ids say, each number as `GetShort` makes it |
| `MessagesHaveOneOwner` | `[]ScriptsAreSafe` | `LuaInv`. `OneOwner`, `OwnedRight`: a root is owned if and only if somebody is to delete it; `PartsGoAlong`: a part is there as long as its whole; `DeletedStay` and `PartsBorrowed`: a userdata whose message is gone holds a part or something deleted |
| `WrittenLinesStay` | `[]LinesAreKept` | `LogInv`. `WaitInOrder`, `TookBefore`: a line that waits is younger than all in the files; `NoneLater`: no file has a later name than now, so a rename puts the file behind all others; `ReplacedWereKept` |
| `PrizesGivenOnce` | `[]PrizesRight` | `BossInv`. `RankOK`: between two blows the ranking is sorted, names nobody twice, and leaves out only who has hurt no more than its last; `PrizeState`: what php was told and what waits are the prizes of hits and ranking at the settlement, or no prizes yet; `ThreadOK`: the stop is the last message |
| **`CombatProofs`** | | `CombatAssumption`, `CombatAmounts`, `ViewAssumption` |
| `FightKeepsAdding`, `FlagsFollowBufs` | `[]FightAddsUp`, `[]FlagsMatchBufs` | `FightInv`. `UnitsOK`: each unit's hit points, bufs (no id twice) and flags; `PointsOK`: a point is free or has one item, never both; `PacksOK`: the places that are taken, `curItemNum_` and the uses of item 0 |
| `EveryKillIsADeath` | `KillIsADeath`, an action property | `UnitsOK` over a blow, its splashes, its bufs and the answers to it |
| `ClientsSeeTheScene` | `[]ViewsAgree` | `ViewInv`. `Sees`: what a client that has asked knows is what the scene holds, for flowers as `KnowsBed` says. The step sends several packets while it works, so the proof carries how right a client is between them (`Right`) |

Several operations fold over a list (the bufs of a unit, the flowers or the players of a
scene). The library states induction with an operator for a parameter,
which the provers cannot instantiate. `FoldFacts` states it for a set of numbers instead, takes the
operator that is folded as a CONSTANT, and proves what `FoldLeft` returns: the last of the
values that follow one another. `CombatProofs` takes an instance of it for each fold.

Only model-checked is liveness under fairness and whatever speaks of `ENABLED`
(`StopTerminates`, `EveryRequestAnswered`, `ClosedPeerIsDeleted`, `BattlesEnd`,
`ClientReconnects`, `EveryTimerRuns`, `PhpServesUntilStop`): out of the prover's reach. The
four runs that expect a violation show a behaviour and have nothing to prove. The two
refinements of `Handover` are the only listed results that no run checks beside the proof.

The two proofs over texts, `BytesArrive` and `SettingsRead`, need no induction over the text:
they carry a witness with the text, the places of a line or the bounds of the frames, and a
step adds to it at one end or takes from it at the other. `SettingsRead` is also why
`ConfigFile` has the assert of `Config.cpp:269` and its instance two names: without the
assert the invariant does not hold over a pass that meets a second name, a file that no
instance with one name can contain.

No module here declares a RECURSIVE operator.

## 5. What the models leave out, and what they assume

Read off the code while modelling it, and kept out of the properties as said:

* dbsrv: `onSet` answers OK although `saveToMySql` may have failed (`WorkerThread.cc:405`), and
  `onMGet` reads every table for the uid of the message. `loadFromRedis` takes any reply that is
  not a string for no value (`WorkerThread.cc:166`), an error too, and so answers with what MySQL
  has while a newer value still waits for its writer. Nothing bounds the wait for an answer of
  redis or MySQL, so `stop` may wait for ever for a worker. Columns of bytes, enums and
  repeated fields are not read back, and doubles are read with `atol`. The file of a
  full log is named by the second without a year. A key longer than 29 bytes is cut.
* Scripts: `pb.delete` followed by `__gc` frees twice (no script of the tree calls it); a part
  used after its whole is collected is undefined, and so is any use after `pb.delete`. What the
  fields hold is left out: `pb.set` cuts a string at its first NUL (`LuaPB.cc:464`), though not
  bytes.
* MySQL pool: a statement executed before the connection was lost is executed again; a reopen
  that fails leaves the handle NULL for good; `close` drops what waits in the pipes; nobody
  looks whether `START TRANSACTION`, `COMMIT` or `ROLLBACK` was refused; a
  deadlock is not retried though `MySQLConnection.cc:432` says so.
* Codecs: `KaBuCodec::onMessage` never leaves a frame with a bad length, so the model stops
  there; a string that is refused has consumed its length. dbsrv's codec refuses a message of
  more than 32767 bytes (`codec.cc:295` compares with an int16) although its `kMaxMessageLen`
  is 64 MB (`codec.h:94`), and `getUTF` (`PacketBase.cc:93`) a string that fits and has more
  than 32767 bytes behind it.
* Configuration: an empty value never ends the `goto`, the rest of a line after `>` is
  dropped, a quote over several lines keeps other text than it holds, `//` needs a third
  `/`, and two names may hash alike. The files written have none of these. A build with
  `NDEBUG` would, where `Config.cpp:269` aborts, give the value to the name behind it.
* LoongBgSrv: `getJoinTimes` does not look at the day until somebody is counted; a scene takes
  six flowers where the protocol says five (`>` in `plantFlower`), the model too; the last
  battleground's id is refused; a building can be hit in every state of a battle; the cooldown
  of items is never enforced; item 0, which no one can have, passes `hasItem` wherever a place
  is empty, and lowers `curItemNum_` (an int16, which the model does not bring to its limit);
  when one of two bufs of a type ends, the effect of both does; a player keeps `pScene` after
  leaving and may still pick up and plant; `addBuf` on a building leaks the buf; a late
  `Buf::run` makes up ticks beyond its end.
* Clients of a scene: who joins is not told the bufs of those present, a new pet drops bufs
  without a packet, and where things stand is only forwarded: `SceneView` leaves all three out.
  What a client makes of flowers that share an id is left open.
* Base tables: `ColonBuf.h:49` cuts a number to 16 bits.
* bosssrv: a hit after the settlement counts but earns nothing; a name too long for php
  ends the list that is told.
* Startup: a daemon of dbsrv whose configuration fails leaves its pid file, and so does one
  whose `-u` user may not remove it; a second instance overwrites the file and dies at bind.

Not modelled, and why:

* `LogSrv`, `xmlSrv`, `dataServer`: echo-like servers over `mysdk/net` that the build leaves
  out; most of `dataServer` is generated. `luaevent`, `game/kabu_codec`, `mysdk/protocol/protobuf`:
  linked by no server. `mysdk/config`: a smaller reader nobody uses. Generated protobuf code, php,
  tests and tools.
* Binding of parameters and conversion of results in `mysdk/database`, md5, dates, formatting,
  statistics of dbsrv: they compute without keeping state.
* TCP half-close, `EPOLLHUP` without `EPOLLIN` (a session that always reads does not see it),
  `TcpClient::disconnect` (nothing calls it), the real addresses a `Signals` report prints.
* Moves, positions and chat, which change nothing on the server but where things stand.

## 6. What could come next

1. `Framing` and `Packet` composed with `NetServer`, whose messages are whole now because of
   what is shown of the codecs apart.
2. `DBSrvStore` and `Database` with their queues replaced by `Handover`, so that one theorem
   reaches from the mutex to the promise of the store.
