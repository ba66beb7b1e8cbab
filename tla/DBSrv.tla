------------------------------- MODULE DBSrv -------------------------------
(***************************************************************************)
(* dbsrv as its clients see it: the storage of DBSrvStore behind the event *)
(* loop that owns the connections. A request leaves the loop with the      *)
(* number of its connection; the reply comes back as a functor queued in   *)
(* the loop, which looks the number up in conMap_ and drops the reply when *)
(* the connection has gone.                                                *)
(***************************************************************************)
EXTENDS DBSrvStore

CONSTANTS ConIdLimit,  \* 90000000 in the code
          NoCon, NoId

ASSUME ConAssumption ==
    /\ ConIdLimit \in Nat \ {0}
    /\ ConId = 0 .. ConIdLimit - 1
    /\ NoCon \notin Conn /\ NoId \notin ConId

VARIABLES
    nextid,    \* the static counter connections are numbered from
    context,   \* conId of an open connection's Context, NoId without one
    used,      \* connections that were ever opened
    conMap,    \* conMap_
    functors,  \* reply functors queued in the loop
    owing,     \* history: requests of an open connection that have no reply yet
    misled     \* history: some reply went to a connection that had not asked

frontVars == <<nextid, context, used, conMap, functors, owing, misled>>
allVars == <<vars, frontVars>>

FrontInit ==
    /\ nextid = 0
    /\ context = [c \in Conn |-> NoId]
    /\ used = {}
    /\ conMap = [i \in ConId |-> NoCon]
    /\ functors = <<>>
    /\ owing = [c \in Conn |-> 0]
    /\ misled = FALSE

SrvInit == Init /\ FrontInit

\* MUTANT of Connected: a connection gets the lowest number that is free.
ConnectedReusing(c) ==
    LET free == {i \in ConId : conMap[i] = NoCon}
        id == IF free = {} THEN 0 ELSE CHOOSE i \in free : \A j \in free : i <= j IN
    /\ phase = "running"
    /\ c \notin used
    /\ used' = used \cup {c}
    /\ nextid' = nextid + 1
    /\ context' = [context EXCEPT ![c] = id]
    /\ conMap' = IF conMap[id] = NoCon THEN [conMap EXCEPT ![id] = c] ELSE conMap
    /\ UNCHANGED <<vars, functors, owing, misled>>

\* onConnectionCallback of a new connection. conMap_.insert does not replace
\* an entry, and past the limit every connection gets number 0.
Connected(c) ==
    LET id == IF nextid >= ConIdLimit THEN 0 ELSE nextid IN
    /\ phase = "running"
    /\ c \notin used
    /\ used' = used \cup {c}
    /\ nextid' = nextid + 1
    /\ context' = [context EXCEPT ![c] = id]
    /\ conMap' = IF conMap[id] = NoCon THEN [conMap EXCEPT ![id] = c] ELSE conMap
    /\ UNCHANGED <<vars, functors, owing, misled>>

\* onConnectionCallback of a connection that has closed.
Disconnected(c) ==
    /\ phase = "running"
    /\ context[c] # NoId
    /\ conMap' = [conMap EXCEPT ![context[c]] = NoCon]
    /\ context' = [context EXCEPT ![c] = NoId]
    /\ owing' = [owing EXCEPT ![c] = 0]
    /\ UNCHANGED <<vars, nextid, used, functors, misled>>

\* onKaBuMessage.
OnKaBuMessage(c, r) ==
    /\ context[c] # NoId
    /\ Push(r, c, context[c])
    /\ owing' = [owing EXCEPT ![c] = @ + 1]
    /\ UNCHANGED <<nextid, context, used, conMap, functors, misled>>

\* WorkerThread::sendReply: the handler's last step queues DBSrv::sendReply.
QueueReply(w) ==
    /\ SendReply(w)
    /\ functors' = Append(functors, [conId |-> cmd[w].conId, asker |-> cmd[w].asker])
    /\ UNCHANGED <<nextid, context, used, conMap, owing, misled>>

\* MUTANT of RunFunctor: the functors behind the first are dropped.
RunFunctorOnlyFirst ==
    LET f == Head(functors)  to == conMap[f.conId] IN
    /\ phase = "running"
    /\ functors # <<>>
    /\ functors' = <<>>
    /\ owing' = IF to = NoCon \/ owing[to] = 0 THEN owing ELSE [owing EXCEPT ![to] = @ - 1]
    /\ misled' = (misled \/ to \notin {NoCon, f.asker})
    /\ UNCHANGED <<vars, nextid, context, used, conMap>>

\* doPendingFunctors runs DBSrv::sendReply. After the loop nobody does.
RunFunctor ==
    LET f == Head(functors)  to == conMap[f.conId] IN
    /\ phase = "running"
    /\ functors # <<>>
    /\ functors' = Tail(functors)
    /\ owing' = IF to = NoCon \/ owing[to] = 0 THEN owing ELSE [owing EXCEPT ![to] = @ - 1]
    /\ misled' = (misled \/ to \notin {NoCon, f.asker})
    /\ UNCHANGED <<vars, nextid, context, used, conMap>>

OtherWorkerStep(w) ==
    \/ Take(w) \/ TakePing(w) \/ TakeStop(w)
    \/ SaveToRedis(w) \/ SaveToRedisRefused(w) \/ SaveToRedisNoReply(w) \/ SaveToRedisReplyLost(w)
    \/ SaveToMySql(w) \/ SaveToMySqlFails(w)
    \/ LoadFromRedis(w) \/ LoadFromRedisRefused(w)
    \/ LoadFromMySql(w) \/ LoadFromMySqlM(w) \/ LoadFromMySqlUntyped(w)

\* A crash closes every connection and forgets every number.
SrvCrash ==
    /\ Crash
    /\ nextid' = 0
    /\ context' = [c \in Conn |-> NoId]
    /\ conMap' = [i \in ConId |-> NoCon]
    /\ functors' = <<>>
    /\ owing' = [c \in Conn |-> 0]
    /\ misled' = FALSE
    /\ UNCHANGED used

Inner ==
    \/ PingAll \/ Main \/ LogStep \/ Environment \/ Terminated
    \/ \E w \in Worker : OtherWorkerStep(w)
    \/ \E t \in Writer : WriterStep(t)

SrvNext ==
    \/ \E c \in Conn : Connected(c) \/ Disconnected(c)
    \/ \E c \in Conn, r \in Requests : OnKaBuMessage(c, r)
    \/ \E w \in Worker : QueueReply(w)
    \/ RunFunctor
    \/ SrvCrash
    \/ (Inner /\ UNCHANGED frontVars)

SrvSpec == SrvInit /\ [][SrvNext]_allVars

\* The worker threads run, and the loop runs what was queued in it.
SrvFairness ==
    /\ \A w \in Worker : WF_allVars(QueueReply(w) \/ (OtherWorkerStep(w) /\ UNCHANGED frontVars))
    /\ WF_allVars(RunFunctor)

FairSrvSpec == SrvSpec /\ SrvFairness

-----------------------------------------------------------------------------
(* Properties *)

\* A reply goes to the connection whose request it answers or nowhere, however
\* connections come and go meanwhile, as long as the counter has not wrapped; and
\* conMap_ never holds a connection that has closed: the raw pointer that sendReply
\* takes from it is good, before and after that.
RepliesReachTheAsker ==
    /\ misled => nextid > ConIdLimit
    /\ \A i \in ConId : conMap[i] # NoCon => context[conMap[i]] = i

\* While the server runs and redis and MySQL do not stay silent, every request is
\* answered or its connection closes.
EveryRequestAnswered ==
    \/ <>[](silent # {})
    \/ \A c \in Conn : owing[c] > 0 ~> owing[c] = 0 \/ phase # "running" \/ nextid > ConIdLimit
=============================================================================
