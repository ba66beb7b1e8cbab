---------------------------- MODULE DBSrvProofs ----------------------------
(***************************************************************************)
(* Theorems about the whole of dbsrv, for any number of connections and    *)
(* threads: behind its event loop the storage behaves as DBSrvStore says,  *)
(* and a reply finds the connection that asked for it. Then the bytes it   *)
(* is spoken to in, for any sizes of buffers and pieces: frames arrive as  *)
(* they were sent, and what was put into them comes out; and the file it   *)
(* is configured by, which is read as its author means it.                 *)
(***************************************************************************)
EXTENDS DBSrv, DBSrvStoreProofs, Packet, ConfigFile, SequenceTheorems, FiniteSetTheorems,
    WellFoundedInduction, TLAPS

Ticket == [conId : ConId, asker : Conn]

FrontOK ==
    /\ nextid \in Nat
    /\ context \in [Conn -> ConId \cup {NoId}]
    /\ used \subseteq Conn
    /\ conMap \in [ConId -> Conn \cup {NoCon}]
    /\ functors \in Seq(Ticket)
    /\ misled \in BOOLEAN

\* Only a connection that was opened has a number, and conMap_ holds open
\* connections under their numbers.
ConMapOK ==
    /\ \A c \in Conn : context[c] # NoId => c \in used
    /\ \A i \in ConId : conMap[i] # NoCon => context[conMap[i]] = i

\* The commands of a queue, and those a worker with queue q, at p and with c in
\* its hands has to answer yet.
Queued(q) == {q[i] : i \in {j \in DOMAIN q : q[j].Type = "CMD"}}
AtHand(q, p, c) == Queued(q) \cup {x \in {c} : p \in {"table", "mysql"}}

\* The number a request or a reply x carries has been given, and leads to the
\* connection that asked or to none.
Leads(x, n, m) == x.conId < n /\ m[x.conId] \in {NoCon, x.asker}

\* Until the counter wraps numbers are given once, and lead to the asker or
\* nowhere, in a worker's queue, in its hands and in the loop's functors.
GivenOnce ==
    /\ \A c \in Conn : context[c] # NoId => context[c] < nextid
    /\ \A c, d \in Conn : context[c] = context[d] /\ context[c] # NoId => c = d
RequestsLead ==
    \A w \in Worker : \A x \in AtHand(queue[w], pc[w], cmd[w]) : Leads(x, nextid, conMap)
RepliesLead == \A i \in DOMAIN functors : Leads(functors[i], nextid, conMap)
NumbersLead ==
    nextid <= ConIdLimit => misled = FALSE /\ GivenOnce /\ RequestsLead /\ RepliesLead

FrontInv == TypeInv /\ FrontOK /\ ConMapOK /\ NumbersLead

-----------------------------------------------------------------------------
(* Behind the loop the storage is DBSrvStore *)

LEMMA SrvStepIsStep == FrontOK /\ [SrvNext]_allVars => [Next]_vars
<1> SUFFICES ASSUME FrontOK, [SrvNext]_allVars PROVE [Next]_vars
  OBVIOUS
<1>1. ASSUME NEW c \in Conn, Connected(c) \/ Disconnected(c) PROVE UNCHANGED vars
  BY <1>1 DEF Connected, Disconnected
<1>2. ASSUME NEW c \in Conn, NEW r \in Requests, OnKaBuMessage(c, r) PROVE Next
  <2>1. context[c] \in ConId /\ Push(r, c, context[c])
    BY <1>2 DEF OnKaBuMessage, FrontOK
  <2> QED
    BY <2>1 DEF Next
<1>3. ASSUME NEW w \in Worker, QueueReply(w) PROVE Next
  BY <1>3 DEF QueueReply, Next, WorkerStep
<1>4. ASSUME RunFunctor PROVE UNCHANGED vars
  BY <1>4 DEF RunFunctor
<1>5. ASSUME SrvCrash PROVE Next
  BY <1>5 DEF SrvCrash, Next
<1>6. ASSUME Inner PROVE Next
  BY <1>6 DEF Inner, Next, OtherWorkerStep, WorkerStep
<1>7. CASE UNCHANGED allVars
  BY <1>7 DEF allVars
<1> QED
  BY <1>1, <1>2, <1>3, <1>4, <1>5, <1>6, <1>7 DEF SrvNext

-----------------------------------------------------------------------------
(* Numbers of connections *)

\* A request in a worker's queue or hands carries a number and its asker.
LEMMA TicketFields ==
    ASSUME TypeInv, NEW w \in Worker
    PROVE  /\ queue[w] \in Seq(WorkerMsg) /\ cmd[w] \in WorkerCmd
           /\ \A x \in AtHand(queue[w], pc[w], cmd[w]) : x.conId \in ConId /\ x.asker \in Conn
<1>1. queue[w] \in Seq(WorkerMsg) /\ cmd[w] \in WorkerCmd
  BY DEF TypeInv, TypeOK, PoolOK, JobOK, WorkerCmd
<1>2. \A m \in WorkerCmd : m.conId \in ConId /\ m.asker \in Conn
  BY DEF WorkerCmd, WorkerMsg, Stop, PingMsg
<1>3. \A i \in DOMAIN queue[w] : queue[w][i].Type = "CMD" => queue[w][i] \in WorkerCmd
  BY <1>1, Cmds
<1> QED
  BY <1>1, <1>2, <1>3 DEF AtHand, Queued

\* What Append and Tail do to the commands of a queue.
LEMMA QueuedFacts ==
    ASSUME NEW T, NEW q \in Seq(T)
    PROVE  /\ \A m \in T : \A x \in Queued(Append(q, m)) :
                  x \in Queued(q) \/ (m.Type = "CMD" /\ x = m)
           /\ q # <<>> => /\ \A x \in Queued(Tail(q)) : x \in Queued(q)
                          /\ Head(q).Type = "CMD" => Head(q) \in Queued(q)
<1>1. ASSUME NEW m \in T, NEW x \in Queued(Append(q, m))
      PROVE  x \in Queued(q) \/ (m.Type = "CMD" /\ x = m)
  <2>1. PICK i \in DOMAIN Append(q, m) : Append(q, m)[i].Type = "CMD" /\ x = Append(q, m)[i]
    BY <1>1 DEF Queued
  <2>2. (i \in DOMAIN q /\ Append(q, m)[i] = q[i]) \/ Append(q, m)[i] = m
    BY <2>1
  <2> QED
    BY <2>1, <2>2 DEF Queued
<1>2. ASSUME q # <<>> PROVE Head(q).Type = "CMD" => Head(q) \in Queued(q)
  <2>1. 1 \in DOMAIN q /\ Head(q) = q[1]
    BY <1>2
  <2> QED
    BY <2>1 DEF Queued
<1>3. ASSUME q # <<>>, NEW x \in Queued(Tail(q)) PROVE x \in Queued(q)
  <2>1. PICK i \in DOMAIN Tail(q) : Tail(q)[i].Type = "CMD" /\ x = Tail(q)[i]
    BY <1>3 DEF Queued
  <2>2. i + 1 \in DOMAIN q /\ Tail(q)[i] = q[i + 1]
    BY <1>3, <2>1
  <2> QED
    BY <2>1, <2>2 DEF Queued
<1> QED
  BY <1>1, <1>2, <1>3

LEMMA ConIds == ConIdLimit \in Nat \ {0} /\ ConId = 0 .. ConIdLimit - 1 /\ NoCon \notin Conn /\ NoId \notin ConId
BY ConAssumption

\* A new connection's number is one of ConId: the next one, or 0 past the limit.
LEMMA ConnectedFacts ==
    ASSUME FrontOK, NEW c \in Conn, Connected(c)
    PROVE  \E id \in ConId :
               /\ id = IF nextid >= ConIdLimit THEN 0 ELSE nextid
               /\ context' = [context EXCEPT ![c] = id]
               /\ conMap' = IF conMap[id] = NoCon THEN [conMap EXCEPT ![id] = c] ELSE conMap
               /\ context'[c] = id
               /\ \A d \in Conn : d # c => context'[d] = context[d]
               /\ \A i \in ConId : conMap'[i] = IF i = id /\ conMap[i] = NoCon THEN c ELSE conMap[i]
               /\ nextid' = nextid + 1 /\ c \notin used /\ used' = used \cup {c}
               /\ functors' = functors /\ misled' = misled
               /\ queue' = queue /\ pc' = pc /\ cmd' = cmd
<1> DEFINE id == IF nextid >= ConIdLimit THEN 0 ELSE nextid
<1>1. id \in ConId
  BY ConIds DEF FrontOK
<1>2. /\ context' = [context EXCEPT ![c] = id]
      /\ conMap' = IF conMap[id] = NoCon THEN [conMap EXCEPT ![id] = c] ELSE conMap
      /\ nextid' = nextid + 1 /\ c \notin used /\ used' = used \cup {c}
      /\ functors' = functors /\ misled' = misled
      /\ queue' = queue /\ pc' = pc /\ cmd' = cmd
  BY DEF Connected, vars, poolVars, jobVars
<1>3. context \in [Conn -> ConId \cup {NoId}] /\ conMap \in [ConId -> Conn \cup {NoCon}]
  BY DEF FrontOK
<1>5. id = IF nextid >= ConIdLimit THEN 0 ELSE nextid
  OBVIOUS
<1> HIDE DEF id
<1>4. /\ context'[c] = id
      /\ \A d \in Conn : d # c => context'[d] = context[d]
      /\ \A i \in ConId : conMap'[i] = IF i = id /\ conMap[i] = NoCon THEN c ELSE conMap[i]
  BY <1>1, <1>2, <1>3
<1> QED
  BY <1>1, <1>2, <1>4, <1>5

\* A connection closes: its number leads nowhere.
LEMMA DisconnectedFacts ==
    ASSUME FrontOK, NEW c \in Conn, Disconnected(c)
    PROVE  \E id \in ConId :
               /\ id = context[c]
               /\ context' = [context EXCEPT ![c] = NoId] /\ conMap' = [conMap EXCEPT ![id] = NoCon]
               /\ \A d \in Conn : context'[d] = IF d = c THEN NoId ELSE context[d]
               /\ \A i \in ConId : conMap'[i] = IF i = id THEN NoCon ELSE conMap[i]
               /\ nextid' = nextid /\ used' = used /\ functors' = functors /\ misled' = misled
               /\ queue' = queue /\ pc' = pc /\ cmd' = cmd
<1>1. /\ context[c] # NoId /\ context' = [context EXCEPT ![c] = NoId]
      /\ conMap' = [conMap EXCEPT ![context[c]] = NoCon]
      /\ nextid' = nextid /\ used' = used /\ functors' = functors /\ misled' = misled
      /\ queue' = queue /\ pc' = pc /\ cmd' = cmd
  BY DEF Disconnected, vars, poolVars, jobVars
<1>2. context \in [Conn -> ConId \cup {NoId}] /\ conMap \in [ConId -> Conn \cup {NoCon}]
  BY DEF FrontOK
<1>3. context[c] \in ConId
  BY <1>1, <1>2
<1>4. /\ \A d \in Conn : context'[d] = IF d = c THEN NoId ELSE context[d]
      /\ \A i \in ConId : conMap'[i] = IF i = context[c] THEN NoCon ELSE conMap[i]
  BY <1>1, <1>2
<1> QED
  BY <1>1, <1>3, <1>4

\* A request or a reply goes on leading where it led while numbers are only
\* given to new connections and taken from closed ones.
LEMMA LeadsOn ==
    ASSUME FrontOK, NEW n \in Nat, NEW m, nextid <= n,
           \A i \in ConId : i < nextid => m[i] \in {NoCon, conMap[i]},
           NEW x, x.conId \in ConId, Leads(x, nextid, conMap)
    PROVE  Leads(x, n, m)
<1>1. x.conId \in Nat /\ nextid \in Nat
  BY ConIds DEF FrontOK
<1>2. x.conId < nextid /\ conMap[x.conId] \in {NoCon, x.asker}
  BY DEF Leads
<1>3. x.conId < n
  BY <1>1, <1>2
<1>4. m[x.conId] \in {NoCon, conMap[x.conId]}
  BY <1>2
<1> QED
  BY <1>2, <1>3, <1>4 DEF Leads

\* What no step of the loop adds to goes on leading.
LEMMA AllLeadOn ==
    ASSUME FrontOK, nextid <= nextid', nextid' \in Nat,
           \A i \in ConId : i < nextid => conMap'[i] \in {NoCon, conMap[i]}
    PROVE  /\ TypeInv /\ RequestsLead /\ queue' = queue /\ pc' = pc /\ cmd' = cmd => RequestsLead'
           /\ RepliesLead /\ functors' = functors => RepliesLead'
<1>1. ASSUME TypeInv, RequestsLead, queue' = queue, pc' = pc, cmd' = cmd PROVE RequestsLead'
  <2> SUFFICES ASSUME NEW w \in Worker, NEW x \in AtHand(queue[w], pc[w], cmd[w])
               PROVE  Leads(x, nextid', conMap')
    BY <1>1 DEF RequestsLead
  <2>1. x.conId \in ConId /\ Leads(x, nextid, conMap)
    BY <1>1, TicketFields DEF RequestsLead
  <2> QED
    BY <2>1, LeadsOn
<1>2. ASSUME RepliesLead, functors' = functors PROVE RepliesLead'
  <2> SUFFICES ASSUME NEW i \in DOMAIN functors PROVE Leads(functors[i], nextid', conMap')
    BY <1>2 DEF RepliesLead
  <2>0. functors[i] \in Ticket
    BY DEF FrontOK
  <2>1. functors[i].conId \in ConId /\ Leads(functors[i], nextid, conMap)
    BY <1>2, <2>0 DEF Ticket, RepliesLead
  <2> QED
    BY <2>1, LeadsOn
<1> QED
  BY <1>1, <1>2

-----------------------------------------------------------------------------
(* The invariant is inductive *)

LEMMA InitFront == SrvInit => FrontInv
<1> SUFFICES ASSUME SrvInit PROVE FrontInv
  OBVIOUS
<1>1. Init /\ FrontInit
  BY DEF SrvInit
<1>2. TypeInv
  BY <1>1, InitTyped
<1>3. FrontOK
  <2>1. functors \in Seq(Ticket)
    BY <1>1 DEF FrontInit
  <2>2. /\ nextid = 0 /\ misled = FALSE /\ used = {}
        /\ context = [c \in Conn |-> NoId] /\ conMap = [i \in ConId |-> NoCon]
    BY <1>1 DEF FrontInit
  <2>3. context \in [Conn -> ConId \cup {NoId}] /\ conMap \in [ConId -> Conn \cup {NoCon}]
    BY <2>2
  <2> QED
    BY <2>1, <2>2, <2>3 DEF FrontOK
<1>4. ConMapOK
  BY <1>1, ConIds DEF FrontInit, ConMapOK
<1>5. GivenOnce /\ RepliesLead /\ misled = FALSE
  BY <1>1 DEF FrontInit, GivenOnce, RepliesLead
<1>6. \A w \in Worker : AtHand(queue[w], pc[w], cmd[w]) = {}
  BY <1>1 DEF Init, AtHand, Queued
<1>7. RequestsLead
  BY <1>6 DEF RequestsLead
<1> QED
  BY <1>2, <1>3, <1>4, <1>5, <1>7 DEF FrontInv, NumbersLead

\* No step but a request adds to what a worker has at hand.
LEMMA AtHandShrinks ==
    ASSUME TypeInv, (\E w \in Worker : SendReply(w)) \/ Inner, NEW v \in Worker
    PROVE  AtHand(queue'[v], pc'[v], cmd'[v]) \subseteq AtHand(queue[v], pc[v], cmd[v])
<1>b. /\ pc \in [Worker -> {"take", "table", "mysql", "done"}] /\ cmd \in [Worker -> WorkerCmd]
      /\ queue \in [Worker -> Seq(WorkerMsg)] /\ queue[v] \in Seq(WorkerMsg)
  BY DEF TypeInv, TypeOK, JobOK, PoolOK, WorkerCmd
<1>c. /\ PingMsg \in WorkerMsg /\ PingMsg.Type # "CMD" /\ Stop \in WorkerMsg /\ Stop.Type # "CMD"
  BY Cmds
<1>1. ASSUME queue'[v] = queue[v], pc'[v] = pc[v], cmd'[v] = cmd[v]
      PROVE  AtHand(queue'[v], pc'[v], cmd'[v]) \subseteq AtHand(queue[v], pc[v], cmd[v])
  BY <1>1
<1>2. ASSUME pc' = pc, cmd' = cmd, NEW m \in {PingMsg, Stop}, queue'[v] = Append(queue[v], m)
      PROVE  AtHand(queue'[v], pc'[v], cmd'[v]) \subseteq AtHand(queue[v], pc[v], cmd[v])
  BY <1>2, <1>b, <1>c, QueuedFacts DEF AtHand
<1>3. CASE PingAll
  BY <1>2, <1>3 DEF PingAll, jobVars
<1>4. CASE StopWorker
  <2>1. queue'[v] = queue[v] \/ queue'[v] = Append(queue[v], Stop)
    BY <1>4, <1>b DEF StopWorker
  <2> QED
    BY <1>1, <1>2, <1>4, <2>1 DEF StopWorker, jobVars
<1>5. CASE Main /\ ~StopWorker
  BY <1>1, <1>5 DEF Main, Quit, JoinWorker, StopWriter, JoinWriter, StopLog, JoinLog, Joined,
     poolVars, jobVars
<1>6. CASE LogStep \/ Environment \/ Terminated
  BY <1>1, <1>6 DEF LogStep, Environment, RedisDown, RedisBack, MySqlDown, MySqlBack, RedisForgets,
     Silence, Answers, Terminated, vars, internalVars, poolVars, jobVars
<1>7. ASSUME NEW t \in Writer, WriterStep(t)
      PROVE  AtHand(queue'[v], pc'[v], cmd'[v]) \subseteq AtHand(queue[v], pc[v], cmd[v])
  BY <1>1, <1>7 DEF WriterStep, Execute, ExecuteFails, ExecuteRefused, WriterPing, WriterStop,
     poolVars, jobVars
<1>8. ASSUME NEW w \in Worker, WorkerStep(w)
      PROVE  AtHand(queue'[v], pc'[v], cmd'[v]) \subseteq AtHand(queue[v], pc[v], cmd[v])
  <2>1. CASE Take(w) /\ v = w
    <3>1. queue[v] # <<>> /\ queue'[v] = Tail(queue[v]) /\ cmd'[v] = Head(queue[v])
          /\ Head(queue[v]).Type = "CMD"
      BY <1>b, <2>1 DEF Take
    <3>2. \A x \in AtHand(queue'[v], pc'[v], cmd'[v]) : x \in Queued(Tail(queue[v])) \/ x = Head(queue[v])
      BY <3>1 DEF AtHand
    <3> QED
      BY <1>b, <3>1, <3>2, QueuedFacts DEF AtHand
  <2>2. CASE (TakePing(w) \/ TakeStop(w)) /\ v = w
    <3>1. queue[v] # <<>> /\ queue'[v] = Tail(queue[v]) /\ pc'[v] \in {"take", "done"}
      BY <1>b, <2>2 DEF TakePing, TakeStop, jobVars
    <3>2. \A x \in AtHand(queue'[v], pc'[v], cmd'[v]) : x \in Queued(Tail(queue[v]))
      BY <3>1 DEF AtHand
    <3> QED
      BY <1>b, <3>1, <3>2, QueuedFacts DEF AtHand
  <2>3. CASE (Take(w) \/ TakePing(w) \/ TakeStop(w)) /\ v # w
    BY <1>1, <1>b, <2>3 DEF Take, TakePing, TakeStop, jobVars
  <2>4. ASSUME queue' = queue, cmd' = cmd, \A x \in Worker : x # w => pc'[x] = pc[x],
               pc[w] \in {"table", "mysql"}
        PROVE  AtHand(queue'[v], pc'[v], cmd'[v]) \subseteq AtHand(queue[v], pc[v], cmd[v])
    BY <2>4 DEF AtHand
  <2>5. CASE SaveToRedis(w) \/ SaveToRedisRefused(w) \/ SaveToRedisNoReply(w) \/ SaveToRedisReplyLost(w)
    BY <1>b, <2>4, <2>5 DEF SaveToRedis, SaveToRedisRefused, SaveToRedisNoReply, SaveToRedisReplyLost,
       AtRedis, poolVars
  <2>6. CASE SaveToMySql(w) \/ SaveToMySqlFails(w) \/ LoadFromMySql(w) \/ LoadFromMySqlM(w)
             \/ LoadFromMySqlUntyped(w) \/ SendReply(w)
    BY <1>b, <2>4, <2>6 DEF SaveToMySql, SaveToMySqlFails, LoadFromMySql, LoadFromMySqlM,
       LoadFromMySqlUntyped, SendReply, poolVars
  <2>7. CASE LoadFromRedis(w) \/ LoadFromRedisRefused(w)
    <3>1. queue' = queue /\ cmd' = cmd /\ pc[w] = "table" /\ pc' \in {pc, [pc EXCEPT ![w] = "mysql"]}
      BY <2>7 DEF LoadFromRedis, LoadFromRedisRefused, AtRedis, poolVars
    <3> QED
      BY <1>b, <2>4, <3>1
  <2> QED
    BY <1>8, <2>1, <2>2, <2>3, <2>5, <2>6, <2>7 DEF WorkerStep
<1> QED
  BY <1>3, <1>4, <1>5, <1>6, <1>7, <1>8 DEF Inner, OtherWorkerStep, WorkerStep

LEMMA StepFront == FrontInv /\ [SrvNext]_allVars => FrontInv'
<1> SUFFICES ASSUME FrontInv, [SrvNext]_allVars PROVE FrontInv'
  OBVIOUS
<1>a. TypeInv /\ FrontOK /\ ConMapOK /\ NumbersLead
  BY DEF FrontInv
<1>b. TypeInv'
  BY <1>a, SrvStepIsStep, StepTyped
<1>c. /\ nextid \in Nat /\ context \in [Conn -> ConId \cup {NoId}]
      /\ conMap \in [ConId -> Conn \cup {NoCon}]
  BY <1>a DEF FrontOK
<1> USE <1>a, <1>b
<1>1. ASSUME NEW c \in Conn, Connected(c) PROVE FrontInv'
  <2>1. PICK id \in ConId :
            /\ id = IF nextid >= ConIdLimit THEN 0 ELSE nextid
            /\ context' = [context EXCEPT ![c] = id]
            /\ conMap' = IF conMap[id] = NoCon THEN [conMap EXCEPT ![id] = c] ELSE conMap
            /\ context'[c] = id
            /\ \A d \in Conn : d # c => context'[d] = context[d]
            /\ \A i \in ConId : conMap'[i] = IF i = id /\ conMap[i] = NoCon THEN c ELSE conMap[i]
            /\ nextid' = nextid + 1 /\ c \notin used /\ used' = used \cup {c}
            /\ functors' = functors /\ misled' = misled
            /\ queue' = queue /\ pc' = pc /\ cmd' = cmd
    BY <1>1, ConnectedFacts
  <2>2. FrontOK'
    BY <1>c, <2>1 DEF FrontOK
  <2>3. context[c] = NoId
    BY <2>1 DEF ConMapOK
  <2>4. ConMapOK'
    <3>1. \A d \in Conn : context'[d] # NoId => d \in used'
      BY <2>1 DEF ConMapOK
    <3>2. ASSUME NEW i \in ConId, conMap'[i] # NoCon PROVE context'[conMap'[i]] = i
      <4>1. CASE i = id /\ conMap[i] = NoCon
        BY <2>1, <4>1
      <4>2. CASE ~(i = id /\ conMap[i] = NoCon)
        <5>1. conMap'[i] = conMap[i] /\ conMap[i] # NoCon /\ conMap[i] \in Conn
          BY <1>c, <2>1, <3>2, <4>2
        <5>2. context[conMap[i]] = i /\ i # NoId
          BY <5>1, ConIds DEF ConMapOK
        <5>3. conMap[i] # c
          BY <2>3, <5>2
        <5> QED
          BY <2>1, <5>1, <5>2, <5>3
      <4> QED
        BY <4>1, <4>2
    <3> QED
      BY <3>1, <3>2 DEF ConMapOK
  <2>5. ASSUME nextid' <= ConIdLimit PROVE misled' = FALSE /\ GivenOnce' /\ RequestsLead' /\ RepliesLead'
    <3>1. nextid <= ConIdLimit /\ id = nextid /\ nextid <= nextid' /\ nextid' \in Nat /\ nextid < nextid'
      BY <1>c, <2>1, <2>5, ConIds
    <3>2. misled = FALSE /\ GivenOnce /\ RequestsLead /\ RepliesLead
      BY <3>1 DEF NumbersLead
    <3>3. \A i \in ConId : i < nextid => conMap'[i] \in {NoCon, conMap[i]}
      <4> SUFFICES ASSUME NEW i \in ConId, i < nextid PROVE conMap'[i] \in {NoCon, conMap[i]}
        OBVIOUS
      <4>1. i # id
        BY <1>c, <3>1, ConIds
      <4> QED
        BY <2>1, <4>1
    <3>4. RequestsLead' /\ RepliesLead'
      BY <2>1, <3>1, <3>2, <3>3, AllLeadOn
    <3>5. \A d \in Conn : d # c /\ context[d] # NoId => context[d] < nextid /\ context[d] \in Nat /\ context[d] # id
      BY <1>c, <3>1, <3>2, ConIds DEF GivenOnce
    <3>6. id # NoId /\ id \in Nat
      BY <3>1, <1>c, ConIds
    <3>7. \A d \in Conn : context'[d] # NoId => context'[d] < nextid'
      BY <1>c, <2>1, <3>1, <3>5
    <3>8. \A d, e \in Conn : context'[d] = context'[e] /\ context'[d] # NoId => d = e
      BY <2>1, <3>2, <3>5 DEF GivenOnce
    <3> QED
      BY <2>1, <3>2, <3>4, <3>7, <3>8 DEF GivenOnce
  <2> QED
    BY <2>2, <2>4, <2>5 DEF FrontInv, NumbersLead
<1>2. ASSUME NEW c \in Conn, Disconnected(c) PROVE FrontInv'
  <2>1. PICK id \in ConId :
            /\ id = context[c]
            /\ context' = [context EXCEPT ![c] = NoId] /\ conMap' = [conMap EXCEPT ![id] = NoCon]
            /\ \A d \in Conn : context'[d] = IF d = c THEN NoId ELSE context[d]
            /\ \A i \in ConId : conMap'[i] = IF i = id THEN NoCon ELSE conMap[i]
            /\ nextid' = nextid /\ used' = used /\ functors' = functors /\ misled' = misled
            /\ queue' = queue /\ pc' = pc /\ cmd' = cmd
    BY <1>2, DisconnectedFacts
  <2>2. FrontOK'
    BY <1>c, <2>1 DEF FrontOK
  <2>3. ConMapOK'
    <3>1. \A d \in Conn : context'[d] # NoId => d \in used'
      BY <2>1 DEF ConMapOK
    <3>2. ASSUME NEW i \in ConId, conMap'[i] # NoCon PROVE context'[conMap'[i]] = i
      <4>1. i # id /\ conMap'[i] = conMap[i] /\ conMap[i] # NoCon /\ conMap[i] \in Conn
        BY <1>c, <2>1, <3>2
      <4>2. context[conMap[i]] = i
        BY <4>1 DEF ConMapOK
      <4>3. conMap[i] # c
        BY <2>1, <4>1, <4>2
      <4> QED
        BY <2>1, <4>1, <4>2, <4>3
    <3> QED
      BY <3>1, <3>2 DEF ConMapOK
  <2>4. ASSUME nextid' <= ConIdLimit PROVE misled' = FALSE /\ GivenOnce' /\ RequestsLead' /\ RepliesLead'
    <3>1. misled = FALSE /\ GivenOnce /\ RequestsLead /\ RepliesLead
      BY <2>1, <2>4 DEF NumbersLead
    <3>2. nextid <= nextid' /\ nextid' \in Nat /\ \A i \in ConId : i < nextid => conMap'[i] \in {NoCon, conMap[i]}
      BY <1>c, <2>1
    <3>3. RequestsLead' /\ RepliesLead'
      BY <2>1, <3>1, <3>2, AllLeadOn
    <3>4. GivenOnce'
      BY <2>1, <3>1 DEF GivenOnce
    <3> QED
      BY <2>1, <3>1, <3>3, <3>4
  <2> QED
    BY <2>2, <2>3, <2>4 DEF FrontInv, NumbersLead
<1>f. ASSUME UNCHANGED <<nextid, context, used, conMap>> PROVE ConMapOK' /\ (GivenOnce => GivenOnce')
  BY <1>f DEF ConMapOK, GivenOnce
<1>3. ASSUME NEW c \in Conn, NEW r \in Requests, OnKaBuMessage(c, r) PROVE FrontInv'
  <2> DEFINE m == Command(r, c, context[c])
  <2>1. /\ context[c] \in ConId /\ Push(r, c, context[c])
        /\ UNCHANGED <<nextid, context, used, conMap, functors, misled>>
    BY <1>3, <1>c DEF OnKaBuMessage
  <2>2. /\ pc' = pc /\ cmd' = cmd /\ queue' = [queue EXCEPT ![nextThreadId'] = Append(@, m)]
    BY <2>1 DEF Push, jobVars
  <2>3. m \in WorkerMsg /\ m.conId = context[c] /\ m.asker = c
    BY <2>1, StoreAssumption, CommandTyped DEF Command, TypeInv, TypeOK, WorkerCmd
  <2> HIDE DEF m
  <2>4. ASSUME nextid' <= ConIdLimit PROVE misled' = FALSE /\ GivenOnce' /\ RequestsLead' /\ RepliesLead'
    <3>1. misled = FALSE /\ GivenOnce /\ RequestsLead /\ RepliesLead
      BY <2>1, <2>4 DEF NumbersLead
    <3>2. Leads(m, nextid, conMap)
      <4>1. context[c] < nextid
        BY <2>1, <3>1, ConIds DEF GivenOnce
      <4>2. ASSUME conMap[context[c]] # NoCon PROVE conMap[context[c]] = c
        <5>1. conMap[context[c]] \in Conn /\ context[conMap[context[c]]] = context[c]
          BY <1>c, <2>1, <4>2 DEF ConMapOK
        <5> QED
          BY <2>1, <3>1, <5>1, ConIds DEF GivenOnce
      <4> QED
        BY <2>3, <4>1, <4>2 DEF Leads
    <3>3. ASSUME NEW w \in Worker, NEW x \in AtHand(queue'[w], pc'[w], cmd'[w]) PROVE Leads(x, nextid, conMap)
      <4>1. queue[w] \in Seq(WorkerMsg) /\ queue \in [Worker -> Seq(WorkerMsg)]
        BY DEF TypeInv, TypeOK, PoolOK
      <4>2. queue'[w] = queue[w] \/ queue'[w] = Append(queue[w], m)
        BY <2>2, <4>1
      <4>3. x \in AtHand(queue[w], pc[w], cmd[w]) \/ x = m
        BY <2>2, <2>3, <3>3, <4>1, <4>2, QueuedFacts DEF AtHand
      <4> QED
        BY <3>1, <3>2, <4>3 DEF RequestsLead
    <3>4. RequestsLead' /\ RepliesLead' /\ GivenOnce'
      BY <2>1, <3>1, <3>3, <1>f DEF RequestsLead, RepliesLead
    <3> QED
      BY <2>1, <3>1, <3>4
  <2> QED
    BY <2>1, <2>4, <1>f DEF FrontInv, NumbersLead, FrontOK
<1>4. ASSUME NEW w \in Worker, QueueReply(w) PROVE FrontInv'
  <2> DEFINE m == [conId |-> cmd[w].conId, asker |-> cmd[w].asker]
  <2>1. /\ SendReply(w) /\ functors' = Append(functors, m)
        /\ UNCHANGED <<nextid, context, used, conMap, misled>>
    BY <1>4 DEF QueueReply
  <2>2. cmd[w] \in AtHand(queue[w], pc[w], cmd[w])
    BY <2>1 DEF SendReply, AtHand
  <2>3. m \in Ticket /\ m.conId = cmd[w].conId /\ m.asker = cmd[w].asker
    BY <2>2, TicketFields DEF Ticket
  <2> HIDE DEF m
  <2>4. functors \in Seq(Ticket) /\ functors' \in Seq(Ticket)
    BY <2>1, <2>3 DEF FrontOK
  <2>5. ASSUME nextid' <= ConIdLimit PROVE misled' = FALSE /\ GivenOnce' /\ RequestsLead' /\ RepliesLead'
    <3>1. misled = FALSE /\ GivenOnce /\ RequestsLead /\ RepliesLead
      BY <2>1, <2>5 DEF NumbersLead
    <3>2. RequestsLead'
      BY <2>1, <3>1, AtHandShrinks DEF RequestsLead
    <3>3. Leads(m, nextid, conMap)
      BY <2>2, <2>3, <3>1 DEF Leads, RequestsLead
    <3>4. ASSUME NEW i \in DOMAIN functors' PROVE Leads(functors'[i], nextid, conMap)
      <4>1. (i \in DOMAIN functors /\ functors'[i] = functors[i]) \/ functors'[i] = m
        BY <2>1, <2>3, <2>4, <3>4
      <4> QED
        BY <3>1, <3>3, <4>1 DEF RepliesLead
    <3> QED
      BY <2>1, <3>1, <3>2, <3>4, <1>f DEF RepliesLead
  <2> QED
    BY <2>1, <2>4, <2>5, <1>f DEF FrontInv, NumbersLead, FrontOK
<1>5. ASSUME RunFunctor PROVE FrontInv'
  <2>1. /\ functors # <<>> /\ functors' = Tail(functors) /\ functors \in Seq(Ticket)
        /\ UNCHANGED <<nextid, context, used, conMap>>
        /\ misled' = (misled \/ conMap[Head(functors).conId] \notin {NoCon, Head(functors).asker})
        /\ queue' = queue /\ pc' = pc /\ cmd' = cmd
    BY <1>5 DEF RunFunctor, vars, poolVars, jobVars, FrontOK
  <2>2. functors' \in Seq(Ticket)
    BY <2>1
  <2>3. misled' \in BOOLEAN
    BY <2>1 DEF FrontOK
  <2>4. ASSUME nextid' <= ConIdLimit PROVE misled' = FALSE /\ GivenOnce' /\ RequestsLead' /\ RepliesLead'
    <3>1. misled = FALSE /\ GivenOnce /\ RequestsLead /\ RepliesLead
      BY <2>1, <2>4 DEF NumbersLead
    <3>2. RequestsLead'
      BY <2>1, <3>1 DEF RequestsLead
    <3>3. 1 \in DOMAIN functors /\ Head(functors) = functors[1]
      BY <2>1
    <3>4. conMap[Head(functors).conId] \in {NoCon, Head(functors).asker}
      BY <3>1, <3>3 DEF RepliesLead, Leads
    <3>5. misled' = FALSE
      BY <2>1, <3>1, <3>4
    <3>6. ASSUME NEW i \in DOMAIN functors' PROVE Leads(functors'[i], nextid, conMap)
      <4>1. i + 1 \in DOMAIN functors /\ functors'[i] = functors[i + 1]
        BY <2>1, <3>6
      <4> QED
        BY <3>1, <4>1 DEF RepliesLead
    <3> QED
      BY <2>1, <3>1, <3>2, <3>5, <3>6, <1>f DEF RepliesLead
  <2> QED
    BY <2>1, <2>2, <2>3, <2>4, <1>f DEF FrontInv, NumbersLead, FrontOK
<1>6. ASSUME SrvCrash PROVE FrontInv'
  <2>1. /\ nextid' = 0 /\ context' = [c \in Conn |-> NoId] /\ conMap' = [i \in ConId |-> NoCon]
        /\ functors' = <<>> /\ misled' = FALSE /\ used' = used
        /\ \A w \in Worker : queue'[w] = <<>> /\ pc'[w] = "take"
    BY <1>6 DEF SrvCrash, Crash
  <2>2. FrontOK' /\ ConMapOK'
    <3>1. functors' \in Seq(Ticket)
      BY <2>1
    <3>2. context' \in [Conn -> ConId \cup {NoId}] /\ conMap' \in [ConId -> Conn \cup {NoCon}]
      BY <2>1
    <3>3. FrontOK'
      BY <2>1, <3>1, <3>2 DEF FrontOK
    <3> QED
      BY <2>1, <3>3, ConIds DEF ConMapOK
  <2>3. \A w \in Worker : AtHand(queue'[w], pc'[w], cmd'[w]) = {}
    BY <2>1 DEF AtHand, Queued
  <2>4. misled' = FALSE /\ GivenOnce' /\ RequestsLead' /\ RepliesLead'
    BY <2>1, <2>3 DEF GivenOnce, RequestsLead, RepliesLead
  <2> QED
    BY <2>2, <2>4 DEF FrontInv, NumbersLead
<1>7. ASSUME UNCHANGED frontVars,
             \A w \in Worker : AtHand(queue'[w], pc'[w], cmd'[w]) \subseteq AtHand(queue[w], pc[w], cmd[w])
      PROVE  FrontInv'
  <2>1. UNCHANGED <<nextid, context, used, conMap, functors, misled>>
    BY <1>7 DEF frontVars
  <2>2. RequestsLead => RequestsLead'
    BY <1>7, <2>1 DEF RequestsLead
  <2>3. RepliesLead => RepliesLead'
    BY <2>1 DEF RepliesLead
  <2> QED
    BY <2>1, <2>2, <2>3, <1>f DEF FrontInv, NumbersLead, FrontOK
<1>8. ASSUME Inner, UNCHANGED frontVars PROVE FrontInv'
  BY <1>7, <1>8, AtHandShrinks
<1>9. ASSUME UNCHANGED allVars PROVE FrontInv'
  BY <1>7, <1>9 DEF allVars, vars, poolVars, jobVars
<1> QED
  BY <1>1, <1>2, <1>3, <1>4, <1>5, <1>6, <1>8, <1>9 DEF SrvNext

\* dbsrv with its loop and connections is an implementation of the storage: what
\* is proved of the storage holds of it.
THEOREM FrontKeepsStore == SrvSpec => Spec
<1>1. SrvInit => Init
  BY DEF SrvInit
<1>2. FrontInv /\ [SrvNext]_allVars => [Next]_vars
  BY SrvStepIsStep DEF FrontInv
<1>3. SrvInit => FrontInv
  BY InitFront
<1>4. FrontInv /\ [SrvNext]_allVars => FrontInv'
  BY StepFront
<1> QED
  BY <1>1, <1>2, <1>3, <1>4, PTL DEF SrvSpec, Spec

\* So behind the loop, whatever connections come and go, a stop drains every
\* queue, one lane keeps its order, writes end up behind the replies as promised
\* and no read is stale that redis could answer.
THEOREM ServerKeepsPromise ==
    SrvSpec => []GracefulStopDrains /\ SameLaneInOrder /\ Promise /\ []NoStaleRead
BY FrontKeepsStore, StopDrains, LanesKeepOrder, PromiseIsKept, ReadsAreFresh

\* A reply goes to the connection that asked or nowhere until the counter of
\* connections wraps, and conMap_ never holds a connection that has closed,
\* wrapped or not, for any number of connections, threads and crashes.
THEOREM RepliesFindTheAsker == SrvSpec => []RepliesReachTheAsker
<1>1. SrvInit => FrontInv
  BY InitFront
<1>2. FrontInv /\ [SrvNext]_allVars => FrontInv'
  BY StepFront
<1>3. FrontInv => RepliesReachTheAsker
  <2> SUFFICES ASSUME FrontInv PROVE RepliesReachTheAsker
    OBVIOUS
  <2>1. nextid \in Nat /\ ConIdLimit \in Nat
    BY ConIds DEF FrontInv, FrontOK
  <2>2. misled => nextid > ConIdLimit
    BY <2>1 DEF FrontInv, NumbersLead
  <2> QED
    BY <2>2 DEF FrontInv, ConMapOK, RepliesReachTheAsker
<1> QED
  BY <1>1, <1>2, <1>3, PTL DEF SrvSpec

-----------------------------------------------------------------------------
(* The buffer                                                               *)

BufferOK(b, S) ==
    /\ b \in [data : Seq(S), reader : Nat, writer : Nat]
    /\ b.reader <= b.writer /\ b.writer <= Len(b.data)

\* s is what can be read.
Holds(b, s) == s = Readable(b)

\* q comes behind p.
Together(t, p, q) ==
    /\ Len(t) = Len(p) + Len(q)
    /\ \A i \in 1..Len(p) : t[i] = p[i]
    /\ \A i \in 1..Len(q) : t[Len(p) + i] = q[i]

\* The first bytes of what is joined are those of the one, the others those of the other.
LEMMA JoinedIs ==
    ASSUME NEW S, NEW p \in Seq(S), NEW q \in Seq(S), NEW t, t = p \o q
    PROVE  t \in Seq(S) /\ Together(t, p, q)
<1>6. PICK m \in Nat : m = Len(p)
  OBVIOUS
<1>7. PICK n \in Nat : n = Len(q)
  OBVIOUS
<1>1. t \in Seq(S) /\ Len(t) = m + n
  BY <1>6, <1>7, ConcatProperties
<1>2. \A i \in 1..(Len(p) + Len(q)) : (p \o q)[i] = IF i <= Len(p) THEN p[i] ELSE q[i - Len(p)]
  BY ConcatProperties
<1>3. \A i \in 1..(m + n) : t[i] = IF i <= m THEN p[i] ELSE q[i - m]
  BY <1>6, <1>7, <1>2
<1>4. ASSUME NEW i \in 1..m PROVE t[i] = p[i]
  BY <1>3, <1>6, <1>7
<1>5. ASSUME NEW i \in 1..n PROVE t[m + i] = q[i]
  <2>1. PICK j \in Int : j = m + i
    OBVIOUS
  <2>2. j \in 1..(m + n) /\ ~(j <= m) /\ j - m = i
    BY <2>1
  <2> QED
    BY <1>3, <2>1, <2>2
<1> QED
  BY <1>6, <1>7, <1>1, <1>4, <1>5 DEF Together

\* What can be read is what stands between the two indices.
LEMMA ReadableIs ==
    ASSUME NEW S, NEW b, BufferOK(b, S), NEW s, Holds(b, s)
    PROVE  /\ s \in Seq(S) /\ Len(s) \in Nat /\ Len(s) = b.writer - b.reader
           /\ \A i \in 1..Len(s) : s[i] = b.data[b.reader + i]
<1>1. PICK d \in Seq(S) : d = b.data
  BY DEF BufferOK
<1>2. PICK m \in Int : m = b.reader + 1
  BY DEF BufferOK
<1>3. PICK n \in Int : n = b.writer
  BY DEF BufferOK
<1>4. s = SubSeq(d, m, n)
  BY <1>1, <1>2, <1>3 DEF Holds, Readable
<1>5. m >= 1 /\ n <= Len(d) /\ n >= m - 1 /\ Len(d) \in Nat /\ b.reader \in Nat
  BY <1>1, <1>2, <1>3 DEF BufferOK
<1>6. \A i \in m..n : d[i] \in S
  BY <1>5, <1>1
<1>7. s \in Seq(S) /\ Len(s) = (IF m <= n THEN n - m + 1 ELSE 0)
  BY <1>4, <1>5, <1>6, SubSeqProperties
<1>8. \A i \in 1..(n - m + 1) : s[i] = d[m + i - 1]
  BY <1>4, <1>5, <1>6, SubSeqProperties
<1>9. Len(s) = n - m + 1 /\ Len(s) \in Nat
  BY <1>5, <1>7, <1>2, <1>3
<1>10. ASSUME NEW i \in 1..Len(s) PROVE s[i] = b.data[b.reader + i]
  <2>1. i \in 1..(n - m + 1) /\ i \in Int
    BY <1>9
  <2>2. m + i - 1 = b.reader + i
    BY <1>2, <1>5, <2>1
  <2> QED
    BY <1>1, <1>8, <2>1, <2>2
<1> QED
  BY <1>2, <1>3, <1>5, <1>7, <1>9, <1>10

\* The bytes of b between its two indices.
SameBytes(b, s) ==
    Len(s) = b.writer - b.reader /\ \A i \in 1..Len(s) : b.data[b.reader + i] = s[i]

\* And what stands there can be read.
LEMMA SameReadable ==
    ASSUME NEW S, NEW b, BufferOK(b, S), NEW T, NEW s \in Seq(T), SameBytes(b, s)
    PROVE  Holds(b, s)
<1>1. PICK t : t = Readable(b)
  OBVIOUS
<1>2. /\ t \in Seq(S) /\ Len(t) = Len(s)
      /\ \A i \in 1..Len(t) : t[i] = b.data[b.reader + i]
  BY <1>1, ReadableIs DEF Holds, SameBytes
<1>3. \A i \in 1..Len(s) : t[i] = s[i]
  BY <1>2 DEF SameBytes
<1>4. t \in [1..Len(s) -> S] /\ s \in [1..Len(s) -> T]
  BY <1>2
<1>5. t = s
  BY <1>3, <1>4
<1> QED
  BY <1>1, <1>5 DEF Holds

\* bytes stand in o behind the first at, the rest is that of data.
Overwritten(o, data, at, bytes) ==
    /\ Len(o) = Len(data)
    /\ \A i \in 1..Len(bytes) : o[at + i] = bytes[i]
    /\ \A i \in 1..Len(data) : i <= at \/ i > at + Len(bytes) => o[i] = data[i]

\* Overwriting changes the bytes it is given a place for.
LEMMA OverwriteIs ==
    ASSUME NEW S, NEW data \in Seq(S), NEW at \in Nat, NEW bytes \in Seq(S), at + Len(bytes) <= Len(data),
           NEW o, o = Overwrite(data, at, bytes)
    PROVE  o \in Seq(S) /\ Overwritten(o, data, at, bytes)
<1>1. PICK n \in Nat : n = Len(data)
  OBVIOUS
<1>2. PICK k \in Nat : k = Len(bytes)
  OBVIOUS
<1>3. DOMAIN data = 1..n /\ DOMAIN bytes = 1..k
  BY <1>1, <1>2
<1>4. o = [i \in 1..n |-> IF i - at \in 1..k THEN bytes[i - at] ELSE data[i]]
  BY <1>3 DEF Overwrite
<1>5. \A i \in 1..n : o[i] \in S
  BY <1>1, <1>2, <1>4
<1>6. o \in [1..n -> S]
  BY <1>4, <1>5
<1>7. o \in Seq(S) /\ Len(o) = n
  BY <1>1, <1>6
<1>8. ASSUME NEW i \in 1..k PROVE o[at + i] = bytes[i]
  <2>1. PICK j \in Int : j = at + i
    BY <1>2
  <2>2. j \in 1..n /\ j - at = i
    BY <1>1, <1>2, <2>1
  <2> QED
    BY <1>4, <2>1, <2>2
<1>9. ASSUME NEW i \in 1..n, i <= at \/ i > at + k PROVE o[i] = data[i]
  <2>1. i - at \notin 1..k
    BY <1>1, <1>2, <1>9
  <2> QED
    BY <1>4, <2>1
<1> QED
  BY <1>1, <1>2, <1>7, <1>8, <1>9 DEF Overwritten

\* A blank array of n bytes.
LEMMA BlankIs ==
    ASSUME NEW S, NoByte \in S, NEW n \in Nat
    PROVE  Blank(n) \in Seq(S) /\ Len(Blank(n)) = n
<1>1. Blank(n) \in [1..n -> S]
  BY DEF Blank
<1> QED
  BY <1>1 DEF Blank

\* A new buffer holds nothing, behind the room for a header.
LEMMA NewBufferIs ==
    ASSUME NEW S, NoByte \in S, NEW b, b = NewBuffer
    PROVE  BufferOK(b, S) /\ Holds(b, <<>>) /\ b.reader = CheapPrepend
<1>1. CheapPrepend \in Nat /\ InitialSize \in Nat /\ CheapPrepend + InitialSize \in Nat
  BY FramingAssumption
<1>2. PICK d : d = Blank(CheapPrepend + InitialSize)
  OBVIOUS
<1>3. d \in Seq(S) /\ Len(d) = CheapPrepend + InitialSize
  BY <1>1, <1>2, BlankIs
<1>4. b = [data |-> d, reader |-> CheapPrepend, writer |-> CheapPrepend]
  BY <1>2 DEF NewBuffer
<1>5. BufferOK(b, S)
  BY <1>1, <1>3, <1>4 DEF BufferOK
<1>6. <<>> \in Seq(S) /\ Len(<<>>) = 0
  OBVIOUS
<1>7. b.writer - b.reader = 0
  BY <1>1, <1>4
<1>8. SameBytes(b, <<>>)
  BY <1>6, <1>7 DEF SameBytes
<1>9. Holds(b, <<>>)
  BY <1>5, <1>6, <1>8, SameReadable
<1> QED
  BY <1>4, <1>5, <1>9

\* There is room, and what could be read still can.
LEMMA MakeSpaceKeeps ==
    ASSUME NEW S, NoByte \in S, NEW b, BufferOK(b, S), NEW s, Holds(b, s), NEW more \in Nat,
           WriteableBytes(b) < more, NEW r, r = MakeSpace(b, more)
    PROVE  /\ BufferOK(r, S) /\ Holds(r, s) /\ r.writer + more <= Len(r.data)
           /\ b.reader = CheapPrepend => r.reader = CheapPrepend
<1>1. PICK d \in Seq(S) : d = b.data
  BY DEF BufferOK
<1>2. PICK x \in Nat : x = b.reader
  BY DEF BufferOK
<1>3. PICK w \in Nat : w = b.writer
  BY DEF BufferOK
<1>4. PICK n \in Nat : n = Len(d)
  OBVIOUS
<1>5. x <= w /\ w <= n
  BY <1>1, <1>2, <1>3, <1>4 DEF BufferOK
<1>6. b = [data |-> d, reader |-> x, writer |-> w]
  BY <1>1, <1>2, <1>3 DEF BufferOK
<1>7. WriteableBytes(b) = n - w /\ PrependableBytes(b) = x /\ ReadableBytes(b) = w - x /\ n - w < more
  BY <1>1, <1>2, <1>3, <1>4 DEF WriteableBytes, PrependableBytes, ReadableBytes
<1>8. /\ s \in Seq(S) /\ Len(s) = w - x
      /\ \A i \in 1..Len(s) : s[i] = d[x + i]
  BY <1>1, <1>2, <1>3, ReadableIs
<1>9. CheapPrepend \in Nat
  BY FramingAssumption
<1>10. CASE (n - w) + x < more + CheapPrepend
  <2>1. r = Resized(b, more)
    BY <1>7, <1>10 DEF MakeSpace
  <2>2. PICK m \in Nat : m = more - (n - w)
    BY <1>5, <1>7
  <2>3. PICK e : e = Blank(m)
    OBVIOUS
  <2>4. e \in Seq(S) /\ Len(e) = m
    BY <2>3, BlankIs
  <2>5. PICK d2 : d2 = d \o e
    OBVIOUS
  <2>12. d2 \in Seq(S) /\ Together(d2, d, e)
    BY <2>4, <2>5, JoinedIs
  <2>6. d2 \in Seq(S) /\ Len(d2) = n + m /\ \A i \in 1..n : d2[i] = d[i]
    BY <1>4, <2>4, <2>12 DEF Together
  <2>7. r = [data |-> d2, reader |-> x, writer |-> w]
    BY <1>6, <1>7, <2>1, <2>2, <2>3, <2>5 DEF Resized
  <2>8. BufferOK(r, S) /\ w + more <= Len(d2)
    BY <1>5, <2>2, <2>6, <2>7 DEF BufferOK
  <2>9. ASSUME NEW i \in 1..Len(s) PROVE r.data[r.reader + i] = s[i]
    <3>1. x + i \in 1..n
      BY <1>5, <1>8
    <3>2. d2[x + i] = d[x + i] /\ d[x + i] = s[i]
      BY <1>8, <2>6, <3>1
    <3> QED
      BY <2>7, <3>2
  <2>10. SameBytes(r, s)
    BY <1>8, <2>7, <2>9 DEF SameBytes
  <2>11. Holds(r, s)
    BY <1>8, <2>8, <2>10, SameReadable
  <2> QED
    BY <1>2, <2>7, <2>8, <2>11
<1>11. CASE ~((n - w) + x < more + CheapPrepend)
  <2>1. r = ToFront(b)
    BY <1>7, <1>11 DEF MakeSpace
  <2>2. PICK d2 : d2 = Overwrite(d, CheapPrepend, s)
    OBVIOUS
  <2>3. CheapPrepend + Len(s) <= n
    BY <1>5, <1>7, <1>8, <1>9, <1>11
  <2>4. /\ d2 \in Seq(S) /\ Len(d2) = n
        /\ \A i \in 1..Len(s) : d2[CheapPrepend + i] = s[i]
    <3>1. PICK at \in Nat : at = CheapPrepend
      BY <1>9
    <3>2. d2 = Overwrite(d, at, s) /\ at + Len(s) <= Len(d)
      BY <1>4, <2>2, <2>3, <3>1
    <3>3. d2 \in Seq(S) /\ Overwritten(d2, d, at, s)
      BY <1>8, <3>2, OverwriteIs
    <3> QED
      BY <1>4, <3>1, <3>3 DEF Overwritten
  <2>5. PICK w2 \in Nat : w2 = CheapPrepend + (w - x)
    BY <1>5, <1>9
  <2>6. r = [data |-> d2, reader |-> CheapPrepend, writer |-> w2]
    BY <1>1, <1>7, <2>1, <2>2, <2>5 DEF ToFront, Holds
  <2>7. BufferOK(r, S) /\ w2 + more <= Len(d2)
    BY SMTT(30), <1>5, <1>7, <1>8, <1>9, <1>11, <2>3, <2>4, <2>5, <2>6 DEF BufferOK
  <2>8. Len(s) = r.writer - r.reader
    BY <1>5, <1>8, <1>9, <2>5, <2>6
  <2>9. SameBytes(r, s)
    BY <2>4, <2>6, <2>8 DEF SameBytes
  <2>10. Holds(r, s)
    BY <1>8, <2>7, <2>9, SameReadable
  <2> QED
    BY <2>6, <2>7, <2>10
<1> QED
  BY <1>10, <1>11

\* What is appended comes behind what could be read.
LEMMA AppendBytesKeeps ==
    ASSUME NEW S, NoByte \in S, NEW b, BufferOK(b, S), NEW s, Holds(b, s), NEW bytes \in Seq(S),
           NEW a, a = AppendBytes(b, bytes)
    PROVE  /\ BufferOK(a, S) /\ Holds(a, s \o bytes)
           /\ b.reader = CheapPrepend => a.reader = CheapPrepend
<1>1. PICK k \in Nat : k = Len(bytes)
  OBVIOUS
<1>2. PICK r : r = IF WriteableBytes(b) < k THEN MakeSpace(b, k) ELSE b
  OBVIOUS
<1>3. /\ BufferOK(r, S) /\ Holds(r, s) /\ r.writer + k <= Len(r.data)
      /\ b.reader = CheapPrepend => r.reader = CheapPrepend
  <2>1. CASE WriteableBytes(b) < k
    BY <1>1, <1>2, <2>1, MakeSpaceKeeps
  <2>2. CASE ~(WriteableBytes(b) < k)
    <3>1. b.writer \in Nat /\ Len(b.data) \in Nat
      BY DEF BufferOK
    <3>2. b.writer + k <= Len(b.data)
      BY <1>1, <2>2, <3>1 DEF WriteableBytes
    <3> QED
      BY <1>2, <2>2, <3>2
  <2> QED
    BY <2>1, <2>2
<1>4. PICK d \in Seq(S) : d = r.data
  BY <1>3 DEF BufferOK
<1>5. PICK x \in Nat : x = r.reader
  BY <1>3 DEF BufferOK
<1>6. PICK w \in Nat : w = r.writer
  BY <1>3 DEF BufferOK
<1>7. r = [data |-> d, reader |-> x, writer |-> w] /\ x <= w /\ w + k <= Len(d) /\ Len(d) \in Nat
  BY <1>3, <1>4, <1>5, <1>6 DEF BufferOK
<1>8. /\ s \in Seq(S) /\ Len(s) = w - x
      /\ \A i \in 1..Len(s) : s[i] = d[x + i]
  BY <1>3, <1>4, <1>5, <1>6, ReadableIs
<1>9. PICK d2 : d2 = Overwrite(d, w, bytes)
  OBVIOUS
<1>10. /\ d2 \in Seq(S) /\ Len(d2) = Len(d)
       /\ \A i \in 1..k : d2[w + i] = bytes[i]
       /\ \A i \in 1..Len(d) : i <= w \/ i > w + k => d2[i] = d[i]
  <2>1. d2 \in Seq(S) /\ Overwritten(d2, d, w, bytes)
    BY <1>1, <1>7, <1>9, OverwriteIs
  <2> QED
    BY <1>1, <2>1 DEF Overwritten
<1>11. PICK w2 \in Nat : w2 = w + k
  OBVIOUS
<1>12. a = [data |-> d2, reader |-> x, writer |-> w2]
  <2>1. a = [r EXCEPT !.data = Overwrite(@, r.writer, bytes), !.writer = @ + Len(bytes)]
    BY <1>1, <1>2 DEF AppendBytes
  <2>2. a = [r EXCEPT !.data = d2, !.writer = w2]
    BY <1>1, <1>4, <1>6, <1>9, <1>11, <2>1
  <2> QED
    BY <1>7, <2>2
<1>13. BufferOK(a, S)
  BY <1>7, <1>10, <1>11, <1>12 DEF BufferOK
<1>14. PICK t : t = s \o bytes
  OBVIOUS
<1>15. /\ t \in Seq(S) /\ Len(t) = (w - x) + k
       /\ \A i \in 1..(w - x) : t[i] = s[i]
       /\ \A i \in 1..k : t[(w - x) + i] = bytes[i]
  <2>1. PICK m \in Nat : m = w - x
    BY <1>7
  <2>2. t \in Seq(S) /\ Together(t, s, bytes) /\ Len(s) = m
    BY <1>8, <1>14, <2>1, JoinedIs
  <2>3. Len(t) = m + k /\ (\A i \in 1..m : t[i] = s[i]) /\ \A i \in 1..k : t[m + i] = bytes[i]
    BY <1>1, <2>2 DEF Together
  <2> QED
    BY <2>1, <2>2, <2>3
<1>16. ASSUME NEW i \in 1..Len(t) PROVE d2[x + i] = t[i]
  <2>1. CASE i <= w - x
    <3>1. i \in 1..(w - x) /\ i \in 1..Len(s) /\ x + i \in 1..Len(d) /\ x + i <= w
      BY <1>7, <1>8, <1>15, <2>1
    <3> QED
      BY <1>8, <1>10, <1>15, <2>1, <3>1
  <2>2. CASE ~(i <= w - x)
    <3>1. PICK j \in 1..k : i = (w - x) + j
      <4>1. i - (w - x) \in 1..k /\ i = (w - x) + (i - (w - x))
        BY <1>7, <1>15, <2>2
      <4> QED
        BY <4>1
    <3>2. x + i = w + j
      BY <1>7, <3>1
    <3> QED
      BY <1>10, <1>15, <3>1, <3>2
  <2> QED
    BY <2>1, <2>2
<1>17. Len(t) = a.writer - a.reader
  BY <1>7, <1>11, <1>12, <1>15
<1>18. SameBytes(a, t)
  BY <1>12, <1>16, <1>17 DEF SameBytes
<1>19. Holds(a, t)
  BY <1>13, <1>15, <1>18, SameReadable
<1> QED
  BY <1>3, <1>5, <1>12, <1>13, <1>14, <1>19

\* p and q are the two parts of s.
Parts(s, n, p, q) ==
    /\ p \o q = s /\ Len(p) = n /\ Len(q) = Len(s) - n
    /\ \A i \in 1..n : p[i] = s[i]
    /\ \A i \in 1..(Len(s) - n) : q[i] = s[n + i]

FirstOf(s, n) == SubSeq(s, 1, n)
Behind(s, n) == SubSeq(s, n + 1, Len(s))

\* Two parts make the whole.
LEMMA SplitIs ==
    ASSUME NEW S, NEW s \in Seq(S), NEW n \in Nat, n <= Len(s),
           NEW p, p = FirstOf(s, n), NEW q, q = Behind(s, n)
    PROVE  p \in Seq(S) /\ q \in Seq(S) /\ Parts(s, n, p, q)
<1>1. PICK l \in Nat : l = Len(s)
  OBVIOUS
<1>2. /\ p \in Seq(S) /\ Len(p) = n
      /\ \A i \in 1..n : p[i] = s[i]
  <2>1. \A i \in 1..n : s[i] \in S
    BY <1>1
  <2>2. p \in Seq(S) /\ Len(p) = (IF 1 <= n THEN n - 1 + 1 ELSE 0)
    BY <1>1, <2>1, SubSeqProperties DEF FirstOf
  <2>3. \A i \in 1..(n - 1 + 1) : p[i] = s[1 + i - 1]
    BY <1>1, <2>1, SubSeqProperties DEF FirstOf
  <2> QED
    BY <2>2, <2>3
<1>3. PICK m \in Int : m = n + 1
  OBVIOUS
<1>4. /\ q \in Seq(S) /\ Len(q) = l - n
      /\ \A i \in 1..(l - n) : q[i] = s[n + i]
  <2>1. q = SubSeq(s, m, l) /\ m >= 1 /\ l <= Len(s) /\ m <= l + 1
    BY <1>1, <1>3 DEF Behind
  <2>2. \A i \in m..l : s[i] \in S
    BY <1>1, <1>3
  <2>3. q \in Seq(S) /\ Len(q) = (IF m <= l THEN l - m + 1 ELSE 0)
    BY <2>1, <2>2, SubSeqProperties
  <2>4. \A i \in 1..(l - m + 1) : SubSeq(s, m, l)[i] = s[m + i - 1]
    BY <2>1, <2>2, SubSeqProperties
  <2>5. ASSUME NEW i \in 1..(l - n) PROVE q[i] = s[n + i]
    <3>1. i \in 1..(l - m + 1) /\ m + i - 1 = n + i
      BY <1>1, <1>3
    <3> QED
      BY <2>1, <2>4, <3>1
  <2> QED
    BY <1>1, <1>3, <2>3, <2>5
<1>5. PICK t : t = p \o q
  OBVIOUS
<1>12. l - n \in Nat
  BY <1>1
<1>6. PICK k \in Nat : k = l - n
  BY <1>12
<1>13. t \in Seq(S) /\ Together(t, p, q)
  BY <1>2, <1>4, <1>5, JoinedIs
<1>7. /\ t \in Seq(S) /\ Len(t) = n + k
      /\ \A i \in 1..n : t[i] = p[i]
  BY <1>2, <1>4, <1>6, <1>13 DEF Together
<1>8. \A i \in 1..k : t[n + i] = q[i]
  BY <1>2, <1>4, <1>6, <1>13 DEF Together
<1>9. ASSUME NEW i \in 1..l PROVE t[i] = s[i]
  <2>1. CASE i <= n
    BY <1>2, <1>7, <2>1
  <2>2. CASE ~(i <= n)
    <3>1. PICK j \in Int : j = i - n
      OBVIOUS
    <3>2. j \in 1..k /\ n + j = i
      BY <1>6, <2>2, <3>1
    <3>3. t[n + j] = q[j] /\ q[j] = s[n + j]
      BY <1>4, <1>6, <1>8, <3>2
    <3> QED
      BY <3>2, <3>3
  <2> QED
    BY <2>1, <2>2
<1>10. t \in [1..l -> S] /\ s \in [1..l -> S]
  BY <1>1, <1>6, <1>7
<1>11. t = s
  BY <1>9, <1>10
<1> QED
  BY <1>1, <1>2, <1>4, <1>5, <1>11 DEF Parts

\* What is retrieved is gone, the rest can be read.
LEMMA RetrieveKeeps ==
    ASSUME NEW S, NEW b, BufferOK(b, S), NEW s, Holds(b, s), NEW n \in Nat, n <= Len(s),
           NEW a, a = Retrieve(b, n)
    PROVE  BufferOK(a, S) /\ Holds(a, Behind(s, n))
<1>1. PICK d \in Seq(S) : d = b.data
  BY DEF BufferOK
<1>2. PICK x \in Nat : x = b.reader
  BY DEF BufferOK
<1>3. PICK w \in Nat : w = b.writer
  BY DEF BufferOK
<1>4. b = [data |-> d, reader |-> x, writer |-> w] /\ x <= w /\ w <= Len(d) /\ Len(d) \in Nat
  BY <1>1, <1>2, <1>3 DEF BufferOK
<1>5. /\ s \in Seq(S) /\ Len(s) = w - x
      /\ \A i \in 1..Len(s) : s[i] = d[x + i]
  BY <1>1, <1>2, <1>3, ReadableIs
<1>6. PICK y \in Nat : y = x + n
  OBVIOUS
<1>7. a = [data |-> d, reader |-> y, writer |-> w]
  BY <1>4, <1>6 DEF Retrieve
<1>8. BufferOK(a, S)
  BY <1>4, <1>5, <1>6, <1>7 DEF BufferOK
<1>9. PICK t : t = Behind(s, n)
  OBVIOUS
<1>10. /\ t \in Seq(S) /\ Len(t) = (w - x) - n
       /\ \A i \in 1..Len(t) : t[i] = s[n + i]
  <2>1. PICK p : p = FirstOf(s, n)
    OBVIOUS
  <2>2. t \in Seq(S) /\ Parts(s, n, p, t)
    BY <1>5, <1>9, <2>1, SplitIs
  <2> QED
    BY <1>5, <2>2 DEF Parts
<1>11. ASSUME NEW i \in 1..Len(t) PROVE d[y + i] = t[i]
  <2>1. PICK j \in Nat : j = n + i
    BY <1>4, <1>5, <1>10
  <2>2. j \in 1..Len(s) /\ x + j = y + i
    BY <1>4, <1>5, <1>6, <1>10, <2>1
  <2> QED
    BY <1>5, <1>10, <2>1, <2>2
<1>12. Len(t) = a.writer - a.reader
  BY <1>4, <1>6, <1>7, <1>10
<1>13. SameBytes(a, t)
  BY <1>7, <1>11, <1>12 DEF SameBytes
<1>14. Holds(a, t)
  BY <1>8, <1>10, <1>13, SameReadable
<1> QED
  BY <1>8, <1>9, <1>14

\* What is prepended comes before, where there is room for it.
LEMMA PrependBytesKeeps ==
    ASSUME NEW S, NEW b, BufferOK(b, S), NEW s, Holds(b, s), NEW bytes \in Seq(S), Len(bytes) <= b.reader,
           NEW a, a = PrependBytes(b, bytes)
    PROVE  BufferOK(a, S) /\ Holds(a, bytes \o s) /\ a.reader = b.reader - Len(bytes)
<1>1. PICK d \in Seq(S) : d = b.data
  BY DEF BufferOK
<1>2. PICK x \in Nat : x = b.reader
  BY DEF BufferOK
<1>3. PICK w \in Nat : w = b.writer
  BY DEF BufferOK
<1>4. b = [data |-> d, reader |-> x, writer |-> w] /\ x <= w /\ w <= Len(d) /\ Len(d) \in Nat
  BY <1>1, <1>2, <1>3 DEF BufferOK
<1>5. /\ s \in Seq(S) /\ Len(s) = w - x
      /\ \A i \in 1..Len(s) : s[i] = d[x + i]
  BY SMTT(30), <1>1, <1>2, <1>3, ReadableIs
<1>6. PICK k \in Nat : k = Len(bytes)
  OBVIOUS
<1>7. PICK y \in Nat : y = x - k
  BY <1>2, <1>6
<1>8. PICK d2 : d2 = Overwrite(d, y, bytes)
  OBVIOUS
<1>9. /\ d2 \in Seq(S) /\ Len(d2) = Len(d)
      /\ \A i \in 1..k : d2[y + i] = bytes[i]
      /\ \A i \in 1..Len(d) : i <= y \/ i > y + k => d2[i] = d[i]
  <2>1. y + k <= Len(d)
    BY <1>4, <1>7
  <2>2. d2 \in Seq(S) /\ Overwritten(d2, d, y, bytes)
    BY <1>6, <1>8, <2>1, OverwriteIs
  <2> QED
    BY <1>6, <2>2 DEF Overwritten
<1>10. a = [data |-> d2, reader |-> y, writer |-> w]
  BY <1>4, <1>6, <1>7, <1>8 DEF PrependBytes
<1>11. BufferOK(a, S)
  BY <1>4, <1>7, <1>9, <1>10 DEF BufferOK
<1>12. PICK t : t = bytes \o s
  OBVIOUS
<1>13. /\ t \in Seq(S) /\ Len(t) = k + (w - x)
       /\ \A i \in 1..k : t[i] = bytes[i]
       /\ \A i \in 1..(w - x) : t[k + i] = s[i]
  <2>1. PICK m \in Nat : m = w - x
    BY <1>4
  <2>2. t \in Seq(S) /\ Together(t, bytes, s) /\ Len(s) = m
    BY <1>5, <1>12, <2>1, JoinedIs
  <2>3. Len(t) = k + m /\ (\A i \in 1..k : t[i] = bytes[i]) /\ \A i \in 1..m : t[k + i] = s[i]
    BY <1>6, <2>2 DEF Together
  <2> QED
    BY <2>1, <2>2, <2>3
<1>14. ASSUME NEW i \in 1..Len(t) PROVE d2[y + i] = t[i]
  <2>1. CASE i <= k
    <3>1. i \in 1..k
      BY <1>4, <1>13, <2>1
    <3> QED
      BY <1>9, <1>13, <2>1, <3>1
  <2>2. CASE ~(i <= k)
    <3>1. PICK j \in 1..Len(s) : i = k + j
      <4>1. i - k \in 1..Len(s) /\ i = k + (i - k)
        BY <1>4, <1>5, <1>13, <2>2
      <4> QED
        BY <4>1
    <3>2. y + i = x + j
      BY SMTT(30), <1>4, <1>5, <1>7, <3>1
    <3>3. PICK z \in Int : z = x + j
      BY <1>4, <1>5
    <3>4. z \in 1..Len(d) /\ z > y + k
      BY SMTT(30), <1>4, <1>5, <1>7, <3>3
    <3>5. d2[z] = d[z]
      BY <1>9, <3>4
    <3>6. t[i] = s[j]
      BY <1>5, <1>13, <3>1
    <3> QED
      BY <1>5, <3>2, <3>3, <3>5, <3>6
  <2> QED
    BY <2>1, <2>2
<1>15. Len(t) = a.writer - a.reader
  BY <1>4, <1>7, <1>10, <1>13
<1>16. SameBytes(a, t)
  BY <1>10, <1>14, <1>15 DEF SameBytes
<1>17. Holds(a, t)
  BY <1>11, <1>13, <1>16, SameReadable
<1> QED
  BY <1>2, <1>6, <1>7, <1>10, <1>11, <1>12, <1>17

\* What the descriptor gives comes behind, in one piece or in two.
LEMMA ReadFdKeeps ==
    ASSUME NEW S, NoByte \in S, NEW b, BufferOK(b, S), NEW s, Holds(b, s), NEW bytes \in Seq(S),
           NEW a, a = ReadFd(b, bytes)
    PROVE  BufferOK(a, S) /\ Holds(a, s \o bytes)
<1>1. PICK room \in Nat : room = WriteableBytes(b)
  BY DEF BufferOK, WriteableBytes
<1>2. CASE Len(bytes) <= room
  <2>1. a = AppendBytes(b, bytes)
    BY <1>1, <1>2 DEF ReadFd
  <2> QED
    BY <2>1, AppendBytesKeeps
<1>3. CASE ~(Len(bytes) <= room)
  <2>1. PICK p : p = FirstOf(bytes, room)
    OBVIOUS
  <2>2. PICK q : q = Behind(bytes, room)
    OBVIOUS
  <2>10. room <= Len(bytes)
    BY <1>3
  <2>11. p \in Seq(S) /\ q \in Seq(S) /\ Parts(bytes, room, p, q)
    BY <2>1, <2>2, <2>10, SplitIs
  <2>3. p \in Seq(S) /\ q \in Seq(S) /\ p \o q = bytes
    BY <2>11 DEF Parts
  <2>4. PICK c : c = AppendBytes(b, p)
    OBVIOUS
  <2>5. a = AppendBytes(c, q)
    BY <1>1, <1>3, <2>1, <2>2, <2>4 DEF ReadFd, FirstOf, Behind
  <2>6. BufferOK(c, S) /\ Holds(c, s \o p)
    BY <2>3, <2>4, AppendBytesKeeps
  <2>7. BufferOK(a, S) /\ Holds(a, (s \o p) \o q)
    BY <2>3, <2>5, <2>6, AppendBytesKeeps
  <2>8. s \in Seq(S)
    BY ReadableIs
  <2>9. \A u, v, z \in Seq(S) : (u \o v) \o z = u \o (v \o z)
    BY ConcatAssociative
  <2> QED
    BY <2>3, <2>7, <2>8, <2>9
<1> QED
  BY <1>2, <1>3

-----------------------------------------------------------------------------
(* The bytes of frames, one after the other                                 *)

FrameByte == Nat \X Nat

\* len: how long the frames are; n: how many there are.
After(len, byte) ==
    IF byte[2] < len[byte[1]] THEN <<byte[1], byte[2] + 1>> ELSE <<byte[1] + 1, 1>>

\* Every byte but the first comes after the one before it.
ByteOrder(len, bytes) ==
    \A i, j \in 1..Len(bytes) : j = i + 1 => bytes[j] = After(len, bytes[i])

Chain(len, n, d, bytes) ==
    IF d = n THEN bytes = <<>>
    ELSE /\ Len(bytes) > 0 /\ bytes[1] = <<d + 1, 1>>
         /\ \A i \in 1..Len(bytes) : bytes[i][1] \in 1..n
         /\ ByteOrder(len, bytes)
         /\ bytes[Len(bytes)] = <<n, len[n]>>

\* All bytes of frame f.
Whole(bytes, f, size) == Len(bytes) = size /\ \A k \in 1..size : bytes[k] = <<f, k>>

Agree(len, len2, n) == \A f \in 1..n : len2[f] = len[f]

\* A frame behind the others makes a longer chain.
LEMMA ChainLonger ==
    ASSUME NEW n \in Nat, NEW d \in 0..n, NEW len \in [1..n -> Nat \ {0}], NEW bytes \in Seq(FrameByte),
           Chain(len, n, d, bytes),
           NEW m, m = n + 1,
           NEW len2 \in [1..m -> Nat \ {0}], Agree(len, len2, n),
           NEW frame \in Seq(FrameByte), Whole(frame, m, len2[m]),
           NEW t, t = bytes \o frame
    PROVE  t \in Seq(FrameByte) /\ Chain(len2, m, d, t)
<1>1. PICK k \in Nat : k = Len(bytes)
  OBVIOUS
<1>2. PICK l \in Nat \ {0} : l = len2[m]
  OBVIOUS
<1>3. Len(frame) = l /\ \A i \in 1..l : frame[i] = <<m, i>>
  BY <1>2 DEF Whole
<1>4. t \in Seq(FrameByte) /\ Together(t, bytes, frame)
  BY JoinedIs
<1>5. /\ Len(t) = k + l
      /\ \A i \in 1..k : t[i] = bytes[i]
      /\ \A i \in 1..l : t[k + i] = frame[i]
  BY <1>1, <1>3, <1>4 DEF Together
<1>6. d # m /\ Len(t) > 0 /\ Len(t) \in Nat
  BY <1>2, <1>5
<1>7. t[Len(t)] = <<m, l>>
  <2>1. l \in 1..l
    OBVIOUS
  <2>2. t[k + l] = frame[l] /\ frame[l] = <<m, l>>
    BY <1>3, <1>5, <2>1
  <2> QED
    BY <1>5, <2>2
<1>11. m \in 1..m
  OBVIOUS
<1>8. ASSUME NEW i \in 1..(k + l), i > k PROVE t[i] = <<m, i - k>>
  <2>1. PICK j \in Int : j = i - k
    OBVIOUS
  <2>2. j \in 1..l /\ k + j = i
    BY <1>2, <1>8, <2>1
  <2> QED
    BY <1>3, <1>5, <2>1, <2>2
<1>9. CASE d = n
  <2>1. k = 0
    BY <1>1, <1>9 DEF Chain
  <2>2. ASSUME NEW i \in 1..l PROVE t[i] = <<m, i>>
    <3>1. t[k + i] = frame[i] /\ frame[i] = <<m, i>>
      BY <1>3, <1>5
    <3>2. k + i = i
      BY <2>1
    <3> QED
      BY <3>1, <3>2
  <2>3. t[1] = <<d + 1, 1>>
    <3>1. 1 \in 1..l
      OBVIOUS
    <3> QED
      BY <1>9, <2>2, <3>1
  <2>4. ASSUME NEW i \in 1..Len(t) PROVE t[i][1] \in 1..m
    <3>1. i \in 1..l
      BY <1>5, <2>1
    <3>2. t[i] = <<m, i>>
      BY <2>2, <3>1
    <3> QED
      BY <1>11, <3>2
  <2>5. ASSUME NEW i \in 1..Len(t), NEW j \in 1..Len(t), j = i + 1 PROVE t[j] = After(len2, t[i])
    <3>1. i \in 1..l /\ j \in 1..l /\ i < l
      BY <1>2, <1>5, <2>1, <2>5
    <3>2. t[i] = <<m, i>> /\ t[j] = <<m, i + 1>>
      BY <2>2, <2>5, <3>1
    <3> QED
      BY <1>2, <3>1, <3>2 DEF After
  <2> QED
    BY <1>2, <1>4, <1>6, <1>7, <2>3, <2>4, <2>5 DEF Chain, ByteOrder
<1>10. CASE d # n
  <2>1. /\ k > 0 /\ bytes[1] = <<d + 1, 1>>
        /\ \A i \in 1..k : bytes[i][1] \in 1..n
        /\ \A i, j \in 1..k : j = i + 1 => bytes[j] = After(len, bytes[i])
        /\ bytes[k] = <<n, len[n]>>
    BY <1>1, <1>10 DEF Chain, ByteOrder
  <2>5. 1 \in 1..k
    BY <2>1
  <2>2. t[1] = <<d + 1, 1>>
    BY <1>5, <2>1, <2>5
  <2>3. ASSUME NEW i \in 1..Len(t) PROVE t[i][1] \in 1..m
    <3>1. CASE i <= k
      <4>1. i \in 1..k
        BY <1>5, <3>1
      <4>2. t[i][1] \in 1..n
        BY <1>5, <2>1, <4>1
      <4> QED
        BY <4>2
    <3>2. CASE ~(i <= k)
      <4>1. i \in 1..(k + l) /\ i > k
        BY <1>5, <3>2
      <4>2. t[i] = <<m, i - k>>
        BY <1>8, <4>1
      <4> QED
        BY <1>11, <4>2
    <3> QED
      BY <3>1, <3>2
  <2>4. ASSUME NEW i \in 1..Len(t), NEW j \in 1..Len(t), j = i + 1 PROVE t[j] = After(len2, t[i])
    <3>1. CASE j <= k
      <4>1. i \in 1..k /\ j \in 1..k
        BY <1>5, <2>4, <3>1
      <4>2. t[i] = bytes[i] /\ t[j] = bytes[j] /\ bytes[i][1] \in 1..n /\ bytes[j] = After(len, bytes[i])
        BY <1>5, <2>1, <2>4, <4>1
      <4> QED
        BY <4>2 DEF After, Agree
    <3>2. CASE i = k
      <4>6. k \in 1..k
        BY <2>1
      <4>1. t[i] = <<n, len[n]>>
        BY <1>5, <2>1, <3>2, <4>6
      <4>2. n \in 1..n /\ len2[n] = len[n] /\ len[n] \in Nat
        BY <1>10 DEF Agree
      <4>3. After(len2, t[i]) = <<n + 1, 1>>
        BY <4>1, <4>2 DEF After
      <4>4. j \in 1..(k + l) /\ j > k /\ j - k = 1
        BY <1>5, <2>4, <3>2
      <4>5. t[j] = <<m, j - k>>
        BY <1>8, <4>4
      <4> QED
        BY <4>3, <4>4, <4>5
    <3>3. CASE i > k
      <4>3. i \in 1..(k + l) /\ j \in 1..(k + l) /\ j > k
        BY <1>5, <2>4, <3>3
      <4>1. t[i] = <<m, i - k>> /\ t[j] = <<m, j - k>>
        BY <1>8, <3>3, <4>3
      <4>2. i - k < l /\ j - k = (i - k) + 1
        BY <1>1, <1>5, <2>4, <4>3
      <4> QED
        BY <1>2, <4>1, <4>2 DEF After
    <3> QED
      BY SMTT(30), <1>5, <2>4, <3>1, <3>2, <3>3
  <2> QED
    BY <1>2, <1>4, <1>6, <1>7, <2>2, <2>3, <2>4 DEF Chain, ByteOrder
<1> QED
  BY <1>9, <1>10

\* Of some naturals one is the least.
LEMMA LeastNat ==
    ASSUME NEW T \in SUBSET Nat, T # {}
    PROVE  \E x \in T : \A y \in T : x <= y
<1>1. IsWellFoundedOn(OpToRel(<, Nat), Nat)
  BY NatLessThanWellFounded
<1>2. PICK x \in T : \A y \in T : ~(<<y, x>> \in OpToRel(<, Nat))
  BY <1>1, WFMin
<1>3. \A y \in T : ~(y < x)
  BY <1>2 DEF OpToRel
<1> QED
  BY <1>3

\* The chain begins with the frame behind the first d.
LEMMA ChainHead ==
    ASSUME NEW n \in Nat, NEW d \in 0..n, d # n, NEW len \in [1..n -> Nat \ {0}], NEW bytes \in Seq(FrameByte),
           Chain(len, n, d, bytes),
           NEW f, f = d + 1
    PROVE  /\ \A k \in 1..Len(bytes) : k <= len[f] => bytes[k] = <<f, k>>
           /\ Len(bytes) >= len[f]
<1>1. PICK l \in Nat : l = Len(bytes)
  OBVIOUS
<1>2. /\ l > 0 /\ bytes[1] = <<f, 1>>
      /\ \A i \in 1..l : bytes[i][1] \in 1..n
      /\ \A i, j \in 1..l : j = i + 1 => bytes[j] = After(len, bytes[i])
      /\ bytes[l] = <<n, len[n]>>
  BY <1>1 DEF Chain, ByteOrder
<1>3. f \in 1..n /\ len[f] \in Nat
  BY DEF Chain
<1>4. PICK T : T = {k \in 1..l : k <= len[f] /\ bytes[k] # <<f, k>>}
  OBVIOUS
<1>5. T = {}
  <2>1. SUFFICES ASSUME T # {} PROVE FALSE
    OBVIOUS
  <2>2. T \in SUBSET Nat
    BY <1>4
  <2>3. PICK k \in T : \A y \in T : k <= y
    BY <2>1, <2>2, LeastNat
  <2>4. k \in 1..l /\ k <= len[f] /\ bytes[k] # <<f, k>>
    BY <1>4, <2>3
  <2>5. k # 1
    BY <1>2, <2>4
  <2>6. PICK i \in Int : i = k - 1
    BY <2>4
  <2>7. i \in 1..l /\ k = i + 1 /\ i < len[f]
    BY <1>3, <2>4, <2>5, <2>6
  <2>8. i \notin T
    BY <2>3, <2>7
  <2>9. bytes[i] = <<f, i>>
    BY <1>3, <1>4, <2>7, <2>8
  <2>10. bytes[k] = After(len, bytes[i])
    BY <1>2, <2>4, <2>7
  <2> QED
    BY <2>4, <2>7, <2>9, <2>10 DEF After
<1>6. \A k \in 1..l : k <= len[f] => bytes[k] = <<f, k>>
  BY <1>4, <1>5
<1>7. l >= len[f]
  <2>1. SUFFICES ASSUME l < len[f] PROVE FALSE
    BY <1>1, <1>3
  <2>2. l \in 1..l /\ l <= len[f]
    BY <1>2, <1>3, <2>1
  <2>3. bytes[l] = <<f, l>>
    BY <1>6, <2>2
  <2>4. f = n /\ l = len[n]
    BY <1>2, <2>3
  <2> QED
    BY <2>1, <2>4
<1> QED
  BY <1>1, <1>6, <1>7

\* What is left of it without that frame.
LEMMA ChainShorter ==
    ASSUME NEW n \in Nat, NEW d \in 0..n, d # n, NEW len \in [1..n -> Nat \ {0}], NEW bytes \in Seq(FrameByte),
           Chain(len, n, d, bytes),
           NEW f, f = d + 1, NEW q, q = Behind(bytes, len[f])
    PROVE  q \in Seq(FrameByte) /\ Chain(len, n, f, q)
<1>1. PICK l \in Nat : l = Len(bytes)
  OBVIOUS
<1>2. /\ l > 0
      /\ \A i \in 1..l : bytes[i][1] \in 1..n
      /\ \A i, j \in 1..l : j = i + 1 => bytes[j] = After(len, bytes[i])
      /\ bytes[l] = <<n, len[n]>>
  BY <1>1 DEF Chain, ByteOrder
<1>3. f \in 1..n
  OBVIOUS
<1>4. PICK h \in Nat \ {0} : h = len[f]
  BY <1>3
<1>5. /\ \A k \in 1..l : k <= h => bytes[k] = <<f, k>>
      /\ l >= h
  BY <1>1, <1>4, ChainHead
<1>6. bytes[h] = <<f, h>>
  BY <1>5
<1>7. PICK p : p = FirstOf(bytes, h)
  OBVIOUS
<1>8. q \in Seq(FrameByte) /\ Parts(bytes, h, p, q)
  BY <1>1, <1>4, <1>5, <1>7, SplitIs
<1>9. Len(q) = l - h /\ \A i \in 1..(l - h) : q[i] = bytes[h + i]
  BY <1>1, <1>8 DEF Parts
<1>10. ASSUME l > h PROVE bytes[h + 1] = <<f + 1, 1>>
  <2>1. PICK j \in Int : j = h + 1
    OBVIOUS
  <2>2. h \in 1..l /\ j \in 1..l
    BY <1>10, <2>1
  <2>3. bytes[j] = After(len, <<f, h>>)
    BY <1>2, <1>6, <2>1, <2>2
  <2> QED
    BY <1>4, <2>1, <2>3 DEF After
<1>11. CASE f = n
  <2>1. l = h
    <3>1. SUFFICES ASSUME l > h PROVE FALSE
      BY <1>5
    <3>2. bytes[h + 1] = <<n + 1, 1>> /\ h + 1 \in 1..l
      BY <1>10, <1>11, <3>1
    <3>3. bytes[h + 1][1] \in 1..n
      BY <1>2, <3>2
    <3> QED
      BY <3>2, <3>3
  <2>2. q = <<>>
    BY <1>8, <1>9, <2>1
  <2> QED
    BY <1>8, <1>11, <2>2 DEF Chain
<1>12. CASE f # n
  <2>1. l > h
    <3>1. SUFFICES ASSUME l = h PROVE FALSE
      BY <1>5
    <3> QED
      BY <1>2, <1>6, <1>12, <3>1
  <2>6. 1 \in 1..(l - h)
    BY <2>1
  <2>2. Len(q) > 0 /\ q[1] = <<f + 1, 1>>
    BY <1>9, <1>10, <2>1, <2>6
  <2>3. ASSUME NEW i \in 1..Len(q) PROVE q[i][1] \in 1..n
    <3>1. PICK j \in Int : j = h + i
      BY <1>9
    <3>2. j \in 1..l /\ q[i] = bytes[j]
      BY <1>9, <3>1
    <3> QED
      BY <1>2, <3>2
  <2>4. ASSUME NEW i \in 1..Len(q), NEW j \in 1..Len(q), j = i + 1 PROVE q[j] = After(len, q[i])
    <3>1. PICK a \in Int : a = h + i
      BY <1>9
    <3>2. PICK b \in Int : b = h + j
      BY <1>9
    <3>3. a \in 1..l /\ b \in 1..l /\ b = a + 1 /\ q[i] = bytes[a] /\ q[j] = bytes[b]
      BY <1>9, <2>4, <3>1, <3>2
    <3> QED
      BY <1>2, <3>3
  <2>5. q[Len(q)] = <<n, len[n]>>
    <3>1. PICK i \in Int : i = l - h
      OBVIOUS
    <3>2. i \in 1..(l - h) /\ h + i = l
      BY <2>1, <3>1
    <3> QED
      BY <1>2, <1>9, <3>1, <3>2
  <2> QED
    BY <1>8, <1>12, <2>2, <2>3, <2>4, <2>5 DEF Chain, ByteOrder
<1> QED
  BY <1>11, <1>12

-----------------------------------------------------------------------------
(* Frames are sent, read and delivered                                      *)

FrameRecord == [len : Nat, kind : {"good", "bad"}]

Lens(s, c) == [f \in 1..Len(s) |-> HeaderLen[c] + s[f].len]

FrameTypes ==
    /\ codec \in Codecs
    /\ sent \in Seq(FrameRecord) /\ \A f \in 1..Len(sent) : sent[f].len >= MinMessageLen[codec]
    /\ stream \in Seq(FrameByte) /\ BufferOK(input, FrameByte)
    /\ decoding \in BOOLEAN /\ open \in BOOLEAN
    /\ delivered \in Seq(Seq(FrameByte))

\* What the callback was given.
DeliveredOK ==
    /\ Len(delivered) <= Len(sent)
    /\ \A f \in 1..Len(delivered) :
          sent[f].kind = "good" /\ delivered[f] = ContentOf(f, sent[f].len)

\* What is under way is the rest.
RestOK == Chain(Lens(sent, codec), Len(sent), Len(delivered), Readable(input) \o stream)

\* When onMessage has returned, no whole frame waits.
NoneWaits ==
    ~decoding /\ open /\ Len(delivered) < Len(sent) =>
        ReadableBytes(input) < HeaderLen[codec] + sent[Len(delivered) + 1].len

FrameInv == FrameTypes /\ DeliveredOK /\ RestOK /\ NoneWaits

\* The sizes of headers and messages.
LEMMA CodecSizes ==
    ASSUME NEW c \in Codecs
    PROVE  /\ HeaderLen[c] \in Nat \ {0} /\ HeaderLen[c] <= CheapPrepend /\ CheapPrepend \in Nat
           /\ MinMessageLen[c] \in Nat /\ MaxMessageLen \in Nat /\ MinMessageLen[c] <= MaxMessageLen
           /\ c = "kabu" => CheapPrepend < 2 * HeaderLen[c]
           /\ c = "kabu" \/ c = "db"
  BY FramingAssumption

LensOf(len, s, c) ==
    /\ len \in [1..Len(s) -> Nat \ {0}]
    /\ \A f \in 1..Len(s) : len[f] = HeaderLen[c] + s[f].len

\* The lengths of the frames sent.
LEMMA LensAre ==
    ASSUME NEW c \in Codecs, NEW s \in Seq(FrameRecord), NEW len, len = Lens(s, c)
    PROVE  LensOf(len, s, c)
<1>1. PICK h \in Nat \ {0} : h = HeaderLen[c]
  BY CodecSizes
<1>2. ASSUME NEW f \in 1..Len(s) PROVE s[f].len \in Nat
  <2>1. s[f] \in FrameRecord
    OBVIOUS
  <2> QED
    BY <2>1 DEF FrameRecord
<1>3. \A f \in 1..Len(s) : h + s[f].len \in Nat \ {0}
  BY <1>2
<1>4. len = [f \in 1..Len(s) |-> h + s[f].len]
  BY <1>1 DEF Lens
<1> QED
  BY <1>1, <1>3, <1>4 DEF LensOf

\* The bytes of the frame r may go behind those of s, of which d are delivered.
MaySend(c, s, d, bytes, r, fb) ==
    /\ d \in 0..Len(s) /\ Chain(Lens(s, c), Len(s), d, bytes)
    /\ Whole(fb, Len(s) + 1, HeaderLen[c] + r.len)

SentNow(c, s, d, s2, t) ==
    /\ s2 \in Seq(FrameRecord) /\ Len(s2) = Len(s) + 1
    /\ t \in Seq(FrameByte) /\ Chain(Lens(s2, c), Len(s2), d, t)

\* One more frame is sent.
LEMMA ChainSend ==
    ASSUME NEW c \in Codecs, NEW s \in Seq(FrameRecord), NEW d, NEW bytes \in Seq(FrameByte),
           NEW r \in FrameRecord, NEW fb \in Seq(FrameByte), MaySend(c, s, d, bytes, r, fb),
           NEW s2, s2 = Append(s, r), NEW t, t = bytes \o fb
    PROVE  SentNow(c, s, d, s2, t)
<1>14. /\ d \in 0..Len(s) /\ Chain(Lens(s, c), Len(s), d, bytes)
       /\ Whole(fb, Len(s) + 1, HeaderLen[c] + r.len)
  BY DEF MaySend
<1>1. PICK n \in Nat : n = Len(s)
  OBVIOUS
<1>2. PICK m \in Nat : m = n + 1
  OBVIOUS
<1>3. /\ s2 \in Seq(FrameRecord) /\ Len(s2) = m /\ s2[m] = r
      /\ \A f \in 1..n : s2[f] = s[f]
  BY <1>1, <1>2
<1>4. PICK len : len = Lens(s, c)
  OBVIOUS
<1>5. len \in [1..n -> Nat \ {0}] /\ \A f \in 1..n : len[f] = HeaderLen[c] + s[f].len
  <2>1. LensOf(len, s, c)
    BY <1>4, LensAre
  <2> QED
    BY <1>1, <2>1 DEF LensOf
<1>6. PICK len2 : len2 = Lens(s2, c)
  OBVIOUS
<1>7. len2 \in [1..m -> Nat \ {0}] /\ \A f \in 1..m : len2[f] = HeaderLen[c] + s2[f].len
  <2>1. LensOf(len2, s2, c)
    BY <1>3, <1>6, LensAre
  <2> QED
    BY <1>3, <2>1 DEF LensOf
<1>8. Agree(len, len2, n)
  BY <1>2, <1>3, <1>5, <1>7 DEF Agree
<1>9. len2[m] = HeaderLen[c] + r.len
  BY <1>2, <1>3, <1>7
<1>10. Whole(fb, m, len2[m])
  BY <1>1, <1>2, <1>9, <1>14
<1>13. Lens(s, c) = len /\ Len(s) = n
  BY <1>1, <1>4
<1>11. Chain(len, n, d, bytes) /\ d \in 0..n
  BY <1>13, <1>14
<1>12. t \in Seq(FrameByte) /\ Chain(len2, m, d, t)
  BY <1>2, <1>5, <1>7, <1>8, <1>10, <1>11, ChainLonger
<1> QED
  BY <1>1, <1>2, <1>3, <1>6, <1>12 DEF SentNow

\* The frames are those of the run.
LEMMA ChainIsBytes ==
    ASSUME FrameTypes, NEW d \in 0..Len(sent), NEW t \in Seq(FrameByte),
           Chain(Lens(sent, codec), Len(sent), d, t)
    PROVE  BytesBehind(d, t)
<1>1. PICK n \in Nat : n = Len(sent)
  BY DEF FrameTypes
<1>2. PICK len : len = Lens(sent, codec)
  OBVIOUS
<1>3. len \in [1..n -> Nat \ {0}] /\ \A f \in 1..n : len[f] = FrameLen(f)
  <2>1. codec \in Codecs /\ sent \in Seq(FrameRecord)
    BY DEF FrameTypes
  <2>2. LensOf(len, sent, codec)
    BY <1>2, <2>1, LensAre
  <2> QED
    BY <1>1, <2>2 DEF LensOf, FrameLen
<1>4. CASE d = n
  BY <1>1, <1>4 DEF Chain, BytesBehind
<1>5. CASE d # n
  <2>1. PICK l \in Nat : l = Len(t)
    OBVIOUS
  <2>2. /\ l > 0 /\ t[1] = <<d + 1, 1>>
        /\ \A i \in 1..l : t[i][1] \in 1..n
        /\ \A i, j \in 1..l : j = i + 1 => t[j] = After(len, t[i])
        /\ t[l] = <<n, len[n]>>
    BY <1>1, <1>2, <1>5, <2>1 DEF Chain, ByteOrder
  <2>3. DOMAIN t = 1..l /\ DOMAIN sent = 1..n
    BY <1>1, <2>1 DEF FrameTypes
  <2>4. ASSUME NEW i \in 1..(Len(t) - 1) PROVE t[i + 1] = ByteAfter(t[i])
    <3>1. PICK j \in Int : j = i + 1
      BY <2>1
    <3>2. i \in 1..l /\ j \in 1..l
      BY <2>1, <3>1
    <3>3. t[j] = After(len, t[i]) /\ t[i][1] \in 1..n
      BY <2>2, <3>1, <3>2
    <3>4. len[t[i][1]] = FrameLen(t[i][1])
      BY <1>3, <3>3
    <3> QED
      BY <3>1, <3>3, <3>4 DEF After, ByteAfter
  <2>5. t # <<>>
    BY <2>1, <2>2
  <2>6. t[Len(t)] = <<Len(sent), FrameLen(Len(sent))>>
    <3>1. n \in 1..n
      BY <1>1, <1>5
    <3> QED
      BY <1>1, <1>3, <2>1, <2>2, <3>1
  <2> QED
    BY <1>1, <1>5, <2>2, <2>3, <2>4, <2>5, <2>6 DEF BytesBehind
<1> QED
  BY <1>4, <1>5

\* What is under way are bytes of frames.
LEMMA UnderWay ==
    ASSUME FrameTypes
    PROVE  /\ Readable(input) \in Seq(FrameByte)
           /\ Len(Readable(input)) = ReadableBytes(input) /\ ReadableBytes(input) \in Nat
           /\ Readable(input) \o stream \in Seq(FrameByte)
<1>1. BufferOK(input, FrameByte) /\ stream \in Seq(FrameByte)
  BY DEF FrameTypes
<1>2. PICK r : Holds(input, r)
  BY DEF Holds
<1>3. r \in Seq(FrameByte) /\ Len(r) \in Nat /\ Len(r) = input.writer - input.reader
  BY <1>1, <1>2, ReadableIs
<1> QED
  BY <1>1, <1>2, <1>3 DEF Holds, ReadableBytes

\* The invariant says what the run checks.
LEMMA FramesAreIntact == FrameInv => FramesIntact
<1>1. SUFFICES ASSUME FrameInv PROVE FramesIntact
  OBVIOUS
<1>2. FrameTypes /\ DeliveredOK /\ RestOK /\ NoneWaits
  BY <1>1 DEF FrameInv
<1>20. delivered \in Seq(Seq(FrameByte))
  BY <1>2 DEF FrameTypes
<1>3. PICK d \in Nat : d = Len(delivered)
  BY <1>20
<1>4. DOMAIN delivered = 1..d /\ delivered = [f \in 1..d |-> delivered[f]]
  BY <1>2, <1>3 DEF FrameTypes
<1>5. d <= Len(sent) /\ \A f \in 1..d : sent[f].kind = "good" /\ delivered[f] = ContentOf(f, sent[f].len)
  BY <1>2, <1>3 DEF DeliveredOK
<1>6. delivered = [f \in DOMAIN delivered |-> ContentOf(f, sent[f].len)]
  BY <1>4, <1>5
<1>7. BytesBehind(Len(delivered), Readable(input) \o stream)
  <2>1. d \in 0..Len(sent)
    BY <1>2, <1>5 DEF FrameTypes
  <2>2. Readable(input) \o stream \in Seq(FrameByte)
    BY <1>2, UnderWay
  <2> QED
    BY <1>2, <1>3, <2>1, <2>2, ChainIsBytes DEF RestOK
<1> QED
  BY <1>2, <1>3, <1>4, <1>5, <1>6, <1>7 DEF FramesIntact, NoneWaits

\* Nothing was sent at first.
LEMMA FramesStart == FramingInit => FrameInv
<1>1. SUFFICES ASSUME FramingInit PROVE FrameInv
  OBVIOUS
<1>2. codec \in Codecs /\ sent = <<>> /\ stream = <<>> /\ input = NewBuffer
      /\ decoding = FALSE /\ open = TRUE /\ delivered = <<>>
  BY <1>1 DEF FramingInit
<1>3. NoByte \in FrameByte
  BY DEF NoByte, FrameByte
<1>4. BufferOK(input, FrameByte) /\ Holds(input, <<>>)
  BY <1>2, <1>3, NewBufferIs
<1>5. <<>> \in Seq(FrameRecord) /\ <<>> \in Seq(FrameByte) /\ <<>> \in Seq(Seq(FrameByte)) /\ Len(<<>>) = 0
  OBVIOUS
<1>6. FrameTypes
  <2>1. 1..Len(sent) = {}
    BY <1>2, <1>5
  <2> QED
    BY <1>2, <1>4, <1>5, <2>1 DEF FrameTypes
<1>7. Readable(input) \o stream = <<>>
  <2>1. <<>> \o <<>> = <<>>
    BY <1>5, ConcatEmptySeq
  <2> QED
    BY <1>2, <1>4, <2>1 DEF Holds
<1>8. RestOK
  BY <1>2, <1>7 DEF RestOK, Chain
<1>9. DeliveredOK /\ NoneWaits
  BY <1>2 DEF DeliveredOK, NoneWaits
<1> QED
  BY <1>6, <1>8, <1>9 DEF FrameInv

\* What KaBuCodec::send and KabuCodec::send leave in the packet.
LEMMA PacketIsFrame ==
    ASSUME codec \in Codecs, NEW f \in Nat, NEW size \in Nat,
           NEW first, first = Framed(AppendBytes(NewBuffer, ContentOf(f, size)), HeaderOf(f)),
           NEW fb, fb = Readable(first)
    PROVE  /\ fb \in Seq(FrameByte) /\ Whole(fb, f, HeaderLen[codec] + size)
           /\ codec = "kabu" => Framed(first, HeaderOf(f)) = first
<1>1. PICK h \in Nat \ {0} : h = HeaderLen[codec]
  BY CodecSizes
<1>2. h <= CheapPrepend /\ CheapPrepend \in Nat /\ (codec = "kabu" => CheapPrepend < 2 * h)
  BY <1>1, CodecSizes
<1>3. NoByte \in FrameByte
  BY DEF NoByte, FrameByte
<1>4. PICK e : e = NewBuffer
  OBVIOUS
<1>20. PICK z : z = <<>>
  OBVIOUS
<1>5. BufferOK(e, FrameByte) /\ Holds(e, z) /\ e.reader = CheapPrepend
  BY <1>3, <1>4, <1>20, NewBufferIs
<1>6. PICK body : body = ContentOf(f, size)
  OBVIOUS
<1>7. body \in Seq(FrameByte) /\ Len(body) = size /\ \A k \in 1..size : body[k] = <<f, h + k>>
  <2>1. body = [k \in 1..size |-> <<f, h + k>>]
    BY <1>1, <1>6 DEF ContentOf
  <2>2. \A k \in 1..size : <<f, h + k>> \in FrameByte
    BY DEF FrameByte
  <2>3. body \in [1..size -> FrameByte]
    BY <2>1, <2>2
  <2>4. body \in Seq(FrameByte) /\ Len(body) = size
    BY <2>3
  <2>5. \A k \in 1..size : body[k] = <<f, h + k>>
    BY <2>1
  <2> QED
    BY <2>4, <2>5
<1>8. PICK header : header = HeaderOf(f)
  OBVIOUS
<1>9. header \in Seq(FrameByte) /\ Len(header) = h /\ \A k \in 1..h : header[k] = <<f, k>>
  <2>1. header = [k \in 1..h |-> <<f, k>>]
    BY <1>1, <1>8 DEF HeaderOf
  <2>2. \A k \in 1..h : <<f, k>> \in FrameByte
    BY DEF FrameByte
  <2>3. header \in [1..h -> FrameByte]
    BY <2>1, <2>2
  <2> QED
    BY <2>1, <2>3
<1>10. PICK a : a = AppendBytes(e, body)
  OBVIOUS
<1>11. BufferOK(a, FrameByte) /\ Holds(a, z \o body) /\ a.reader = CheapPrepend
  BY <1>3, <1>5, <1>7, <1>10, AppendBytesKeeps
<1>12. z \o body = body
  BY <1>7, <1>20, ConcatEmptySeq
<1>13. first = Framed(a, header)
  BY <1>4, <1>6, <1>8, <1>10
<1>14. first = PrependBytes(a, header)
  BY <1>2, <1>9, <1>11, <1>13 DEF Framed, PrependableBytes
<1>15. BufferOK(first, FrameByte) /\ Holds(first, header \o body) /\ first.reader = CheapPrepend - h
  BY <1>2, <1>9, <1>11, <1>12, <1>14, PrependBytesKeeps
<1>16. fb \in Seq(FrameByte) /\ Together(fb, header, body)
  BY <1>7, <1>9, <1>15, JoinedIs DEF Holds
<1>17. /\ Len(fb) = h + size
       /\ \A k \in 1..h : fb[k] = header[k]
       /\ \A k \in 1..size : fb[h + k] = body[k]
  BY <1>7, <1>9, <1>16 DEF Together
<1>18. ASSUME NEW k \in 1..(h + size) PROVE fb[k] = <<f, k>>
  <2>1. CASE k <= h
    BY <1>9, <1>17, <2>1
  <2>2. CASE ~(k <= h)
    <3>1. PICK j \in Int : j = k - h
      OBVIOUS
    <3>2. j \in 1..size /\ h + j = k
      BY <2>2, <3>1
    <3>3. fb[h + j] = body[j] /\ body[j] = <<f, h + j>>
      BY <1>7, <1>17, <3>2
    <3> QED
      BY <3>2, <3>3
  <2> QED
    BY <2>1, <2>2
<1>19. codec = "kabu" => Framed(first, header) = first
  BY <1>2, <1>9, <1>15 DEF Framed, PrependableBytes
<1> QED
  BY <1>1, <1>8, <1>16, <1>17, <1>18, <1>19 DEF Whole

\* The same packet under the number of the next frame.
LEMMA NamedAgain ==
    ASSUME NEW fb \in Seq(FrameByte), NEW f \in Nat, NEW size \in Nat, Whole(fb, f, size), NEW g \in Nat,
           NEW t, t = [i \in DOMAIN fb |-> <<g, fb[i][2]>>]
    PROVE  t \in Seq(FrameByte) /\ Whole(t, g, size)
<1>1. Len(fb) = size /\ \A k \in 1..size : fb[k] = <<f, k>>
  BY DEF Whole
<1>2. DOMAIN fb = 1..size
  BY <1>1
<1>3. t = [i \in 1..size |-> <<g, fb[i][2]>>]
  BY <1>2
<1>4. \A i \in 1..size : t[i] = <<g, i>>
  BY <1>1, <1>3
<1>5. ASSUME NEW i \in 1..size PROVE t[i] \in FrameByte
  <2>1. <<g, i>> \in FrameByte
    BY DEF FrameByte
  <2> QED
    BY <1>4, <2>1
<1>6. t \in [1..size -> FrameByte]
  BY <1>3, <1>5
<1>7. t \in Seq(FrameByte) /\ Len(t) = size
  BY <1>6
<1> QED
  BY <1>4, <1>7 DEF Whole

\* A frame of a peer is no shorter than a message of the codec.
LEMMA FrameSizes ==
    ASSUME codec \in Codecs, NEW frame \in Frames
    PROVE  frame \in FrameRecord /\ frame.len \in Nat /\ frame.len >= MinMessageLen[codec]
<1>1. PICK m \in Nat : m = MinMessageLen[codec]
  BY CodecSizes
<1>2. MaxMessageLen \in Nat /\ m <= MaxMessageLen
  BY <1>1, CodecSizes
<1>3. \/ frame \in [len : m..MaxMessageLen, kind : {"good", "bad"}]
      \/ frame \in [len : {MaxMessageLen + 1}, kind : {"bad"}]
  BY <1>1 DEF Frames
<1> QED
  BY <1>1, <1>2, <1>3 DEF FrameRecord

SentAgain(s, r, times) == s \o [i \in 1..times |-> r]

\* One frame, or two of the same packet, are behind those of before.
LEMMA SentTwice ==
    ASSUME NEW s \in Seq(FrameRecord), NEW r \in FrameRecord, NEW times \in 1..2,
           NEW s2, s2 = SentAgain(s, r, times)
    PROVE  s2 = IF times = 1 THEN Append(s, r) ELSE Append(Append(s, r), r)
<1>1. PICK n \in Nat : n = Len(s)
  OBVIOUS
<1>2. PICK e : e = [i \in 1..times |-> r]
  OBVIOUS
<1>3. e \in Seq(FrameRecord) /\ Len(e) = times /\ \A i \in 1..times : e[i] = r
  <2>1. e \in [1..times -> FrameRecord]
    BY <1>2
  <2>2. e \in Seq(FrameRecord) /\ Len(e) = times
    BY <2>1
  <2> QED
    BY <1>2, <2>2
<1>12. s2 = s \o e
  BY <1>2 DEF SentAgain
<1>4. s2 \in Seq(FrameRecord) /\ Together(s2, s, e)
  BY <1>3, <1>12, JoinedIs
<1>5. /\ Len(s2) = n + times
      /\ \A i \in 1..n : s2[i] = s[i]
      /\ \A i \in 1..times : s2[n + i] = r
  BY <1>1, <1>3, <1>4 DEF Together
<1>6. PICK one : one = Append(s, r)
  OBVIOUS
<1>7. PICK m \in Nat : m = n + 1
  OBVIOUS
<1>8. one \in Seq(FrameRecord) /\ Len(one) = m /\ one[m] = r /\ \A i \in 1..n : one[i] = s[i]
  BY <1>1, <1>6, <1>7
<1>9. s2[n + 1] = r
  BY <1>5
<1>10. CASE times = 1
  <2>1. \A i \in 1..m : s2[i] = one[i]
    BY <1>5, <1>7, <1>8, <1>9
  <2>2. s2 \in [1..m -> FrameRecord] /\ one \in [1..m -> FrameRecord]
    BY <1>4, <1>5, <1>7, <1>8, <1>10
  <2>3. s2 = one
    BY <2>1, <2>2
  <2> QED
    BY <1>6, <1>10, <2>3
<1>11. CASE times = 2
  <2>1. PICK two : two = Append(one, r)
    OBVIOUS
  <2>2. PICK l \in Nat : l = m + 1
    OBVIOUS
  <2>3. two \in Seq(FrameRecord) /\ Len(two) = l /\ two[l] = r /\ \A i \in 1..m : two[i] = one[i]
    BY <1>8, <2>1, <2>2
  <2>4. s2[n + 2] = r
    BY <1>5, <1>11
  <2>5. s2[l] = r
    BY <1>7, <2>2, <2>4
  <2>6. ASSUME NEW i \in 1..l PROVE s2[i] = two[i]
    <3>1. CASE i \in 1..n
      <4>1. i \in 1..m
        BY <1>7, <3>1
      <4> QED
        BY <1>5, <1>8, <2>3, <3>1, <4>1
    <3>2. CASE i = m
      BY <1>7, <1>8, <1>9, <2>3, <3>2
    <3>3. CASE i = l
      BY <2>3, <2>5, <3>3
    <3> QED
      BY <1>7, <2>2, <3>1, <3>2, <3>3
  <2>7. s2 \in [1..l -> FrameRecord] /\ two \in [1..l -> FrameRecord]
    BY <1>4, <1>5, <1>7, <1>11, <2>2, <2>3
  <2>8. s2 = two
    BY <2>6, <2>7
  <2> QED
    BY <1>6, <1>11, <2>1, <2>8
<1> QED
  BY <1>10, <1>11

\* Bytes joined to bytes.
LEMMA BytesAssociate == \A x, y, z \in Seq(FrameByte) : (x \o y) \o z = x \o (y \o z)
BY ConcatAssociative

\* What was sent before is what it was.
SentOn(s, s2) ==
    /\ Len(s) <= Len(s2)
    /\ \A f \in 1..Len(s) : s2[f] = s[f]

\* The frames sent before stay the first ones.
LEMMA SentOneMore ==
    ASSUME NEW s \in Seq(FrameRecord), NEW r \in FrameRecord, NEW m \in Nat,
           \A f \in 1..Len(s) : s[f].len >= m, r.len >= m,
           NEW s2, s2 = Append(s, r)
    PROVE  /\ s2 \in Seq(FrameRecord) /\ SentOn(s, s2)
           /\ \A f \in 1..Len(s2) : s2[f].len >= m
<1>1. PICK n \in Nat : n = Len(s)
  OBVIOUS
<1>2. /\ s2 \in Seq(FrameRecord) /\ Len(s2) = n + 1 /\ s2[n + 1] = r
      /\ \A f \in 1..n : s2[f] = s[f]
  BY <1>1
<1>3. ASSUME NEW f \in 1..Len(s2) PROVE s2[f].len >= m
  <2>1. CASE f \in 1..n
    BY <1>1, <1>2, <2>1
  <2>2. CASE f = n + 1
    BY <1>2, <2>2
  <2> QED
    BY <1>2, <2>1, <2>2
<1> QED
  BY <1>1, <1>2, <1>3 DEF SentOn

\* What was delivered is not touched by what is sent.
LEMMA DeliveredStays ==
    ASSUME FrameTypes, DeliveredOK, SentOn(sent, sent'), sent' \in Seq(FrameRecord),
           UNCHANGED <<codec, delivered>>
    PROVE  DeliveredOK'
<1>1. PICK d \in Nat : d = Len(delivered)
  BY DEF FrameTypes
<1>2. PICK n \in Nat : n = Len(sent)
  BY DEF FrameTypes
<1>3. d <= n /\ \A f \in 1..d : sent[f].kind = "good" /\ delivered[f] = ContentOf(f, sent[f].len)
  BY <1>1, <1>2 DEF DeliveredOK
<1>4. n <= Len(sent') /\ \A f \in 1..n : sent'[f] = sent[f]
  BY <1>2 DEF SentOn
<1>5. Len(delivered') <= Len(sent')
  BY <1>1, <1>3, <1>4
<1>6. ASSUME NEW f \in 1..Len(delivered') PROVE (sent[f].kind = "good" /\ delivered[f] = ContentOf(f, sent[f].len))'
  <2>1. f \in 1..d /\ f \in 1..n
    BY <1>1, <1>3
  <2>2. sent'[f] = sent[f] /\ delivered'[f] = delivered[f]
    BY <1>4, <2>1
  <2> QED
    BY <1>3, <2>1, <2>2 DEF ContentOf
<1> QED
  BY <1>5, <1>6 DEF DeliveredOK

\* A frame is sent, once or twice.
LEMMA SendKeeps ==
    ASSUME FrameInv, NEW frame \in Frames, NEW times \in 1..2, SendFrame(frame, times)
    PROVE  FrameInv'
<1>1. FrameTypes /\ DeliveredOK /\ RestOK /\ NoneWaits
  BY DEF FrameInv
<1>2. /\ codec \in Codecs /\ sent \in Seq(FrameRecord) /\ stream \in Seq(FrameByte)
      /\ \A f \in 1..Len(sent) : sent[f].len >= MinMessageLen[codec]
      /\ BufferOK(input, FrameByte) /\ decoding \in BOOLEAN /\ open \in BOOLEAN
      /\ delivered \in Seq(Seq(FrameByte))
  BY <1>1 DEF FrameTypes
<1>3. frame \in FrameRecord /\ frame.len \in Nat /\ frame.len >= MinMessageLen[codec]
  BY <1>2, FrameSizes
<1>4. PICK n \in Nat : n = Len(sent)
  BY <1>2
<1>5. PICK f \in Nat : f = n + 1
  OBVIOUS
<1>6. PICK first : first = Framed(AppendBytes(NewBuffer, ContentOf(f, frame.len)), HeaderOf(f))
  OBVIOUS
<1>7. PICK fb : fb = Readable(first)
  OBVIOUS
<1>8. /\ fb \in Seq(FrameByte) /\ Whole(fb, f, HeaderLen[codec] + frame.len)
      /\ codec = "kabu" => Framed(first, HeaderOf(f)) = first
  BY <1>2, <1>3, <1>6, <1>7, PacketIsFrame
<1>9. PICK g \in Nat : g = f + 1
  OBVIOUS
<1>10. PICK fb2 : fb2 = [i \in DOMAIN fb |-> <<g, fb[i][2]>>]
  OBVIOUS
<1>32. HeaderLen[codec] + frame.len \in Nat
  BY <1>2, <1>3, CodecSizes
<1>11. PICK size \in Nat : size = HeaderLen[codec] + frame.len
  BY <1>32
<1>12. fb2 \in Seq(FrameByte) /\ Whole(fb2, g, size) /\ Whole(fb, f, size)
  BY <1>8, <1>10, <1>11, NamedAgain
<1>13. /\ sent' = sent \o [i \in 1..times |-> frame]
       /\ stream' = (stream \o fb) \o (IF times = 2 THEN fb2 ELSE <<>>)
       /\ UNCHANGED <<codec, input, decoding, open, delivered>>
       /\ times = 2 => codec = "kabu"
  <2>1. times = 2 => codec = "kabu"
    BY DEF SendFrame
  <2>2. f = Len(sent) + 1
    BY <1>4, <1>5
  <2>3. times = 2 => Readable(Framed(first, HeaderOf(f))) = fb
    BY <1>7, <1>8, <2>1
  <2> QED
    BY <1>6, <1>7, <1>9, <1>10, <2>1, <2>2, <2>3 DEF SendFrame
<1>14. sent' = IF times = 1 THEN Append(sent, frame) ELSE Append(Append(sent, frame), frame)
  <2>1. sent' = SentAgain(sent, frame, times)
    BY <1>13 DEF SentAgain
  <2> QED
    BY <1>2, <1>3, <2>1, SentTwice
<1>15. PICK s1 : s1 = Append(sent, frame)
  OBVIOUS
<1>16. PICK d \in Nat : d = Len(delivered)
  BY SMTT(30), <1>2
<1>17. d \in 0..n
  BY <1>1, <1>4, <1>16 DEF DeliveredOK
<1>18. PICK old : old = Readable(input)
  OBVIOUS
<1>19. old \in Seq(FrameByte) /\ old \o stream \in Seq(FrameByte)
  BY <1>1, <1>18, UnderWay
<1>20. PICK t : t = old \o stream
  OBVIOUS
<1>21. Chain(Lens(sent, codec), Len(sent), d, t)
  BY <1>1, <1>16, <1>18, <1>20 DEF RestOK
<1>22. PICK t1 : t1 = t \o fb
  OBVIOUS
<1>23. /\ s1 \in Seq(FrameRecord) /\ Len(s1) = n + 1
       /\ t1 \in Seq(FrameByte) /\ Chain(Lens(s1, codec), Len(s1), d, t1)
  <2>1. d \in 0..Len(sent) /\ f = Len(sent) + 1 /\ t \in Seq(FrameByte)
    BY <1>4, <1>5, <1>17, <1>19, <1>20
  <2>2. MaySend(codec, sent, d, t, frame, fb)
    BY <1>8, <1>21, <2>1 DEF MaySend
  <2>3. SentNow(codec, sent, d, s1, t1)
    BY <1>2, <1>3, <1>8, <1>15, <1>22, <2>1, <2>2, ChainSend
  <2> QED
    BY <1>4, <2>3 DEF SentNow
<1>24. PICK m \in Nat : m = MinMessageLen[codec]
  BY <1>2, CodecSizes
<1>25. SentOn(sent, s1) /\ \A k \in 1..Len(s1) : s1[k].len >= m
  BY <1>2, <1>3, <1>15, <1>24, SentOneMore
<1>26. t1 = old \o (stream \o fb) /\ stream \o fb \in Seq(FrameByte)
  BY <1>2, <1>8, <1>19, <1>20, <1>22, BytesAssociate, ConcatProperties
<1>27. /\ sent' \in Seq(FrameRecord) /\ SentOn(sent, sent') /\ \A k \in 1..Len(sent') : sent'[k].len >= m
       /\ stream' \in Seq(FrameByte) /\ Chain(Lens(sent', codec), Len(sent'), d, old \o stream')
  <2>1. CASE times = 1
    <3>1. sent' = s1
      BY <1>14, <1>15, <2>1
    <3>2. stream' = stream \o fb
      <4>1. stream' = (stream \o fb) \o <<>>
        BY <1>13, <2>1
      <4> QED
        BY <1>26, <4>1, ConcatEmptySeq
    <3> QED
      BY <1>23, <1>25, <1>26, <3>1, <3>2
  <2>2. CASE times = 2
    <3>1. PICK s2 : s2 = Append(s1, frame)
      OBVIOUS
    <3>2. sent' = s2
      BY <1>14, <1>15, <2>2, <3>1
    <3>3. PICK t2 : t2 = t1 \o fb2
      OBVIOUS
    <3>4. d \in 0..Len(s1) /\ g = Len(s1) + 1
      BY <1>5, <1>9, <1>17, <1>23
    <3>5. /\ s2 \in Seq(FrameRecord)
          /\ t2 \in Seq(FrameByte) /\ Chain(Lens(s2, codec), Len(s2), d, t2)
      <4>1. MaySend(codec, s1, d, t1, frame, fb2)
        BY <1>11, <1>12, <1>23, <3>4 DEF MaySend
      <4>2. SentNow(codec, s1, d, s2, t2)
        BY <1>2, <1>3, <1>12, <1>23, <3>1, <3>3, <4>1, ChainSend
      <4> QED
        BY <4>2 DEF SentNow
    <3>6. SentOn(s1, s2) /\ \A k \in 1..Len(s2) : s2[k].len >= m
      BY <1>3, <1>23, <1>24, <1>25, <3>1, SentOneMore
    <3>7. SentOn(sent, s2)
      <4>1. Len(sent) <= Len(s1) /\ \A k \in 1..Len(sent) : s1[k] = sent[k]
        BY <1>25 DEF SentOn
      <4>2. Len(s1) <= Len(s2) /\ \A k \in 1..Len(s1) : s2[k] = s1[k]
        BY <3>6 DEF SentOn
      <4>3. Len(sent) \in Nat /\ Len(s1) \in Nat /\ Len(s2) \in Nat
        BY <1>2, <1>23, <3>5
      <4> QED
        BY <4>1, <4>2, <4>3 DEF SentOn
    <3>8. stream' = (stream \o fb) \o fb2
      BY <1>13, <2>2
    <3>9. stream' \in Seq(FrameByte)
      BY <1>12, <1>26, <3>8, ConcatProperties
    <3>10. t2 = old \o stream'
      BY <1>12, <1>19, <1>26, <3>3, <3>8, BytesAssociate
    <3> QED
      BY <3>2, <3>5, <3>6, <3>7, <3>9, <3>10
  <2> QED
    BY <2>1, <2>2
<1>28. FrameTypes'
  BY <1>2, <1>13, <1>24, <1>27 DEF FrameTypes
<1>29. DeliveredOK'
  BY <1>1, <1>13, <1>27, DeliveredStays
<1>30. RestOK'
  BY <1>13, <1>16, <1>18, <1>27 DEF RestOK
<1>31. NoneWaits'
  <2>1. SUFFICES ASSUME ~decoding, open, d < Len(sent')
                 PROVE  ReadableBytes(input) < HeaderLen[codec] + sent'[d + 1].len
    BY <1>13, <1>16 DEF NoneWaits, ReadableBytes
  <2>2. CASE d < n
    <3>1. PICK k \in 1..n : k = d + 1
      BY <1>17, <2>2
    <3>2. sent'[k] = sent[k]
      BY <1>4, <1>27, <3>1 DEF SentOn
    <3>3. ReadableBytes(input) < HeaderLen[codec] + sent[k].len
      BY <1>1, <1>4, <1>16, <2>1, <2>2, <3>1 DEF NoneWaits
    <3> QED
      BY <3>1, <3>2, <3>3
  <2>3. CASE d = n
    <3>1. old \o stream = <<>>
      BY <1>4, <1>20, <1>21, <2>3 DEF Chain
    <3>2. Len(old) = 0
      <4>1. Len(old \o stream) = Len(old) + Len(stream) /\ Len(old) \in Nat /\ Len(stream) \in Nat
        BY <1>2, <1>19, ConcatProperties
      <4>2. Len(old \o stream) = 0
        BY <3>1
      <4> QED
        BY <4>1, <4>2
    <3>3. ReadableBytes(input) = 0
      BY <1>1, <1>18, <3>2, UnderWay
    <3>4. PICK k \in 1..Len(sent') : k = d + 1
      BY <1>27, <2>1
    <3>5. sent'[k].len >= m
      BY <1>27, <3>4
    <3>6. sent'[k] \in FrameRecord
      BY <1>27, <3>4
    <3>7. sent'[k].len \in Nat
      BY <3>6 DEF FrameRecord
    <3>8. HeaderLen[codec] \in Nat \ {0}
      BY <1>2, CodecSizes
    <3> QED
      BY <3>3, <3>4, <3>7, <3>8
  <2> QED
    BY <1>17, <2>2, <2>3
<1> QED
  BY <1>28, <1>29, <1>30, <1>31 DEF FrameInv

\* A piece of the stream comes into the buffer.
LEMMA ReceiveKeeps ==
    ASSUME FrameInv, NEW n \in 1..Len(stream), Receive(n)
    PROVE  FrameInv'
<1>1. FrameTypes /\ DeliveredOK /\ RestOK /\ NoneWaits
  BY DEF FrameInv
<1>2. /\ codec \in Codecs /\ sent \in Seq(FrameRecord) /\ stream \in Seq(FrameByte)
      /\ \A f \in 1..Len(sent) : sent[f].len >= MinMessageLen[codec]
      /\ BufferOK(input, FrameByte) /\ decoding \in BOOLEAN /\ open \in BOOLEAN
      /\ delivered \in Seq(Seq(FrameByte))
  BY <1>1 DEF FrameTypes
<1>3. PICK p : p = FirstOf(stream, n)
  OBVIOUS
<1>4. PICK q : q = Behind(stream, n)
  OBVIOUS
<1>5. n \in Nat /\ n <= Len(stream)
  BY <1>2
<1>6. p \in Seq(FrameByte) /\ q \in Seq(FrameByte) /\ p \o q = stream
  <2>1. p \in Seq(FrameByte) /\ q \in Seq(FrameByte) /\ Parts(stream, n, p, q)
    BY <1>2, <1>3, <1>4, <1>5, SplitIs
  <2> QED
    BY <2>1 DEF Parts
<1>7. /\ input' = ReadFd(input, p) /\ stream' = q /\ decoding' = TRUE
      /\ UNCHANGED <<codec, sent, open, delivered>>
  BY <1>3, <1>4 DEF Receive, FirstOf, Behind
<1>8. PICK old : old = Readable(input)
  OBVIOUS
<1>9. old \in Seq(FrameByte) /\ Holds(input, old)
  BY <1>1, <1>8, UnderWay DEF Holds
<1>10. NoByte \in FrameByte
  BY DEF NoByte, FrameByte
<1>11. BufferOK(input', FrameByte) /\ Holds(input', old \o p)
  BY <1>2, <1>6, <1>7, <1>9, <1>10, ReadFdKeeps
<1>12. Readable(input') \o stream' = old \o stream
  <2>1. (old \o p) \o q = old \o (p \o q)
    BY <1>6, <1>9, BytesAssociate
  <2> QED
    BY <1>6, <1>7, <1>11, <2>1 DEF Holds
<1>13. FrameTypes'
  BY <1>2, <1>6, <1>7, <1>11 DEF FrameTypes
<1>14. DeliveredOK'
  BY <1>1, <1>7 DEF DeliveredOK, ContentOf
<1>15. RestOK'
  BY <1>1, <1>7, <1>8, <1>12 DEF RestOK
<1>16. NoneWaits'
  BY <1>7 DEF NoneWaits
<1> QED
  BY <1>13, <1>14, <1>15, <1>16 DEF FrameInv

\* The first byte that can be read is that of the frame behind those delivered.
LEMMA HeadIs ==
    ASSUME FrameInv, Enough, NEW d, d = Len(delivered), NEW f, f = d + 1
    PROVE  /\ d \in 0..Len(sent) /\ d # Len(sent) /\ f \in 1..Len(sent)
           /\ Head1 = sent[f]
<1>1. FrameTypes /\ DeliveredOK /\ RestOK
  BY DEF FrameInv
<1>2. d \in Nat /\ Len(sent) \in Nat /\ d <= Len(sent)
  BY <1>1 DEF FrameTypes, DeliveredOK
<1>3. PICK old : old = Readable(input)
  OBVIOUS
<1>4. old \in Seq(FrameByte) /\ Len(old) = ReadableBytes(input) /\ stream \in Seq(FrameByte)
  BY <1>1, <1>3, UnderWay DEF FrameTypes
<1>5. codec \in Codecs
  BY <1>1 DEF FrameTypes
<1>6. Len(old) > 0
  BY <1>4, <1>5, CodecSizes DEF Enough
<1>7. PICK t : t = old \o stream
  OBVIOUS
<1>8. t \in Seq(FrameByte) /\ Together(t, old, stream)
  BY <1>4, <1>7, JoinedIs
<1>9. Len(t) > 0 /\ t[1] = old[1]
  <2>1. Len(old) \in Nat /\ Len(stream) \in Nat /\ 1 \in 1..Len(old)
    BY <1>4, <1>6
  <2> QED
    BY <1>6, <1>8, <2>1 DEF Together
<1>10. Chain(Lens(sent, codec), Len(sent), d, t)
  BY <1>1, <1>3, <1>7 DEF RestOK
<1>11. d # Len(sent)
  <2>1. SUFFICES ASSUME d = Len(sent) PROVE FALSE
    OBVIOUS
  <2>2. t = <<>>
    BY <1>10, <2>1 DEF Chain
  <2> QED
    BY <1>9, <2>2
<1>12. t[1] = <<f, 1>>
  BY <1>10, <1>11 DEF Chain
<1>13. Head(old) = old[1]
  BY <1>4, <1>6
<1> QED
  BY <1>2, <1>3, <1>9, <1>11, <1>12, <1>13 DEF Head1

\* Sequences joined to sequences.
LEMMA SeqAssociates ==
    ASSUME NEW S, NEW x \in Seq(S), NEW y \in Seq(S), NEW z \in Seq(S), NEW u, u = x \o y, NEW v, v = y \o z
    PROVE  u \o z = x \o v
<1>1. (x \o y) \o z = x \o (y \o z)
  BY ConcatAssociative
<1> QED
  BY <1>1

\* Taking bytes from the one leaves the other as it is.
LEMMA BehindJoined ==
    ASSUME NEW S, NEW a \in Seq(S), NEW b \in Seq(S), NEW m \in Nat, m <= Len(a)
    PROVE  Behind(a \o b, m) = Behind(a, m) \o b
<1>1. PICK p : p = FirstOf(a, m)
  OBVIOUS
<1>2. PICK q : q = Behind(a, m)
  OBVIOUS
<1>3. p \in Seq(S) /\ q \in Seq(S) /\ Parts(a, m, p, q)
  BY <1>1, <1>2, SplitIs
<1>4. p \o q = a /\ Len(p) = m
  BY <1>3 DEF Parts
<1>5. PICK z : z = q \o b
  OBVIOUS
<1>6. z \in Seq(S)
  BY <1>3, <1>5, ConcatProperties
<1>7. PICK t : t = a \o b
  OBVIOUS
<1>8. t = p \o z
  <2>1. a = p \o q /\ b \in Seq(S)
    BY <1>4
  <2>2. a \o b = p \o z
    BY <1>3, <1>5, <2>1, SeqAssociates
  <2> QED
    BY <1>7, <2>2
<1>9. t \in Seq(S) /\ Together(t, p, z)
  BY <1>3, <1>6, <1>8, JoinedIs
<1>10. PICK l \in Nat : l = Len(z)
  BY <1>6
<1>11. Len(t) = m + l /\ \A i \in 1..l : t[m + i] = z[i]
  BY <1>4, <1>9, <1>10 DEF Together
<1>12. PICK r : r = Behind(t, m)
  OBVIOUS
<1>13. PICK o : o = FirstOf(t, m)
  OBVIOUS
<1>14. r \in Seq(S) /\ Parts(t, m, o, r)
  <2>1. m <= Len(t)
    BY <1>11
  <2> QED
    BY <1>9, <1>12, <1>13, <2>1, SplitIs
<1>15. Len(r) = l /\ \A i \in 1..l : r[i] = t[m + i]
  <2>1. Len(t) - m = l
    BY <1>11
  <2> QED
    BY <1>14, <2>1 DEF Parts
<1>16. \A i \in 1..l : r[i] = z[i]
  BY <1>11, <1>15
<1>17. r \in [1..l -> S] /\ z \in [1..l -> S]
  BY <1>6, <1>10, <1>14, <1>15
<1>18. r = z
  BY <1>16, <1>17
<1> QED
  BY <1>2, <1>5, <1>7, <1>12, <1>18

\* A good frame is taken out and its content delivered.
LEMMA DecodeOneKeeps ==
    ASSUME FrameInv, DecodeOne
    PROVE  FrameInv'
<1>1. FrameTypes /\ DeliveredOK /\ RestOK /\ NoneWaits
  BY DEF FrameInv
<1>2. /\ codec \in Codecs /\ sent \in Seq(FrameRecord) /\ stream \in Seq(FrameByte)
      /\ \A f \in 1..Len(sent) : sent[f].len >= MinMessageLen[codec]
      /\ BufferOK(input, FrameByte) /\ decoding \in BOOLEAN /\ open \in BOOLEAN
      /\ delivered \in Seq(Seq(FrameByte))
  BY <1>1 DEF FrameTypes
<1>3. decoding /\ Enough /\ ~Refused /\ Complete
  BY DEF DecodeOne
<1>4. PICK d \in Nat : d = Len(delivered)
  BY <1>2
<1>5. PICK f \in Nat : f = d + 1
  OBVIOUS
<1>6. d \in 0..Len(sent) /\ d # Len(sent) /\ f \in 1..Len(sent) /\ Head1 = sent[f]
  BY <1>3, <1>4, <1>5, HeadIs
<1>7. sent[f] \in FrameRecord
  BY <1>2, <1>6
<1>8. PICK size \in Nat : size = sent[f].len
  BY <1>7 DEF FrameRecord
<1>9. LengthRead = size
  BY <1>6, <1>8 DEF LengthRead
<1>10. PICK h \in Nat \ {0} : h = HeaderLen[codec]
  BY <1>2, CodecSizes
<1>11. PICK m \in Nat : m = h + size
  OBVIOUS
<1>12. PICK old : old = Readable(input)
  OBVIOUS
<1>13. /\ old \in Seq(FrameByte) /\ Len(old) = ReadableBytes(input) /\ old \o stream \in Seq(FrameByte)
       /\ Holds(input, old)
  BY <1>1, <1>12, UnderWay DEF Holds
<1>14. m <= Len(old) /\ Len(old) \in Nat
  BY <1>3, <1>9, <1>10, <1>11, <1>13 DEF Complete
<1>15. PICK t : t = old \o stream
  OBVIOUS
<1>34. sent \in Seq(FrameRecord)
  BY <1>2
<1>16. PICK n \in Nat : n = Len(sent)
  BY <1>34
<1>17. PICK len : len = Lens(sent, codec)
  OBVIOUS
<1>18. len \in [1..n -> Nat \ {0}] /\ len[f] = m
  <2>1. LensOf(len, sent, codec)
    BY <1>2, <1>17, LensAre
  <2> QED
    BY <1>6, <1>8, <1>10, <1>11, <1>16, <2>1 DEF LensOf
<1>19. Chain(len, n, d, t) /\ t \in Seq(FrameByte) /\ d \in 0..n /\ d # n
  BY <1>1, <1>4, <1>6, <1>12, <1>13, <1>15, <1>16, <1>17 DEF RestOK
<1>20. \A k \in 1..Len(t) : k <= m => t[k] = <<f, k>>
  BY SMTT(30), <1>5, <1>18, <1>19, ChainHead
<1>21. PICK rest : rest = Behind(t, m)
  OBVIOUS
<1>22. rest \in Seq(FrameByte) /\ Chain(len, n, f, rest)
  BY <1>5, <1>18, <1>19, <1>21, ChainShorter
<1>23. rest = Behind(old, m) \o stream
  BY <1>2, <1>13, <1>14, <1>15, <1>21, BehindJoined
<1>24. PICK content : content = SubSeq(old, h + 1, h + size)
  OBVIOUS
<1>25. content \in Seq(FrameByte) /\ content = ContentOf(f, size)
  <2>1. PICK x \in Int : x = h + 1
    OBVIOUS
  <2>2. content = SubSeq(old, x, m) /\ x >= 1 /\ m <= Len(old) /\ m - x + 1 = size
    BY <1>11, <1>14, <1>24, <2>1
  <2>3. \A i \in x..m : old[i] \in FrameByte
    BY <1>13, <1>14, <2>2
  <2>4. content \in Seq(FrameByte) /\ Len(content) = (IF x <= m THEN m - x + 1 ELSE 0)
    BY <2>2, <2>3, SubSeqProperties
  <2>5. \A i \in 1..(m - x + 1) : SubSeq(old, x, m)[i] = old[x + i - 1]
    BY <2>2, <2>3, SubSeqProperties
  <2>6. Len(content) = size
    BY <1>11, <2>1, <2>2, <2>4
  <2>7. ASSUME NEW i \in 1..size PROVE content[i] = <<f, h + i>>
    <3>1. PICK k \in Nat : k = h + i
      OBVIOUS
    <3>2. k \in 1..Len(old) /\ k <= m /\ x + i - 1 = k
      BY <1>11, <1>14, <2>1, <3>1
    <3>3. content[i] = old[k]
      BY <2>2, <2>5, <3>2
    <3>4. Together(t, old, stream)
      BY <1>2, <1>13, <1>15, JoinedIs
    <3>5. t[k] = old[k] /\ k \in 1..Len(t)
      <4>1. Len(stream) \in Nat
        BY <1>2
      <4> QED
        BY <1>14, <3>2, <3>4, <4>1 DEF Together
    <3> QED
      BY <1>20, <3>1, <3>2, <3>3, <3>5
  <2>8. content = [i \in 1..size |-> <<f, h + i>>]
    <3>1. content \in [1..size -> FrameByte]
      BY <2>4, <2>6
    <3>2. content = [i \in 1..size |-> content[i]]
      BY <3>1
    <3> QED
      BY <2>7, <3>2
  <2> QED
    BY <1>10, <2>4, <2>8 DEF ContentOf
<1>26. /\ delivered' = Append(delivered, content) /\ input' = Retrieve(input, m)
       /\ UNCHANGED <<codec, sent, stream, decoding, open>>
  BY <1>9, <1>10, <1>11, <1>12, <1>24 DEF DecodeOne
<1>27. BufferOK(input', FrameByte) /\ Holds(input', Behind(old, m))
  BY <1>2, <1>13, <1>14, <1>26, RetrieveKeeps
<1>28. /\ delivered' \in Seq(Seq(FrameByte)) /\ Len(delivered') = f
       /\ delivered'[f] = content /\ \A g \in 1..d : delivered'[g] = delivered[g]
  BY <1>2, <1>4, <1>5, <1>25, <1>26
<1>29. FrameTypes'
  BY <1>2, <1>26, <1>27, <1>28 DEF FrameTypes
<1>30. sent[f].kind = "good"
  <2>1. sent[f].kind \in {"good", "bad"}
    BY <1>7 DEF FrameRecord
  <2>2. codec = "kabu" \/ codec = "db"
    BY <1>2, CodecSizes
  <2>3. sent[f].kind # "bad"
    BY <1>3, <1>6, <2>2 DEF Refused
  <2> QED
    BY <2>1, <2>3
<1>31. DeliveredOK'
  <2>1. f <= Len(sent)
    BY <1>6
  <2>2. ASSUME NEW g \in 1..f
        PROVE  sent[g].kind = "good" /\ delivered'[g] = ContentOf(g, sent[g].len)
    <3>1. CASE g = f
      BY <1>8, <1>25, <1>28, <1>30, <3>1
    <3>2. CASE g # f
      <4>1. g \in 1..d
        BY <1>5, <3>2
      <4> QED
        BY <1>1, <1>4, <1>28, <4>1 DEF DeliveredOK
    <3> QED
      BY <3>1, <3>2
  <2> QED
    BY <1>26, <1>28, <2>1, <2>2 DEF DeliveredOK, ContentOf
<1>32. RestOK'
  BY <1>16, <1>17, <1>22, <1>23, <1>26, <1>27, <1>28 DEF RestOK, Holds
<1>33. NoneWaits'
  BY <1>3, <1>26 DEF NoneWaits
<1> QED
  BY <1>29, <1>31, <1>32, <1>33 DEF FrameInv

\* A bad frame stays where it is.
LEMMA RefusedKeeps ==
    ASSUME FrameInv, DecodeRefused
    PROVE  FrameInv'
<1>1. FrameTypes /\ DeliveredOK /\ RestOK /\ NoneWaits
  BY DEF FrameInv
<1>2. open' = FALSE /\ decoding' \in BOOLEAN /\ UNCHANGED <<codec, sent, stream, input, delivered>>
  BY DEF DecodeRefused
<1>3. FrameTypes'
  BY <1>1, <1>2 DEF FrameTypes
<1>4. DeliveredOK' /\ RestOK'
  BY <1>1, <1>2 DEF DeliveredOK, RestOK, ContentOf
<1>5. NoneWaits'
  BY <1>2 DEF NoneWaits
<1> QED
  BY <1>3, <1>4, <1>5 DEF FrameInv

\* onMessage returns: no whole frame is there.
LEMMA LaterKeeps ==
    ASSUME FrameInv, DecodeLater
    PROVE  FrameInv'
<1>1. FrameTypes /\ DeliveredOK /\ RestOK /\ NoneWaits
  BY DEF FrameInv
<1>2. /\ decoding' = FALSE /\ UNCHANGED <<codec, sent, stream, input, open, delivered>>
      /\ Enough => ~Complete
  BY DEF DecodeLater
<1>3. FrameTypes'
  BY <1>1, <1>2 DEF FrameTypes
<1>4. DeliveredOK' /\ RestOK'
  BY <1>1, <1>2 DEF DeliveredOK, RestOK, ContentOf
<1>5. ASSUME Len(delivered) < Len(sent)
      PROVE  ReadableBytes(input) < HeaderLen[codec] + sent[Len(delivered) + 1].len
  <2>1. PICK d \in Nat : d = Len(delivered)
    BY <1>1 DEF FrameTypes
  <2>2. PICK f \in Nat : f = d + 1
    OBVIOUS
  <2>3. PICK h \in Nat \ {0} : h = HeaderLen[codec]
    BY <1>1, CodecSizes DEF FrameTypes
  <2>4. PICK m \in Nat : m = MinMessageLen[codec]
    BY <1>1, CodecSizes DEF FrameTypes
  <2>5. f \in 1..Len(sent)
    BY <1>1, <1>5, <2>1, <2>2 DEF FrameTypes
  <2>6. sent[f] \in FrameRecord /\ sent[f].len >= m
    BY <1>1, <2>4, <2>5 DEF FrameTypes
  <2>7. PICK size \in Nat : size = sent[f].len
    BY <2>6 DEF FrameRecord
  <2>8. PICK r \in Nat : r = ReadableBytes(input)
    BY <1>1, UnderWay
  <2>9. r < h + size
    <3>1. CASE Enough
      <4>1. Head1 = sent[f]
        BY <2>1, <2>2, <3>1, HeadIs
      <4> QED
        BY <1>2, <2>3, <2>7, <2>8, <3>1, <4>1 DEF Complete, LengthRead
    <3>2. CASE ~Enough
      <4>1. r < m + h /\ size >= m
        BY <2>3, <2>4, <2>6, <2>7, <2>8, <3>2 DEF Enough
      <4> QED
        BY <4>1
    <3> QED
      BY <3>1, <3>2
  <2> QED
    BY <2>1, <2>2, <2>3, <2>7, <2>8, <2>9
<1>6. NoneWaits'
  BY <1>2, <1>5 DEF NoneWaits, ReadableBytes
<1> QED
  BY <1>3, <1>4, <1>6 DEF FrameInv

\* Every step keeps the invariant.
LEMMA FrameStep == FrameInv /\ [FramingNext]_framingVars => FrameInv'
<1>1. SUFFICES ASSUME FrameInv, [FramingNext]_framingVars PROVE FrameInv'
  OBVIOUS
<1>2. CASE UNCHANGED framingVars
  BY <1>1, <1>2 DEF framingVars, FrameInv, FrameTypes, DeliveredOK, RestOK, NoneWaits, ReadableBytes, ContentOf
<1>3. CASE \E frame \in Frames, times \in 1..2 : SendFrame(frame, times)
  BY <1>1, <1>3, SendKeeps
<1>4. CASE \E n \in 1..Len(stream) : Receive(n)
  BY <1>1, <1>4, ReceiveKeeps
<1>5. CASE Decode
  BY <1>1, <1>5, DecodeOneKeeps, RefusedKeeps, LaterKeeps DEF Decode
<1> QED
  BY <1>1, <1>2, <1>3, <1>4, <1>5 DEF FramingNext

\* Frames arrive as they were sent, whatever pieces the stream comes in, for every codec,
\* size of the buffer and number of frames: FramesIntact holds in every behaviour of Framing.
THEOREM FramesArrive == FramingSpec => []FramesIntact
<1>1. FrameInv => FramesIntact
  BY FramesAreIntact
<1> QED
  BY FramesStart, FrameStep, <1>1, PTL DEF FramingSpec

-----------------------------------------------------------------------------
(* Numbers in a buffer                                                      *)

IsInt16(x) == x \in (-MaxInt16 - 1)..MaxInt16
IsInt32(x) == x \in (-MaxInt32 - 1)..MaxInt32

\* The first bytes are those of the number x.
Holds16(bytes, x) == \A k \in 1..2 : bytes[k] = BytesOf(x, 2)[k]
Holds32(bytes, x) == \A k \in 1..4 : bytes[k] = BytesOf(x, 4)[k]

\* A function on 1..n is a sequence.
LEMMA FunctionSeq ==
    ASSUME NEW S, NEW n \in Nat, NEW b \in [1..n -> S]
    PROVE  b \in Seq(S) /\ Len(b) = n
  OBVIOUS

\* The two low bytes of x.
LEMMA Bytes16 ==
    ASSUME NEW x \in Int
    PROVE  /\ BytesOf(x, 2) \in Seq(Byte) /\ Len(BytesOf(x, 2)) = 2
           /\ BytesOf(x, 2)[1] = x % 256 /\ BytesOf(x, 2)[2] = (x \div 256) % 256
<1>1. PICK b : b = BytesOf(x, 2)
  BY SMT
<1>2. b = [i \in 1..2 |-> (x \div Pow256[i]) % 256]
  BY SMT, <1>1 DEF BytesOf
<1>3. Pow256[1] = 1 /\ Pow256[2] = 256
  BY SMT DEF Pow256
<1>4. x \div 1 = x
  BY SMT
<1>5. b[1] = x % 256 /\ b[2] = (x \div 256) % 256
  BY SMT, <1>2, <1>3, <1>4
<1>6. x % 256 \in Byte /\ (x \div 256) % 256 \in Byte
  BY SMT DEF Byte
<1>7. \A i \in 1..2 : b[i] \in Byte
  BY SMT, <1>5, <1>6
<1>8. b \in [1..2 -> Byte]
  BY SMT, <1>2, <1>7
<1>9. b \in Seq(Byte) /\ Len(b) = 2
  BY <1>8, FunctionSeq
<1> QED
  BY SMT, <1>1, <1>5, <1>9

\* e is the four low bytes of x.
LowBytes(x, e) ==
    /\ e \in Seq(Byte) /\ Len(e) = 4
    /\ e[1] = x % 256 /\ e[2] = (x \div 256) % 256
    /\ e[3] = (x \div 65536) % 256 /\ e[4] = (x \div 16777216) % 256

\* The four low bytes of x.
LEMMA Bytes32 ==
    ASSUME NEW x \in Int
    PROVE  LowBytes(x, BytesOf(x, 4))
<1>1. PICK b : b = BytesOf(x, 4)
  BY SMT
<1>2. b = [i \in 1..4 |-> (x \div Pow256[i]) % 256]
  BY SMT, <1>1 DEF BytesOf
<1>3. Pow256[1] = 1 /\ Pow256[2] = 256 /\ Pow256[3] = 65536 /\ Pow256[4] = 16777216
  BY SMT DEF Pow256
<1>4. x \div 1 = x
  BY SMT
<1>5. /\ b[1] = x % 256 /\ b[2] = (x \div 256) % 256
      /\ b[3] = (x \div 65536) % 256 /\ b[4] = (x \div 16777216) % 256
  BY SMT, <1>2, <1>3, <1>4
<1>6. /\ x % 256 \in Byte /\ (x \div 256) % 256 \in Byte
      /\ (x \div 65536) % 256 \in Byte /\ (x \div 16777216) % 256 \in Byte
  BY SMT DEF Byte
<1>7. \A i \in 1..4 : b[i] \in Byte
  BY SMT, <1>5, <1>6
<1>8. b \in [1..4 -> Byte]
  BY SMT, <1>2, <1>7
<1>9. b \in Seq(Byte) /\ Len(b) = 4
  BY <1>8, FunctionSeq
<1> QED
  BY SMT, <1>1, <1>5, <1>9 DEF LowBytes

\* A number between the least and the greatest of a width.
LEMMA Between ==
    ASSUME NEW x, NEW a, NEW b \in Int, a = 0 - b - 1, x \in a..b
    PROVE  x \in Int /\ a <= x /\ x <= b /\ a \in Int
  OBVIOUS

\* What was put as an int16 is got as it was put.
LEMMA Number16 ==
    ASSUME NEW x, IsInt16(x), NEW S, NEW bytes \in Seq(S), Len(bytes) = 2, Holds16(bytes, x)
    PROVE  AsNumber(bytes) = x
<1>1. x \in Int /\ -32768 <= x /\ x <= 32767
  <2>1. PICK b : b = MaxInt16
    OBVIOUS
  <2>2. PICK a : a = -b - 1
    OBVIOUS
  <2>3. x \in a..b
    BY <2>1, <2>2 DEF IsInt16
  <2>4. b = 32767
    BY SMT, <2>1 DEF MaxInt16
  <2>5. b \in Int
    BY SMT, <2>4
  <2>6. a = 0 - b - 1
    BY SMT, <2>2, <2>5
  <2>7. x \in Int /\ a <= x /\ x <= b /\ a \in Int
    BY <2>3, <2>5, <2>6, Between
  <2> QED
    BY SMT, <2>4, <2>6, <2>7
<1>2. PICK a \in Int : a = x % 256
  BY SMT, <1>1
<1>3. PICK b \in Int : b = (x \div 256) % 256
  BY SMT, <1>1
<1>4. bytes[1] = a /\ bytes[2] = b
  BY SMT, <1>1, <1>2, <1>3, Bytes16 DEF Holds16
<1>5. PICK top \in Int : top = IF b >= 128 THEN b - 256 ELSE b
  BY SMT
<1>6. AsNumber(bytes) = a + 256 * top
  BY SMT, <1>4, <1>5 DEF AsNumber
<1>7. x = a + 256 * top
  BY SMT, <1>1, <1>2, <1>3, <1>5
<1> QED
  BY SMT, <1>6, <1>7

\* And an int32.
LEMMA Number32 ==
    ASSUME NEW x, IsInt32(x), NEW S, NEW bytes \in Seq(S), Len(bytes) = 4, Holds32(bytes, x)
    PROVE  AsNumber(bytes) = x
<1>1. x \in Int /\ -2147483648 <= x /\ x <= 2147483647
  <2>1. PICK b : b = MaxInt32
    OBVIOUS
  <2>2. PICK a : a = -b - 1
    OBVIOUS
  <2>3. x \in a..b
    BY <2>1, <2>2 DEF IsInt32
  <2>4. b = 2147483647
    BY SMT, <2>1 DEF MaxInt32
  <2>5. b \in Int
    BY SMT, <2>4
  <2>6. a = 0 - b - 1
    BY SMT, <2>2, <2>5
  <2>7. x \in Int /\ a <= x /\ x <= b /\ a \in Int
    BY <2>3, <2>5, <2>6, Between
  <2> QED
    BY SMT, <2>4, <2>6, <2>7
<1>2. PICK a \in Int : a = x % 256
  BY SMT, <1>1
<1>3. PICK b \in Int : b = (x \div 256) % 256
  BY SMT, <1>1
<1>4. PICK c \in Int : c = (x \div 65536) % 256
  BY SMT, <1>1
<1>5. PICK d \in Int : d = (x \div 16777216) % 256
  BY SMT, <1>1
<1>6. bytes[1] = a /\ bytes[2] = b /\ bytes[3] = c /\ bytes[4] = d
  <2>1. PICK e : e = BytesOf(x, 4)
    OBVIOUS
  <2>2. e[1] = a /\ e[2] = b /\ e[3] = c /\ e[4] = d
    <3>1. x \in Int
      BY <1>1
    <3>2. /\ e[1] = x % 256 /\ e[2] = (x \div 256) % 256
          /\ e[3] = (x \div 65536) % 256 /\ e[4] = (x \div 16777216) % 256
      <4>1. LowBytes(x, e)
        BY <2>1, <3>1, Bytes32
      <4> QED
        BY SMT, <4>1 DEF LowBytes
    <3> QED
      BY SMT, <1>2, <1>3, <1>4, <1>5, <3>2
  <2>3. \A k \in 1..4 : bytes[k] = e[k]
    BY <2>1 DEF Holds32
  <2> QED
    BY SMT, <2>2, <2>3
<1>7. PICK top \in Int : top = IF d >= 128 THEN d - 256 ELSE d
  BY SMT
<1>8. AsNumber(bytes) = a + 256 * b + 65536 * c + 16777216 * top
  BY SMT, <1>6, <1>7 DEF AsNumber
<1>9. x = a + 256 * b + 65536 * c + 16777216 * top
  BY SMT, <1>1, <1>2, <1>3, <1>4, <1>5, <1>7
<1> QED
  BY SMT, <1>8, <1>9

\* A size that an int16 counts is the one it counts.
LEMMA SizeAsInt16 ==
    ASSUME NEW n \in Nat
    PROVE  AsInt16(n) \in Int /\ AsInt16(n) <= n /\ (n <= MaxInt16 => AsInt16(n) = n)
<1>1. PICK low \in Int : low = n % 65536
  BY SMT
<1>2. low <= n /\ low >= 0 /\ (n <= 32767 => low = n)
  BY SMT, <1>1
<1>3. AsInt16(n) = IF low > 32767 THEN low - 65536 ELSE low
  BY SMT, <1>1 DEF AsInt16, MaxInt16
<1> QED
  BY SMT, <1>2, <1>3 DEF MaxInt16

-----------------------------------------------------------------------------
(* What a sequence that was put together is taken apart into                *)

\* s is e, n long, and r behind it.
SplitAs(s, n, e, r) == FirstOf(s, n) = e /\ Behind(s, n) = r

\* Taking the first Len(e) of e and r gives e and leaves r.
LEMMA TakenApart ==
    ASSUME NEW S, NEW e \in Seq(S), NEW r \in Seq(S), NEW s, s = e \o r, NEW n, n = Len(e)
    PROVE  SplitAs(s, n, e, r)
<1>1. s \in Seq(S) /\ Together(s, e, r)
  BY JoinedIs
<1>2. PICK m \in Nat : m = Len(r)
  OBVIOUS
<1>3. n \in Nat /\ Len(s) = n + m
  BY <1>1, <1>2 DEF Together
<1>4. PICK p : p = FirstOf(s, n)
  OBVIOUS
<1>5. PICK q : q = Behind(s, n)
  OBVIOUS
<1>6. p \in Seq(S) /\ q \in Seq(S) /\ Parts(s, n, p, q)
  <2>1. n \in Nat /\ n <= Len(s) /\ s \in Seq(S)
    BY <1>1, <1>3
  <2> QED
    BY <1>4, <1>5, <2>1, SplitIs
<1>7. Len(p) = n /\ Len(q) = m /\ (\A i \in 1..n : p[i] = s[i]) /\ \A i \in 1..m : q[i] = s[n + i]
  <2>1. Len(s) - n = m
    BY <1>3
  <2> QED
    BY <1>6, <2>1 DEF Parts
<1>8. (\A i \in 1..n : s[i] = e[i]) /\ \A i \in 1..m : s[n + i] = r[i]
  BY <1>1, <1>2 DEF Together
<1>9. p = e
  <2>1. \A i \in 1..n : p[i] = e[i]
    BY <1>7, <1>8
  <2>2. p \in [1..n -> S] /\ e \in [1..n -> S]
    BY <1>3, <1>6, <1>7
  <2> QED
    BY <2>1, <2>2
<1>10. q = r
  <2>1. \A i \in 1..m : q[i] = r[i]
    BY <1>7, <1>8
  <2>2. q \in [1..m -> S] /\ r \in [1..m -> S]
    BY <1>2, <1>6, <1>7
  <2> QED
    BY <2>1, <2>2
<1> QED
  BY <1>4, <1>5, <1>9, <1>10 DEF SplitAs

\* And what stands between p and q.
LEMMA TakenOut ==
    ASSUME NEW S, NEW p \in Seq(S), NEW m \in Seq(S), NEW q \in Seq(S), NEW s, s = p \o (m \o q),
           NEW x, x = Len(p) + 1, NEW y, y = Len(p) + Len(m)
    PROVE  SubSeq(s, x, y) = m
<1>1. PICK t : t = m \o q
  OBVIOUS
<1>2. t \in Seq(S) /\ Together(t, m, q)
  BY <1>1, JoinedIs
<1>3. s \in Seq(S) /\ Together(s, p, t)
  BY <1>1, <1>2, JoinedIs
<1>4. PICK a \in Nat : a = Len(p)
  OBVIOUS
<1>5. PICK b \in Nat : b = Len(m)
  OBVIOUS
<1>6. PICK c \in Nat : c = Len(q)
  OBVIOUS
<1>7. Len(t) = b + c /\ \A i \in 1..b : t[i] = m[i]
  BY <1>2, <1>5, <1>6 DEF Together
<1>8. Len(s) = a + (b + c) /\ \A i \in 1..(b + c) : s[a + i] = t[i]
  BY <1>3, <1>4, <1>7 DEF Together
<1>9. x = a + 1 /\ y = a + b /\ x >= 1 /\ y <= Len(s) /\ x \in Int /\ y \in Int
  BY <1>4, <1>5, <1>8
<1>10. \A i \in x..y : s[i] \in S
  BY <1>3, <1>9
<1>11. PICK r : r = SubSeq(s, x, y)
  OBVIOUS
<1>12. r \in Seq(S) /\ Len(r) = (IF x <= y THEN y - x + 1 ELSE 0)
  BY SMTT(30), <1>9, <1>10, <1>11, SubSeqProperties
<1>13. \A i \in 1..(y - x + 1) : r[i] = s[x + i - 1]
  BY SMTT(30), <1>9, <1>10, <1>11, SubSeqProperties
<1>14. Len(r) = b
  BY <1>9, <1>12
<1>15. ASSUME NEW i \in 1..b PROVE r[i] = m[i]
  <2>1. i \in 1..(y - x + 1) /\ x + i - 1 = a + i /\ i \in 1..(b + c)
    BY <1>4, <1>5, <1>6, <1>9
  <2> QED
    BY <1>7, <1>8, <1>13, <2>1
<1>16. r \in [1..b -> S] /\ m \in [1..b -> S]
  BY <1>5, <1>12, <1>14
<1>17. r = m
  BY <1>15, <1>16
<1> QED
  BY <1>11, <1>17

-----------------------------------------------------------------------------
(* Numbers and strings behind what a packet holds                           *)

PackByte == Byte \cup {NoByte}

\* Bytes are bytes of a packet.
LEMMA BytesFit == \A s \in Seq(Byte) : s \in Seq(PackByte)
<1>1. SUFFICES ASSUME NEW s \in Seq(Byte) PROVE s \in Seq(PackByte)
  OBVIOUS
<1>2. PICK n \in Nat : n = Len(s)
  OBVIOUS
<1>3. s \in [1..n -> Byte]
  BY <1>2
<1>4. \A i \in 1..n : s[i] \in PackByte
  BY <1>3 DEF PackByte
<1>5. s \in [1..n -> PackByte]
  BY <1>3, <1>4
<1> QED
  BY <1>5

\* What a number is in bytes.
LEMMA NumberBytes ==
    ASSUME NEW x \in Int, NEW n \in {2, 4}
    PROVE  BytesOf(x, n) \in Seq(PackByte) /\ Len(BytesOf(x, n)) = n
<1>1. CASE n = 2
  BY <1>1, Bytes16, BytesFit
<1>2. CASE n = 4
  <2>1. LowBytes(x, BytesOf(x, 4))
    BY Bytes32
  <2> QED
    BY <1>2, <2>1, BytesFit DEF LowBytes
<1> QED
  BY <1>1, <1>2

\* So is what a buffer is blank with.
LEMMA PackByteThere == NoByte \in PackByte
BY DEF PackByte

\* Bytes joined are bytes.
LEMMA PackJoined ==
    ASSUME NEW x \in Seq(PackByte), NEW y \in Seq(PackByte), NEW z, z = x \o y
    PROVE  z \in Seq(PackByte) /\ Len(z) = Len(x) + Len(y)
BY ConcatProperties

\* And where they are joined makes no difference.
LEMMA PackAssociates ==
    ASSUME NEW x \in Seq(PackByte), NEW y \in Seq(PackByte), NEW z \in Seq(PackByte)
    PROVE  (x \o y) \o z = x \o (y \o z) /\ x \o y \in Seq(PackByte) /\ Len(x \o y) = Len(x) + Len(y)
<1>1. x \o y \in Seq(PackByte) /\ Len(x \o y) = Len(x) + Len(y)
  BY ConcatProperties
<1>2. (x \o y) \o z = x \o (y \o z)
  BY ConcatAssociative
<1> QED
  BY <1>1, <1>2

\* The bytes of a number come behind what could be read.
LEMMA AppendIntKeeps ==
    ASSUME NEW b, BufferOK(b, PackByte), NEW s, Holds(b, s), NEW x \in Int, NEW n \in {2, 4},
           NEW a, a = AppendInt(b, x, n)
    PROVE  /\ BufferOK(a, PackByte) /\ Holds(a, s \o BytesOf(x, n))
           /\ b.reader = CheapPrepend => a.reader = CheapPrepend
<1>1. PICK e : e = BytesOf(x, n)
  OBVIOUS
<1>2. e \in Seq(PackByte)
  BY <1>1, NumberBytes
<1>3. a = AppendBytes(b, e)
  BY <1>1 DEF AppendInt
<1> QED
  BY <1>1, <1>2, <1>3, PackByteThere, AppendBytesKeeps

IsArgument(a) ==
    \/ a.kind = "int16" /\ IsInt16(a.value)
    \/ a.kind = "int32" /\ IsInt32(a.value)
    \/ a.kind = "utf" /\ a.value \in Seq(Byte) /\ Len(a.value) <= MaxInt16

\* The bytes of an argument.
Encoded(a) ==
    IF a.kind = "int16" THEN BytesOf(a.value, 2)
    ELSE IF a.kind = "int32" THEN BytesOf(a.value, 4)
    ELSE BytesOf(Len(a.value), 2) \o a.value

\* What may be put.
LEMMA ArgumentsAre == \A a \in Argument : IsArgument(a)
BY PacketAssumption DEF IsArgument, IsInt16, IsInt32

\* Numbers of a width are numbers.
LEMMA IntsAre == /\ \A x : IsInt16(x) => x \in Int
                 /\ \A x : IsInt32(x) => x \in Int
<1>1. PICK b : b = MaxInt16
  OBVIOUS
<1>2. b \in Int
  BY SMT, <1>1 DEF MaxInt16
<1>3. PICK c : c = MaxInt32
  OBVIOUS
<1>4. c \in Int
  BY SMT, <1>3 DEF MaxInt32
<1>5. ASSUME NEW x, IsInt16(x) PROVE x \in Int
  <2>1. PICK a : a = -b - 1
    OBVIOUS
  <2>2. x \in a..b
    BY <1>1, <1>5, <2>1 DEF IsInt16
  <2>3. a = 0 - b - 1
    BY SMT, <1>2, <2>1
  <2> QED
    BY <1>2, <2>2, <2>3, Between
<1>6. ASSUME NEW x, IsInt32(x) PROVE x \in Int
  <2>1. PICK a : a = -c - 1
    OBVIOUS
  <2>2. x \in a..c
    BY <1>3, <1>6, <2>1 DEF IsInt32
  <2>3. a = 0 - c - 1
    BY SMT, <1>4, <2>1
  <2> QED
    BY <1>4, <2>2, <2>3, Between
<1> QED
  BY <1>5, <1>6

\* The bytes of an argument are bytes.
LEMMA EncodedIs ==
    ASSUME NEW a, IsArgument(a)
    PROVE  Encoded(a) \in Seq(PackByte)
<1>1. CASE a.kind = "int16" /\ IsInt16(a.value)
  BY <1>1, IntsAre, NumberBytes DEF Encoded
<1>2. CASE a.kind = "int32" /\ IsInt32(a.value)
  <2>1. a.kind # "int16"
    BY <1>2
  <2>2. Encoded(a) = BytesOf(a.value, 4)
    BY <1>2, <2>1 DEF Encoded
  <2> QED
    BY <1>2, <2>2, IntsAre, NumberBytes
<1>3. CASE a.kind = "utf" /\ a.value \in Seq(Byte)
  <2>1. a.kind # "int16" /\ a.kind # "int32"
    BY <1>3
  <2>2. PICK v : v = a.value
    OBVIOUS
  <2>3. PICK n \in Int : n = Len(v)
    BY <1>3, <2>2
  <2>4. Encoded(a) = BytesOf(n, 2) \o v
    BY <2>1, <2>2, <2>3 DEF Encoded
  <2>5. v \in Seq(PackByte) /\ BytesOf(n, 2) \in Seq(PackByte)
    BY <1>3, <2>2, <2>3, BytesFit, NumberBytes
  <2> QED
    BY <2>4, <2>5, PackAssociates
<1> QED
  BY <1>1, <1>2, <1>3 DEF IsArgument

\* Putting an argument appends its bytes.
LEMMA ArgumentPut ==
    ASSUME BufferOK(pb, PackByte), NEW s, Holds(pb, s), NEW a \in Argument, PutArgument(a)
    PROVE  BufferOK(pb', PackByte) /\ Holds(pb', s \o Encoded(a))
<1>1. IsArgument(a)
  BY ArgumentsAre
<1>2. \/ a.kind = "int16" /\ pb' = PutInt16(pb, a.value)
      \/ a.kind = "int32" /\ pb' = PutInt32(pb, a.value)
      \/ a.kind = "utf" /\ pb' = PutUTF(pb, a.value)
  BY DEF PutArgument
<1>3. CASE a.kind = "int16" /\ pb' = PutInt16(pb, a.value)
  <2>1. a.value \in Int
    <3>1. IsInt16(a.value)
      BY <1>1, <1>3 DEF IsArgument
    <3> QED
      BY <3>1, IntsAre
  <2>2. pb' = AppendInt(pb, a.value, 2)
    BY <1>3 DEF PutInt16
  <2>3. Encoded(a) = BytesOf(a.value, 2)
    BY <1>3 DEF Encoded
  <2> QED
    BY <2>1, <2>2, <2>3, AppendIntKeeps
<1>4. CASE a.kind = "int32" /\ pb' = PutInt32(pb, a.value)
  <2>1. a.value \in Int
    <3>1. IsInt32(a.value)
      BY <1>1, <1>4 DEF IsArgument
    <3> QED
      BY <3>1, IntsAre
  <2>2. pb' = AppendInt(pb, a.value, 4)
    BY <1>4 DEF PutInt32
  <2>3. Encoded(a) = BytesOf(a.value, 4)
    BY <1>4 DEF Encoded
  <2> QED
    BY <2>1, <2>2, <2>3, AppendIntKeeps
<1>5. CASE a.kind = "utf" /\ pb' = PutUTF(pb, a.value)
  <2>1. PICK v : v = a.value
    OBVIOUS
  <2>2. v \in Seq(Byte)
    BY <1>1, <1>5, <2>1 DEF IsArgument
  <2>3. PICK n \in Int : n = Len(v)
    BY <2>2
  <2>4. PICK b : b = AppendInt(pb, n, 2)
    OBVIOUS
  <2>5. pb' = AppendBytes(b, v)
    BY <1>5, <2>1, <2>3, <2>4 DEF PutUTF
  <2>6. PICK e : e = BytesOf(n, 2)
    OBVIOUS
  <2>7. BufferOK(b, PackByte) /\ Holds(b, s \o e)
    BY <2>4, <2>6, AppendIntKeeps
  <2>8. v \in Seq(PackByte) /\ e \in Seq(PackByte) /\ s \in Seq(PackByte)
    BY <2>2, <2>6, BytesFit, NumberBytes, ReadableIs
  <2>9. BufferOK(pb', PackByte) /\ Holds(pb', (s \o e) \o v)
    BY <2>5, <2>7, <2>8, PackByteThere, AppendBytesKeeps
  <2>10. Encoded(a) = e \o v
    <3>1. a.kind # "int16" /\ a.kind # "int32"
      BY <1>5
    <3> QED
      BY <2>1, <2>3, <2>6, <3>1 DEF Encoded
  <2>11. (s \o e) \o v = s \o (e \o v)
    BY <2>8, PackAssociates
  <2> QED
    BY <2>9, <2>10, <2>11
<1> QED
  BY <1>2, <1>3, <1>4, <1>5

\* What getting a value gives and leaves.
Gives(r, x, left) == r.value = x /\ BufferOK(r.rest, PackByte) /\ Holds(r.rest, left)

\* x, whose bytes are e, has n of them.
IsNumber(x, n, e) ==
    \/ n = 2 /\ IsInt16(x) /\ e = BytesOf(x, 2)
    \/ n = 4 /\ IsInt32(x) /\ e = BytesOf(x, 4)

\* The bytes of a number give it back.
LEMMA NumberIs ==
    ASSUME NEW x, NEW n, NEW e, IsNumber(x, n, e)
    PROVE  x \in Int /\ n \in Nat /\ e \in Seq(PackByte) /\ Len(e) = n /\ AsNumber(e) = x
<1>1. CASE n = 2 /\ IsInt16(x) /\ e = BytesOf(x, 2)
  <2>1. x \in Int /\ e \in Seq(PackByte) /\ Len(e) = 2
    BY <1>1, IntsAre, NumberBytes
  <2>2. Holds16(e, x)
    BY <1>1 DEF Holds16
  <2>3. AsNumber(e) = x
    BY <1>1, <2>1, <2>2, Number16
  <2> QED
    BY <1>1, <2>1, <2>3
<1>2. CASE n = 4 /\ IsInt32(x) /\ e = BytesOf(x, 4)
  <2>1. x \in Int /\ e \in Seq(PackByte) /\ Len(e) = 4
    BY <1>2, IntsAre, NumberBytes
  <2>2. Holds32(e, x)
    BY <1>2 DEF Holds32
  <2>3. AsNumber(e) = x
    BY <1>2, <2>1, <2>2, Number32
  <2> QED
    BY <1>2, <2>1, <2>3
<1> QED
  BY <1>1, <1>2 DEF IsNumber

\* How much is there to read.
LEMMA ManyReadable ==
    ASSUME NEW b, BufferOK(b, PackByte), NEW s, Holds(b, s)
    PROVE  s \in Seq(PackByte) /\ Len(s) \in Nat /\ ReadableBytes(b) = Len(s)
BY ReadableIs DEF ReadableBytes

\* Reading the number that comes first gives it and leaves what is behind.
LEMMA ReadIntIs ==
    ASSUME NEW b, BufferOK(b, PackByte), NEW x, NEW n, NEW e, IsNumber(x, n, e), NEW left \in Seq(PackByte),
           Holds(b, e \o left), NEW r, r = ReadInt(b, n)
    PROVE  ReadableBytes(b) >= n /\ PeekInt(b, n) = x /\ Gives(r, x, left)
<1>1. x \in Int /\ n \in Nat /\ e \in Seq(PackByte) /\ Len(e) = n /\ AsNumber(e) = x
  BY NumberIs
<1>2. PICK s : s = e \o left
  OBVIOUS
<1>10. e \in Seq(PackByte) /\ left \in Seq(PackByte) /\ n = Len(e)
  BY <1>1
<1>3. FirstOf(s, n) = e /\ Behind(s, n) = left
  <2>1. SplitAs(s, n, e, left)
    BY <1>2, <1>10, TakenApart
  <2> QED
    BY <2>1 DEF SplitAs
<1>4. s \in Seq(PackByte) /\ Len(s) \in Nat /\ ReadableBytes(b) = Len(s)
  BY <1>2, ManyReadable
<1>5. Len(s) >= n
  <2>1. Len(s) = Len(e) + Len(left) /\ Len(left) \in Nat
    BY <1>2, <1>10, PackAssociates
  <2> QED
    BY <1>1, <2>1
<1>6. PeekInt(b, n) = x
  BY <1>1, <1>2, <1>3 DEF PeekInt, Holds, FirstOf
<1>7. PICK c : c = Retrieve(b, n)
  OBVIOUS
<1>8. BufferOK(c, PackByte) /\ Holds(c, left)
  BY <1>1, <1>2, <1>3, <1>4, <1>5, <1>7, RetrieveKeeps
<1>9. r.value = x /\ r.rest = c
  BY <1>6, <1>7 DEF ReadInt
<1> QED
  BY <1>4, <1>5, <1>6, <1>8, <1>9 DEF Gives

-----------------------------------------------------------------------------
(* What a packet still holds                                                *)

\* c[i] is left when i arguments were got; g of them were, and s is left.
StillInBy(args, g, s, c) ==
    /\ c \in [g..Len(args) -> Seq(PackByte)]
    /\ c[g] = s /\ c[Len(args)] = <<>>
    /\ \A i, j \in g..Len(args) : j = i + 1 => c[i] = Encoded(args[j]) \o c[j]

StillIn(args, g, s) == \E c : StillInBy(args, g, s, c)

\* An argument was put behind the others.
LEMMA StillInMore ==
    ASSUME NEW args \in Seq(Argument), NEW g \in 0..Len(args), NEW s, StillIn(args, g, s),
           NEW a \in Argument, NEW args2, args2 = Append(args, a)
    PROVE  StillIn(args2, g, s \o Encoded(a))
<1>1. PICK c : StillInBy(args, g, s, c)
  BY DEF StillIn
<1>2. PICK n \in Nat : n = Len(args)
  OBVIOUS
<1>3. PICK m \in Nat : m = n + 1
  OBVIOUS
<1>4. PICK e : e = Encoded(a)
  OBVIOUS
<1>5. e \in Seq(PackByte)
  BY <1>4, ArgumentsAre, EncodedIs
<1>6. Len(args2) = m /\ args2[m] = a /\ \A i \in 1..n : args2[i] = args[i]
  BY <1>2, <1>3
<1>7. g \in Nat /\ g <= n
  BY <1>2
<1>8. /\ c \in [g..n -> Seq(PackByte)] /\ c[g] = s /\ c[n] = <<>>
      /\ \A i, j \in g..n : j = i + 1 => c[i] = Encoded(args[j]) \o c[j]
  BY <1>1, <1>2 DEF StillInBy
<1>9. PICK c2 : c2 = [i \in g..m |-> IF i <= n THEN c[i] \o e ELSE <<>>]
  OBVIOUS
<1>10. \A i \in g..n : c[i] \in Seq(PackByte) /\ c2[i] = c[i] \o e /\ c2[i] \in Seq(PackByte)
  <2>1. SUFFICES ASSUME NEW i \in g..n PROVE c[i] \in Seq(PackByte) /\ c2[i] = c[i] \o e /\ c2[i] \in Seq(PackByte)
    OBVIOUS
  <2>2. c[i] \in Seq(PackByte)
    BY <1>8
  <2>3. i \in g..m /\ i <= n
    BY <1>3, <1>7
  <2>4. c2[i] = c[i] \o e
    BY <1>9, <2>3
  <2> QED
    BY <1>5, <2>2, <2>4, PackAssociates
<1>11. c2[m] = <<>>
  BY <1>3, <1>7, <1>9
<1>12. c2 \in [g..m -> Seq(PackByte)]
  <2>1. ASSUME NEW i \in g..m PROVE c2[i] \in Seq(PackByte)
    <3>1. i \in g..n \/ i = m
      BY <1>3, <1>7
    <3>2. <<>> \in Seq(PackByte)
      OBVIOUS
    <3> QED
      BY <1>10, <1>11, <3>1, <3>2
  <2> QED
    BY <1>9, <2>1
<1>13. c2[g] = s \o e
  <2>1. g \in g..n
    BY <1>7
  <2> QED
    BY <1>8, <1>10, <2>1
<1>14. ASSUME NEW i \in g..m, NEW j \in g..m, j = i + 1
       PROVE  c2[i] = Encoded(args2[j]) \o c2[j]
  <2>1. i \in g..n
    BY <1>3, <1>7, <1>14
  <2>2. CASE j = m
    <3>1. i = n
      BY <1>3, <1>14, <2>2
    <3>2. c2[i] = <<>> \o e
      BY <1>8, <1>10, <2>1, <3>1
    <3>3. <<>> \o e = e /\ e \o <<>> = e
      BY <1>5
    <3> QED
      BY <1>4, <1>6, <1>11, <2>2, <3>2, <3>3
  <2>3. CASE j # m
    <3>1. j \in g..n /\ j \in 1..n
      BY <1>3, <1>7, <1>14, <2>1, <2>3
    <3>2. PICK f : f = Encoded(args[j])
      OBVIOUS
    <3>3. args[j] \in Argument
      BY <1>2, <3>1
    <3>4. f \in Seq(PackByte)
      BY <3>2, <3>3, ArgumentsAre, EncodedIs
    <3>5. c[i] = f \o c[j]
      BY <1>8, <1>14, <2>1, <3>1, <3>2
    <3>6. (f \o c[j]) \o e = f \o (c[j] \o e)
      <4>1. c[j] \in Seq(PackByte)
        BY <1>10, <3>1
      <4> QED
        BY <1>5, <3>4, <4>1, PackAssociates
    <3>7. c2[i] = c[i] \o e /\ c2[j] = c[j] \o e
      BY <1>10, <2>1, <3>1
    <3> QED
      BY <1>6, <3>1, <3>2, <3>5, <3>6, <3>7
  <2> QED
    BY <2>2, <2>3
<1>15. StillInBy(args2, g, s \o e, c2)
  BY <1>6, <1>11, <1>12, <1>13, <1>14 DEF StillInBy
<1> QED
  BY <1>4, <1>15 DEF StillIn

\* The next argument comes first.
LEMMA StillInNext ==
    ASSUME NEW args \in Seq(Argument), NEW g \in Nat, g < Len(args), NEW s, StillIn(args, g, s),
           NEW f, f = g + 1
    PROVE  \E left \in Seq(PackByte) : s = Encoded(args[f]) \o left /\ StillIn(args, f, left)
<1>1. PICK c : StillInBy(args, g, s, c)
  BY DEF StillIn
<1>2. PICK n \in Nat : n = Len(args)
  OBVIOUS
<1>3. f \in Nat /\ f \in g..n /\ g \in g..n /\ n \in f..n
  BY <1>2
<1>4. /\ c \in [g..n -> Seq(PackByte)] /\ c[g] = s /\ c[n] = <<>>
      /\ \A i, j \in g..n : j = i + 1 => c[i] = Encoded(args[j]) \o c[j]
  BY <1>1, <1>2 DEF StillInBy
<1>5. s = Encoded(args[f]) \o c[f] /\ c[f] \in Seq(PackByte)
  BY <1>3, <1>4
<1>6. PICK c2 : c2 = [i \in f..n |-> c[i]]
  OBVIOUS
<1>7. \A i \in f..n : i \in g..n /\ c2[i] = c[i]
  BY <1>3, <1>6
<1>8. c2 \in [f..n -> Seq(PackByte)]
  BY <1>4, <1>6, <1>7
<1>9. c2[f] = c[f] /\ c2[n] = <<>>
  BY <1>3, <1>4, <1>7
<1>10. \A i, j \in f..n : j = i + 1 => c2[i] = Encoded(args[j]) \o c2[j]
  <2>1. SUFFICES ASSUME NEW i \in f..n, NEW j \in f..n, j = i + 1
                 PROVE  c2[i] = Encoded(args[j]) \o c2[j]
    OBVIOUS
  <2>2. i \in g..n /\ j \in g..n /\ c2[i] = c[i] /\ c2[j] = c[j]
    BY <1>7
  <2>3. c[i] = Encoded(args[j]) \o c[j]
    BY <1>4, <2>1, <2>2
  <2> QED
    BY <2>2, <2>3
<1>11. StillInBy(args, f, c[f], c2)
  BY <1>2, <1>8, <1>9, <1>10 DEF StillInBy
<1> QED
  BY <1>5, <1>11 DEF StillIn

\* Nothing is left when all were got.
LEMMA StillInNone ==
    ASSUME NEW args, NEW s, StillIn(args, Len(args), s)
    PROVE  s = <<>>
BY DEF StillIn, StillInBy

\* Nothing was put and nothing is left.
LEMMA StillInStart == StillIn(<<>>, 0, <<>>)
<1>1. PICK c : c = [i \in 0..0 |-> <<>>]
  OBVIOUS
<1>2. Len(<<>>) = 0
  OBVIOUS
<1>3. c \in [0..0 -> Seq(PackByte)] /\ c[0] = <<>>
  BY <1>1
<1>4. \A i, j \in 0..0 : j # i + 1
  OBVIOUS
<1>5. StillInBy(<<>>, 0, <<>>, c)
  BY <1>2, <1>3, <1>4 DEF StillInBy
<1> QED
  BY <1>5 DEF StillIn

-----------------------------------------------------------------------------
(* What the getters give                                                    *)

\* The getter of the right kind gives the number that comes first.
LEMMA GetNumberIs ==
    ASSUME NEW b, BufferOK(b, PackByte), NEW a, IsArgument(a), NEW left \in Seq(PackByte),
           Holds(b, Encoded(a) \o left)
    PROVE  /\ a.kind = "int16" => Gives(GetInt16(b), a.value, left)
           /\ a.kind = "int32" => Gives(GetInt32(b), a.value, left)
<1>1. PICK e : e = Encoded(a)
  OBVIOUS
<1>2. PICK x : x = a.value
  OBVIOUS
<1>3. Holds(b, e \o left)
  BY <1>1
<1>4. ReadableBytes(b) \in Nat
  BY DEF BufferOK, ReadableBytes
<1>5. ASSUME a.kind = "int16" PROVE Gives(GetInt16(b), x, left)
  <2>1. IsNumber(x, 2, e)
    BY <1>1, <1>2, <1>5 DEF IsArgument, IsNumber, Encoded
  <2>2. PICK r : r = ReadInt(b, 2)
    OBVIOUS
  <2>3. ReadableBytes(b) >= 2 /\ Gives(r, x, left)
    BY <1>3, <2>1, <2>2, ReadIntIs
  <2>4. GetInt16(b) = r
    BY <2>2, <2>3 DEF GetInt16
  <2> QED
    BY <2>3, <2>4
<1>6. ASSUME a.kind = "int32" PROVE Gives(GetInt32(b), x, left)
  <2>1. IsNumber(x, 4, e)
    BY <1>1, <1>2, <1>6 DEF IsArgument, IsNumber, Encoded
  <2>2. PICK r : r = ReadInt(b, 4)
    OBVIOUS
  <2>3. ReadableBytes(b) >= 4 /\ Gives(r, x, left)
    BY <1>3, <2>1, <2>2, ReadIntIs
  <2>4. GetInt32(b) = r
    BY <2>2, <2>3 DEF GetInt32
  <2> QED
    BY <2>3, <2>4
<1> QED
  BY <1>2, <1>5, <1>6

\* Past the end there is nothing.
LEMMA PastTheEnd ==
    ASSUME NEW b, BufferOK(b, PackByte), Holds(b, <<>>)
    PROVE  /\ GetInt16(b) = [value |-> 0, rest |-> b]
           /\ GetInt32(b) = [value |-> 0, rest |-> b]
<1>1. ReadableBytes(b) = Len(<<>>)
  BY ManyReadable
<1>2. ReadableBytes(b) = 0
  BY <1>1
<1> QED
  BY <1>2 DEF GetInt16, GetInt32

\* A string is given, or it is refused and its length says so.
StringGot(r, v, left) == r.ok /\ Gives(r, v, left)
StringRefused(r, v, room) ==
    /\ ~r.ok /\ BufferOK(r.rest, PackByte) /\ r.size = Len(v)
    /\ Len(v) >= room \/ ReadableBytes(r.rest) > MaxInt16

\* What an unsigned number counts a signed one does.
LEMMA Countable ==
    ASSUME NEW m \in Nat, NEW n \in 0..m
    PROVE  n \in (-m - 1)..m
OBVIOUS

\* A string that comes first is given or refused.
LEMMA GetStringIs ==
    ASSUME NEW b, BufferOK(b, PackByte), NEW a, IsArgument(a), a.kind = "utf", NEW v, v = a.value,
           NEW left \in Seq(PackByte), Holds(b, Encoded(a) \o left), NEW room \in Nat,
           NEW r, r = GetUTF(b, room)
    PROVE  StringGot(r, v, left) \/ StringRefused(r, v, room)
<1>1. v \in Seq(Byte) /\ Len(v) <= MaxInt16
  BY DEF IsArgument
<1>2. v \in Seq(PackByte)
  BY <1>1, BytesFit
<1>3. PICK n \in Nat : n = Len(v)
  BY <1>1
<1>4. PICK e : e = BytesOf(n, 2)
  OBVIOUS
<1>5. IsNumber(n, 2, e) /\ n <= MaxInt16
  <2>1. MaxInt16 = 32767
    BY SMT DEF MaxInt16
  <2>2. PICK m : m = MaxInt16
    OBVIOUS
  <2>5. m \in Nat /\ n \in 0..m
    <3>1. m \in Nat
      BY SMT, <2>1, <2>2
    <3>2. n <= m
      BY <1>1, <1>3, <2>2
    <3> QED
      BY <3>1, <3>2
  <2>3. n \in (-m - 1)..m
    BY <2>5, Countable
  <2>4. IsInt16(n)
    BY <2>2, <2>3 DEF IsInt16
  <2> QED
    BY <1>1, <1>3, <1>4, <2>4 DEF IsNumber
<1>6. e \in Seq(PackByte) /\ Len(e) = 2
  BY <1>5, NumberIs
<1>7. Encoded(a) = e \o v
  BY <1>3, <1>4 DEF Encoded
<1>8. PICK rest : rest = v \o left
  OBVIOUS
<1>9. rest \in Seq(PackByte) /\ Len(rest) = n + Len(left) /\ (e \o v) \o left = e \o rest
  BY <1>2, <1>3, <1>6, <1>8, PackAssociates
<1>10. Holds(b, e \o rest)
  BY <1>7, <1>9
<1>11. PICK q : q = ReadInt(b, 2)
  OBVIOUS
<1>12. ReadableBytes(b) >= 2 /\ Gives(q, n, rest)
  BY <1>5, <1>9, <1>10, <1>11, ReadIntIs
<1>13. q.value = n /\ BufferOK(q.rest, PackByte) /\ Holds(q.rest, rest)
  BY <1>12 DEF Gives
<1>14. ReadableBytes(b) \in Nat
  BY DEF BufferOK, ReadableBytes
<1>15. PICK l \in Nat : l = ReadableBytes(q.rest)
  BY <1>13 DEF BufferOK, ReadableBytes
<1>16. l = Len(rest) /\ l >= n
  <2>1. l = Len(rest)
    BY <1>13, <1>15, ManyReadable
  <2>2. Len(left) \in Nat
    OBVIOUS
  <2> QED
    BY <1>9, <2>1, <2>2
<1>19. r = IF q.value >= room \/ AsInt16(ReadableBytes(q.rest)) < q.value
           THEN [ok |-> FALSE, size |-> q.value, value |-> <<>>, rest |-> q.rest]
           ELSE [ok |-> TRUE, size |-> q.value, value |-> GetBytes(q.rest, q.value),
                 rest |-> Retrieve(q.rest, q.value)]
  <2>1. ~(ReadableBytes(b) < 2)
    BY <1>12, <1>14
  <2> QED
    BY <1>11, <2>1 DEF GetUTF
<1>17. CASE n >= room \/ AsInt16(l) < n
  <2>1. r = [ok |-> FALSE, size |-> n, value |-> <<>>, rest |-> q.rest]
    BY <1>13, <1>15, <1>17, <1>19
  <2>2. n >= room \/ l > MaxInt16
    <3>1. l <= MaxInt16 => AsInt16(l) = l
      BY SizeAsInt16
    <3>2. MaxInt16 \in Nat
      BY SMT DEF MaxInt16
    <3> QED
      BY <1>16, <1>17, <3>1, <3>2
  <2> QED
    BY <1>3, <1>13, <1>15, <2>1, <2>2 DEF StringRefused
<1>18. CASE ~(n >= room \/ AsInt16(l) < n)
  <2>1. r = [ok |-> TRUE, size |-> n, value |-> GetBytes(q.rest, n), rest |-> Retrieve(q.rest, n)]
    BY <1>13, <1>15, <1>18, <1>19
  <2>2. SplitAs(rest, n, v, left)
    BY <1>2, <1>3, <1>8, TakenApart
  <2>3. FirstOf(rest, n) = v /\ Behind(rest, n) = left
    BY <2>2 DEF SplitAs
  <2>4. GetBytes(q.rest, n) = v
    BY <1>13, <2>3 DEF GetBytes, Holds, FirstOf
  <2>5. PICK c : c = Retrieve(q.rest, n)
    OBVIOUS
  <2>6. BufferOK(c, PackByte) /\ Holds(c, left)
    BY <1>13, <1>16, <2>3, <2>5, RetrieveKeeps
  <2>7. r.ok /\ r.value = v /\ r.rest = c
    BY <2>1, <2>4, <2>5
  <2> QED
    BY <2>6, <2>7 DEF StringGot, Gives
<1> QED
  BY <1>17, <1>18

-----------------------------------------------------------------------------
(* A message of dbsrv                                                       *)

\* A name or a body that may be in a message, and what a message of both is.
Payload(name, body) ==
    ((BytesOf(Len(name), 2) \o EncodeTypeName(name)) \o BytesOf(0, 4)) \o body
Laid(name, body) == BytesOf(6 + Len(name) + Len(body), 4) \o Payload(name, body)

\* The parts of a message and their lengths.
IsMessage(name, body, l, m, e, c, o) ==
    /\ l \in Nat /\ m \in Nat /\ l = Len(name) /\ m = Len(body) /\ l >= 1 /\ l <= 1023
    /\ e = BytesOf(l, 2) /\ c = EncodeTypeName(name) /\ o = BytesOf(0, 4)
    /\ e \in Seq(PackByte) /\ c \in Seq(PackByte) /\ o \in Seq(PackByte) /\ body \in Seq(PackByte)
    /\ Len(e) = 2 /\ Len(c) = l /\ Len(o) = 4
    /\ name \in [1..l -> NameByte] /\ c = [i \in 1..l |-> 255 - name[i]]

\* Every name with every body is a message.
LEMMA MessageIs ==
    ASSUME NEW name \in TypeName, NEW body \in Body
    PROVE  \E l, m, e, c, o : IsMessage(name, body, l, m, e, c, o)
<1>1. name # <<>> /\ name \in Seq(NameByte) /\ Len(name) <= MaxName /\ body \in Seq(Byte)
  BY PacketAssumption
<1>2. PICK l \in Nat : l = Len(name)
  BY <1>1
<1>3. PICK m \in Nat : m = Len(body)
  BY <1>1
<1>4. l >= 1 /\ l <= 1023
  BY <1>1, <1>2 DEF MaxName
<1>5. name \in [1..l -> NameByte]
  BY <1>1, <1>2
<1>6. PICK c : c = [i \in 1..l |-> 255 - name[i]]
  OBVIOUS
<1>7. c = EncodeTypeName(name)
  BY <1>5, <1>6 DEF EncodeTypeName
<1>8. ASSUME NEW i \in 1..l PROVE c[i] \in Byte
  <2>1. name[i] \in 1..254
    BY <1>5 DEF NameByte
  <2>2. c[i] = 255 - name[i]
    BY <1>6
  <2> QED
    BY <2>1, <2>2 DEF Byte
<1>9. c \in [1..l -> Byte]
  BY <1>6, <1>8
<1>10. c \in Seq(Byte) /\ Len(c) = l
  BY <1>9, FunctionSeq
<1>11. PICK e : e = BytesOf(l, 2)
  OBVIOUS
<1>12. PICK o : o = BytesOf(0, 4)
  OBVIOUS
<1>13. e \in Seq(PackByte) /\ Len(e) = 2 /\ o \in Seq(PackByte) /\ Len(o) = 4
  BY <1>11, <1>12, NumberBytes
<1>14. c \in Seq(PackByte) /\ body \in Seq(PackByte)
  BY <1>1, <1>10, BytesFit
<1>15. IsMessage(name, body, l, m, e, c, o)
  BY <1>2, <1>3, <1>4, <1>5, <1>6, <1>7, <1>10, <1>11, <1>12, <1>13, <1>14 DEF IsMessage
<1> QED
  BY <1>15

\* Decoding gives back the name that was encoded.
LEMMA NameBack ==
    ASSUME NEW l \in Nat, NEW name \in [1..l -> NameByte], NEW c, c = [i \in 1..l |-> 255 - name[i]]
    PROVE  DecodeTypeName(c) = name
<1>1. DOMAIN c = 1..l
  OBVIOUS
<1>2. PICK d : d = DecodeTypeName(c)
  OBVIOUS
<1>3. d = [i \in 1..l |-> 255 - c[i]]
  BY <1>1, <1>2 DEF DecodeTypeName
<1>4. ASSUME NEW i \in 1..l PROVE d[i] = name[i]
  <2>1. name[i] \in 1..254
    BY DEF NameByte
  <2>2. c[i] = 255 - name[i] /\ d[i] = 255 - c[i]
    BY <1>3
  <2>3. PICK x \in Int : x = name[i]
    BY <2>1
  <2>4. c[i] = 255 - x /\ d[i] = 255 - (255 - x)
    BY <2>2, <2>3
  <2> QED
    BY <2>3, <2>4
<1>5. d = [i \in 1..l |-> name[i]]
  BY <1>3, <1>4
<1> QED
  BY <1>2, <1>5

\* What fillEmptyBuff leaves in the buffer.
LEMMA FillIs ==
    ASSUME NEW name \in TypeName, NEW body \in Body, NEW b, b = FillEmptyBuff(name, body)
    PROVE  BufferOK(b, PackByte) /\ Holds(b, Laid(name, body))
<1>1. PICK l, m, e, c, o : IsMessage(name, body, l, m, e, c, o)
  BY MessageIs
<1>2. /\ l \in Nat /\ m \in Nat /\ l = Len(name) /\ m = Len(body)
      /\ e = BytesOf(l, 2) /\ c = EncodeTypeName(name) /\ o = BytesOf(0, 4)
      /\ e \in Seq(PackByte) /\ c \in Seq(PackByte) /\ o \in Seq(PackByte) /\ body \in Seq(PackByte)
      /\ Len(e) = 2 /\ Len(c) = l /\ Len(o) = 4
  BY <1>1 DEF IsMessage
<1>30. l \in Nat /\ m \in Nat /\ l = Len(name) /\ m = Len(body)
  BY <1>2
<1>31. e \in Seq(PackByte) /\ Len(e) = 2
  BY <1>2
<1>32. c \in Seq(PackByte) /\ Len(c) = l
  BY <1>2
<1>33. o \in Seq(PackByte) /\ Len(o) = 4
  BY <1>2
<1>34. body \in Seq(PackByte)
  BY <1>2
<1>3. PICK b0 : b0 = NewBuffer
  OBVIOUS
<1>4. BufferOK(b0, PackByte) /\ Holds(b0, <<>>) /\ b0.reader = CheapPrepend
  BY <1>3, PackByteThere, NewBufferIs
<1>5. PICK b1 : b1 = AppendInt(b0, l, 2)
  OBVIOUS
<1>6. BufferOK(b1, PackByte) /\ Holds(b1, e) /\ b1.reader = CheapPrepend
  <2>1. BufferOK(b1, PackByte) /\ Holds(b1, <<>> \o e) /\ b1.reader = CheapPrepend
    <3>1. l \in Int
      BY <1>30
    <3>2. BufferOK(b1, PackByte) /\ Holds(b1, <<>> \o BytesOf(l, 2)) /\ b1.reader = CheapPrepend
      BY <3>1, <1>4, <1>5, AppendIntKeeps
    <3>3. e = BytesOf(l, 2)
      BY <1>2
    <3> QED
      BY <3>2, <3>3
  <2>2. <<>> \o e = e
    BY <1>2
  <2> QED
    BY <2>1, <2>2
<1>7. PICK b2 : b2 = AppendBytes(b1, c)
  OBVIOUS
<1>8. PICK s2 : s2 = e \o c
  OBVIOUS
<1>9. BufferOK(b2, PackByte) /\ Holds(b2, s2) /\ b2.reader = CheapPrepend
  BY <1>2, <1>6, <1>7, <1>8, PackByteThere, AppendBytesKeeps
<1>10. PICK b3 : b3 = AppendInt(b2, 0, 4)
  OBVIOUS
<1>11. PICK s3 : s3 = s2 \o o
  OBVIOUS
<1>12. BufferOK(b3, PackByte) /\ Holds(b3, s3) /\ b3.reader = CheapPrepend
  <2>1. BufferOK(b3, PackByte) /\ Holds(b3, s2 \o BytesOf(0, 4)) /\ b3.reader = CheapPrepend
    BY SMTT(30), <1>9, <1>10, AppendIntKeeps
  <2>2. o = BytesOf(0, 4)
    BY <1>2
  <2> QED
    BY <1>11, <2>1, <2>2
<1>13. PICK b4 : b4 = AppendBytes(b3, body)
  OBVIOUS
<1>14. PICK s4 : s4 = s3 \o body
  OBVIOUS
<1>15. BufferOK(b4, PackByte) /\ Holds(b4, s4) /\ b4.reader = CheapPrepend
  BY <1>2, <1>12, <1>13, <1>14, PackByteThere, AppendBytesKeeps
<1>16. s4 = Payload(name, body)
  BY <1>2, <1>8, <1>11, <1>14 DEF Payload
<1>17. ReadableBytes(b4) = 6 + l + m
  <2>1. s2 \in Seq(PackByte) /\ Len(s2) = 2 + l
    BY <1>31, <1>32, <1>8, PackJoined
  <2>2. s3 \in Seq(PackByte) /\ Len(s3) = (2 + l) + 4
    BY <1>33, <1>11, <2>1, PackJoined
  <2>3. s4 \in Seq(PackByte) /\ Len(s4) = ((2 + l) + 4) + m
    BY <1>30, <1>34, <1>14, <2>2, PackJoined
  <2>4. ReadableBytes(b4) = Len(s4)
    BY <1>15, ManyReadable
  <2> QED
    BY <1>2, <2>3, <2>4
<1>18. PICK k \in Nat : k = 6 + l + m
  BY <1>2
<1>19. PICK h : h = BytesOf(k, 4)
  OBVIOUS
<1>20. h \in Seq(PackByte) /\ Len(h) = 4
  BY <1>18, <1>19, NumberBytes
<1>21. b = PrependBytes(b4, h)
  BY <1>2, <1>3, <1>5, <1>7, <1>10, <1>13, <1>17, <1>18, <1>19 DEF FillEmptyBuff
<1>22. Len(h) <= b4.reader
  BY <1>15, <1>20, PacketAssumption
<1>23. BufferOK(b, PackByte) /\ Holds(b, h \o s4)
  BY <1>15, <1>20, <1>21, <1>22, PrependBytesKeeps
<1>24. Laid(name, body) = h \o s4
  BY <1>2, <1>16, <1>18, <1>19 DEF Laid
<1> QED
  BY <1>23, <1>24

\* What is left of a message whose type is not known, or which is too long.
ParsedAs(f, name, body) ==
    \/ f.error = "kNoError" /\ f.name = name /\ f.body = body
    \/ f.error = "kUnknownMessageType" /\ name \notin Generated \cup Imported
    \/ f.error = "kInvalidNameLen" /\ 4 + Len(name) + Len(body) > MaxInt16

\* What parse() makes of a message.
LEMMA ParseIs ==
    ASSUME NEW name \in TypeName, NEW body \in Body, NEW p, p = Payload(name, body)
    PROVE  /\ p \in Seq(PackByte) /\ Len(p) = 6 + Len(name) + Len(body)
           /\ ParsedAs(ParseFrame(p), name, body)
<1>1. PICK l, m, e, c, o : IsMessage(name, body, l, m, e, c, o)
  BY MessageIs
<1>2. /\ l \in Nat /\ m \in Nat /\ l = Len(name) /\ m = Len(body) /\ l >= 1 /\ l <= 1023
      /\ e = BytesOf(l, 2) /\ c = EncodeTypeName(name) /\ o = BytesOf(0, 4)
      /\ e \in Seq(PackByte) /\ c \in Seq(PackByte) /\ o \in Seq(PackByte) /\ body \in Seq(PackByte)
      /\ Len(e) = 2 /\ Len(c) = l /\ Len(o) = 4
  BY <1>1 DEF IsMessage
<1>30. l \in Nat /\ m \in Nat /\ l = Len(name) /\ m = Len(body)
  BY <1>2
<1>31. e \in Seq(PackByte) /\ Len(e) = 2
  BY <1>2
<1>32. c \in Seq(PackByte) /\ Len(c) = l
  BY <1>2
<1>33. o \in Seq(PackByte) /\ Len(o) = 4
  BY <1>2
<1>34. body \in Seq(PackByte)
  BY <1>2
<1>3. PICK s2 : s2 = e \o c
  OBVIOUS
<1>4. s2 \in Seq(PackByte) /\ Len(s2) = 2 + l
  BY <1>31, <1>32, <1>3, PackJoined
<1>5. PICK s3 : s3 = s2 \o o
  OBVIOUS
<1>6. s3 \in Seq(PackByte) /\ Len(s3) = (2 + l) + 4
  BY <1>33, <1>4, <1>5, PackJoined
<1>7. p = s3 \o body
  BY <1>2, <1>3, <1>5 DEF Payload
<1>8. p \in Seq(PackByte) /\ Len(p) = ((2 + l) + 4) + m
  BY <1>30, <1>34, <1>6, <1>7, PackJoined
<1>9. PICK t : t = o \o body
  OBVIOUS
<1>10. t \in Seq(PackByte) /\ s3 \o body = s2 \o t
  <2>1. t \in Seq(PackByte)
    BY <1>33, <1>34, <1>9, PackJoined
  <2>2. (s2 \o o) \o body = s2 \o (o \o body)
    BY SMTT(30), <1>4, <1>33, <1>34, PackAssociates
  <2> QED
    BY <1>5, <1>9, <2>1, <2>2
<1>11. PICK u : u = c \o t
  OBVIOUS
<1>12. u \in Seq(PackByte) /\ s2 \o t = e \o u
  <2>1. u \in Seq(PackByte)
    BY <1>32, <1>10, <1>11, PackJoined
  <2>2. (e \o c) \o t = e \o (c \o t)
    BY <1>10, <1>31, <1>32, PackAssociates
  <2> QED
    BY <1>3, <1>11, <2>1, <2>2
<1>13. p = e \o u
  BY <1>7, <1>10, <1>12
<1>14. AsNumber(SubSeq(p, 1, 2)) = l
  <2>1. SplitAs(p, 2, e, u)
    BY <1>2, <1>12, <1>13, TakenApart
  <2>2. SubSeq(p, 1, 2) = e
    BY <2>1 DEF SplitAs, FirstOf
  <2>3. IsNumber(l, 2, e)
    <3>1. PICK x \in Nat : x = MaxInt16
      BY SMT DEF MaxInt16
    <3>2. x >= 1023
      BY SMT, <3>1 DEF MaxInt16
    <3>3. l \in 0..x
      BY <1>2, <3>1, <3>2
    <3>4. l \in (-x - 1)..x
      BY <3>3, <3>1, Countable
    <3> QED
      BY <1>2, <3>1, <3>4 DEF IsNumber, IsInt16
  <2> QED
    BY <2>2, <2>3, NumberIs
<1>15. DecodeTypeName(SubSeq(p, 3, 2 + l)) = name
  <2>1. PICK x \in Nat : x = 3
    OBVIOUS
  <2>2. PICK y \in Nat : y = 2 + l
    BY <1>2
  <2>3. p = e \o (c \o t)
    BY <1>11, <1>13
  <2>4. x = Len(e) + 1 /\ y = Len(e) + Len(c)
    BY <1>31, <1>32, <2>1, <2>2
  <2>5. SubSeq(p, x, y) = c
    <3>1. e \in Seq(PackByte) /\ c \in Seq(PackByte) /\ t \in Seq(PackByte)
      BY <1>31, <1>32, <1>10
    <3> QED
      BY <3>1, <2>3, <2>4, TakenOut
  <2>6. l \in Nat /\ name \in [1..l -> NameByte] /\ c = [i \in 1..l |-> 255 - name[i]]
    BY <1>1 DEF IsMessage
  <2>7. DecodeTypeName(c) = name
    BY <2>6, NameBack
  <2> QED
    BY <2>1, <2>2, <2>5, <2>7
<1>16. SubSeq(p, 7 + l, Len(p)) = body
  <2>1. PICK x \in Nat : x = 6 + l
    BY <1>2
  <2>2. x = Len(s3)
    BY <1>2, <1>6, <2>1
  <2>3. SplitAs(p, x, s3, body)
    BY <1>2, <1>6, <1>7, <2>2, TakenApart
  <2>4. SubSeq(p, x + 1, Len(p)) = body
    BY <2>3 DEF SplitAs, Behind
  <2>5. x + 1 = 7 + l
    BY <1>2, <2>1
  <2> QED
    BY <2>4, <2>5
<1>26. PICK n \in Nat : n = 6 + l + m
  BY <1>30
<1>27. Len(p) = n
  BY <1>30, <1>8, <1>26
<1>17. PICK r \in Nat : r = n - 2
  BY <1>30, <1>26
<1>18. r = 4 + l + m
  BY <1>30, <1>26, <1>17
<1>19. PICK a \in Int : a = AsInt16(r) /\ a <= r /\ (r <= MaxInt16 => a = r)
  BY SizeAsInt16
<1>20. ParseFrame(p) =
         IF l \notin 1..a THEN [error |-> "kInvalidNameLen"]
         ELSE IF CreateMessage(name) = "none" THEN [error |-> "kUnknownMessageType"]
         ELSE [error |-> "kNoError", class |-> CreateMessage(name), name |-> name, body |-> body]
  BY <1>14, <1>15, <1>16, <1>17, <1>19, <1>27 DEF ParseFrame
<1>21. PICK f : f = ParseFrame(p)
  OBVIOUS
<1>22. ASSUME l \notin 1..a PROVE ParsedAs(f, name, body)
  <2>1. f.error = "kInvalidNameLen"
    BY <1>20, <1>21, <1>22
  <2>2. r > MaxInt16
    <3>1. a < r
      <4>1. a < l
        BY <1>2, <1>19, <1>22
      <4> QED
        BY <1>2, <1>18, <4>1
    <3>2. MaxInt16 \in Nat
      BY SMT DEF MaxInt16
    <3> QED
      BY <1>19, <3>1, <3>2
  <2> QED
    BY <1>30, <1>18, <2>1, <2>2 DEF ParsedAs
<1>23. ASSUME l \in 1..a /\ CreateMessage(name) = "none" PROVE ParsedAs(f, name, body)
  <2>1. f.error = "kUnknownMessageType"
    BY <1>20, <1>21, <1>23
  <2>2. name \notin Generated \cup Imported
    BY <1>23 DEF CreateMessage, CreateDynamicMessage
  <2> QED
    BY <2>1, <2>2 DEF ParsedAs
<1>24. ASSUME l \in 1..a /\ CreateMessage(name) # "none" PROVE ParsedAs(f, name, body)
  <2>1. f.error = "kNoError" /\ f.name = name /\ f.body = body
    BY <1>20, <1>21, <1>24
  <2> QED
    BY <2>1 DEF ParsedAs
<1>25. Len(p) = 6 + Len(name) + Len(body)
  BY <1>2, <1>8
<1> QED
  BY <1>8, <1>21, <1>22, <1>23, <1>24, <1>25

-----------------------------------------------------------------------------
(* The invariant of packets and messages                                    *)

GotValue == {a.value : a \in Argument} \cup {0}

PacketTypes ==
    /\ BufferOK(pb, PackByte)
    /\ argsPut \in Seq(Argument) /\ argsGot \in Seq(GotValue)
    /\ Len(argsGot) <= Len(argsPut) + 1

\* What was got is what was put, or 0 past the end.
GotRight ==
    \A i \in 1..Len(argsGot) : argsGot[i] = IF i <= Len(argsPut) THEN argsPut[i].value ELSE 0

\* The buffer holds the bytes of the arguments not got.
LeftRight ==
    packed = <<>> /\ refused = <<>> /\ Len(argsGot) <= Len(argsPut) =>
        StillIn(argsPut, Len(argsGot), Readable(pb))

RefusedRight ==
    refused # <<>> =>
        /\ packed = <<>> /\ Len(argsGot) < Len(argsPut)
        /\ refused[1] >= refused[2] \/ ReadableBytes(pb) > MaxInt16
        /\ \A f \in 1..Len(argsPut) : f = Len(argsGot) + 1 => refused[1] = Len(argsPut[f].value)

\* A message stands in the buffer as it was packed, or it was parsed.
MessageStands(name, body) ==
    \/ parsed.error = "unparsed" /\ Holds(pb, Laid(name, body))
    \/ parsed.error = "kNoError" /\ parsed.name = name /\ parsed.body = body /\ ReadableBytes(pb) = 0
    \/ parsed.error = "kUnknownMessageType" /\ name \notin Generated \cup Imported
    \/ parsed.error = "kInvalidNameLen" /\ 4 + Len(name) + Len(body) > MaxInt16

MessageRight ==
    \/ packed = <<>> /\ parsed.error = "unparsed"
    \/ /\ argsPut = <<>> /\ argsGot = <<>> /\ refused = <<>>
       /\ \E name \in TypeName, body \in Body :
             packed = <<[name |-> name, body |-> body]>> /\ MessageStands(name, body)

PacketInv == PacketTypes /\ GotRight /\ LeftRight /\ RefusedRight /\ MessageRight

\* What ArgumentsIntact says of a message.
ParsedRight ==
    /\ parsed.error \in {"unparsed", "kNoError", "kUnknownMessageType", "kInvalidNameLen"}
    /\ parsed.error = "kNoError" =>
          packed = <<[name |-> parsed.name, body |-> parsed.body]>> /\ ReadableBytes(pb) = 0
    /\ parsed.error = "kUnknownMessageType" => packed[1].name \notin Generated \cup Imported
    /\ parsed.error = "kInvalidNameLen" => 4 + Len(packed[1].name) + Len(packed[1].body) > MaxInt16

\* The invariant says what the run checks.
LEMMA ArgumentsAreIntact == PacketInv => ArgumentsIntact
<1>1. SUFFICES ASSUME PacketInv PROVE ArgumentsIntact
  OBVIOUS
<1>2. PacketTypes /\ GotRight /\ RefusedRight /\ MessageRight
  BY <1>1 DEF PacketInv
<1>3. PICK n \in Nat : n = Len(argsPut)
  BY <1>2 DEF PacketTypes
<1>4. PICK g \in Nat : g = Len(argsGot)
  BY <1>2 DEF PacketTypes
<1>5. DOMAIN argsGot = 1..g /\ DOMAIN argsPut = 1..n
  BY <1>2, <1>3, <1>4 DEF PacketTypes
<1>6. ASSUME NEW i \in DOMAIN argsGot
      PROVE  argsGot[i] = IF i \in DOMAIN argsPut THEN argsPut[i].value ELSE 0
  <2>1. i \in 1..g /\ i \in Int /\ (i \in 1..n <=> i <= n)
    BY <1>5
  <2> QED
    BY <1>2, <1>3, <1>4, <1>5, <2>1 DEF GotRight
<1>7. ASSUME refused # <<>>
      PROVE  /\ refused[1] >= refused[2] \/ ReadableBytes(pb) > MaxInt16
             /\ refused[1] = Len(argsPut[Len(argsGot) + 1].value)
  <2>1. PICK f \in Nat : f = g + 1
    OBVIOUS
  <2>2. f \in 1..n
    BY <1>2, <1>3, <1>4, <1>7, <2>1 DEF RefusedRight
  <2>3. refused[1] = Len(argsPut[f].value)
    BY <1>2, <1>3, <1>4, <1>7, <2>1, <2>2 DEF RefusedRight
  <2>4. refused[1] >= refused[2] \/ ReadableBytes(pb) > MaxInt16
    BY <1>2, <1>7 DEF RefusedRight
  <2> QED
    BY <1>4, <2>1, <2>3, <2>4
<1>8. ParsedRight
  <2>1. CASE packed = <<>> /\ parsed.error = "unparsed"
    BY <2>1 DEF ParsedRight
  <2>2. ASSUME NEW name \in TypeName, NEW body \in Body,
               packed = <<[name |-> name, body |-> body]>>, MessageStands(name, body)
        PROVE  ParsedRight
    <3>1. packed[1].name = name /\ packed[1].body = body
      BY <2>2
    <3> QED
      BY <2>2, <3>1 DEF MessageStands, ParsedRight
  <2> QED
    BY <1>2, <2>1, <2>2 DEF MessageRight
<1> QED
  BY <1>6, <1>7, <1>8 DEF ArgumentsIntact, ParsedRight

\* A new packet holds nothing.
LEMMA PacketStart == PacketInit => PacketInv
<1>1. SUFFICES ASSUME PacketInit PROVE PacketInv
  OBVIOUS
<1>2. /\ pb = NewBuffer /\ argsPut = <<>> /\ argsGot = <<>> /\ refused = <<>> /\ packed = <<>>
      /\ parsed.error = "unparsed"
  BY <1>1 DEF PacketInit
<1>3. BufferOK(pb, PackByte) /\ Holds(pb, <<>>)
  BY <1>2, PackByteThere, NewBufferIs
<1>4. Len(argsPut) = 0 /\ Len(argsGot) = 0
  BY <1>2
<1>5. PacketTypes
  BY <1>2, <1>3, <1>4 DEF PacketTypes
<1>6. GotRight
  BY <1>4 DEF GotRight
<1>7. LeftRight
  BY <1>2, <1>3, <1>4, StillInStart DEF LeftRight, Holds
<1>8. RefusedRight /\ MessageRight
  BY <1>2 DEF RefusedRight, MessageRight
<1> QED
  BY <1>5, <1>6, <1>7, <1>8 DEF PacketInv

\* An argument is put.
LEMMA PutInv ==
    ASSUME PacketInv, NEW a \in Argument, PutArgument(a)
    PROVE  PacketInv'
<1>1. PacketTypes /\ GotRight /\ LeftRight /\ RefusedRight /\ MessageRight
  BY DEF PacketInv
<1>2. /\ BufferOK(pb, PackByte) /\ argsPut \in Seq(Argument) /\ argsGot \in Seq(GotValue)
  BY <1>1 DEF PacketTypes
<1>3. /\ packed = <<>> /\ Len(argsGot) <= Len(argsPut) /\ argsPut' = Append(argsPut, a)
      /\ UNCHANGED <<argsGot, refused, packed, parsed>>
  BY DEF PutArgument
<1>4. PICK s : s = Readable(pb)
  OBVIOUS
<1>5. PICK e : e = Encoded(a)
  OBVIOUS
<1>6. e \in Seq(PackByte)
  BY <1>5, ArgumentsAre, EncodedIs
<1>7. s \in Seq(PackByte) /\ Len(s) \in Nat /\ ReadableBytes(pb) = Len(s) /\ Holds(pb, s)
  BY <1>2, <1>4, ManyReadable DEF Holds
<1>8. BufferOK(pb', PackByte) /\ Holds(pb', s \o e)
  BY <1>2, <1>5, <1>7, ArgumentPut
<1>9. PICK n \in Nat : n = Len(argsPut)
  BY <1>2
<1>10. PICK g \in Nat : g = Len(argsGot)
  BY <1>2
<1>11. PICK m \in Nat : m = n + 1
  OBVIOUS
<1>12. /\ argsPut' \in Seq(Argument) /\ Len(argsPut') = m /\ \A i \in 1..n : argsPut'[i] = argsPut[i]
  BY <1>2, <1>3, <1>9, <1>11
<1>13. g <= n
  BY <1>3, <1>9, <1>10
<1>14. PacketTypes'
  <2>1. Len(argsGot') = g /\ g <= m + 1
    BY <1>3, <1>10, <1>11, <1>13
  <2> QED
    BY <1>2, <1>3, <1>8, <1>12, <2>1 DEF PacketTypes
<1>15. GotRight'
  <2>1. ASSUME NEW i \in 1..g PROVE argsGot[i] = IF i <= m THEN argsPut'[i].value ELSE 0
    <3>1. i \in 1..n /\ i <= n /\ i <= m
      BY <1>11, <1>13
    <3> QED
      BY <1>1, <1>9, <1>10, <1>12, <3>1 DEF GotRight
  <2> QED
    BY <1>3, <1>10, <1>12, <2>1 DEF GotRight
<1>16. LeftRight'
  <2>1. SUFFICES ASSUME refused = <<>> PROVE StillIn(argsPut', g, Readable(pb'))
    BY <1>3, <1>10 DEF LeftRight
  <2>2. StillIn(argsPut, g, s)
    BY <1>1, <1>3, <1>4, <1>10, <2>1 DEF LeftRight
  <2>3. g \in 0..Len(argsPut)
    BY <1>9, <1>13
  <2>4. StillIn(argsPut', g, s \o e)
    BY <1>2, <1>3, <1>5, <2>2, <2>3, StillInMore
  <2> QED
    BY <1>8, <2>4 DEF Holds
<1>17. RefusedRight'
  <2>1. SUFFICES ASSUME refused # <<>> PROVE RefusedRight'
    BY <1>3 DEF RefusedRight
  <2>2. g < n /\ (refused[1] >= refused[2] \/ ReadableBytes(pb) > MaxInt16)
    BY <1>1, <1>9, <1>10, <2>1 DEF RefusedRight
  <2>3. refused[1] >= refused[2] \/ ReadableBytes(pb') > MaxInt16
    <3>1. PICK t : t = s \o e
      OBVIOUS
    <3>2. t \in Seq(PackByte) /\ Len(t) = Len(s) + Len(e)
      BY <1>6, <1>7, <3>1, PackJoined
    <3>3. ReadableBytes(pb') = Len(t)
      BY <1>8, <3>1, ManyReadable
    <3>4. Len(e) \in Nat /\ MaxInt16 \in Nat
      BY <1>6, SMT DEF MaxInt16
    <3> QED
      BY <1>7, <2>2, <3>2, <3>3, <3>4
  <2>4. ASSUME NEW f \in 1..m, f = g + 1 PROVE refused[1] = Len(argsPut'[f].value)
    <3>1. f \in 1..n
      BY <2>2, <2>4
    <3> QED
      BY <1>1, <1>9, <1>10, <1>12, <2>1, <2>4, <3>1 DEF RefusedRight
  <2>5. g < m
    BY <1>11, <2>2
  <2> QED
    BY <1>3, <1>10, <1>12, <2>3, <2>4, <2>5 DEF RefusedRight
<1>18. MessageRight'
  BY <1>1, <1>3 DEF MessageRight
<1> QED
  BY <1>14, <1>15, <1>16, <1>17, <1>18 DEF PacketInv

\* The next argument, what stands for it in the buffer, and what is behind.
NextIs(f, a, left) ==
    /\ f \in 1..Len(argsPut) /\ f = Len(argsGot) + 1
    /\ a = argsPut[f] /\ IsArgument(a) /\ left \in Seq(PackByte)
    /\ Holds(pb, Encoded(a) \o left) /\ StillIn(argsPut, f, left)

\* There is a next argument and its bytes come first.
LEMMA NextThere ==
    ASSUME PacketInv, packed = <<>>, refused = <<>>, Len(argsGot) < Len(argsPut)
    PROVE  \E f, a, left : NextIs(f, a, left)
<1>1. PacketTypes /\ LeftRight
  BY DEF PacketInv
<1>2. BufferOK(pb, PackByte) /\ argsPut \in Seq(Argument) /\ argsGot \in Seq(GotValue)
  BY <1>1 DEF PacketTypes
<1>3. PICK g \in Nat : g = Len(argsGot)
  BY <1>2
<1>4. PICK n \in Nat : n = Len(argsPut)
  BY <1>2
<1>5. PICK f \in Nat : f = g + 1
  OBVIOUS
<1>6. g < n /\ g <= n /\ f \in 1..n
  BY <1>3, <1>4, <1>5
<1>7. PICK s : s = Readable(pb)
  OBVIOUS
<1>8. StillIn(argsPut, g, s)
  BY <1>1, <1>3, <1>4, <1>6, <1>7 DEF LeftRight
<1>9. PICK left \in Seq(PackByte) : s = Encoded(argsPut[f]) \o left /\ StillIn(argsPut, f, left)
  BY <1>2, <1>4, <1>5, <1>6, <1>8, StillInNext
<1>10. argsPut[f] \in Argument
  BY <1>2, <1>4, <1>6
<1>11. NextIs(f, argsPut[f], left)
  BY <1>3, <1>4, <1>5, <1>6, <1>7, <1>9, <1>10, ArgumentsAre DEF NextIs, Holds
<1> QED
  BY <1>11

\* The next argument is got.
LEMMA GotInv ==
    ASSUME PacketInv, packed = <<>>, refused = <<>>, NEW f, NEW a, NEW left, NextIs(f, a, left),
           NEW r, Gives(r, a.value, left), Got(r)
    PROVE  PacketInv'
<1>1. PacketTypes /\ GotRight /\ MessageRight
  BY DEF PacketInv
<1>2. BufferOK(pb, PackByte) /\ argsPut \in Seq(Argument) /\ argsGot \in Seq(GotValue)
  BY <1>1 DEF PacketTypes
<1>3. /\ f \in 1..Len(argsPut) /\ f = Len(argsGot) + 1 /\ a = argsPut[f]
      /\ StillIn(argsPut, f, left)
  BY DEF NextIs
<1>4. PICK v : v = a.value
  OBVIOUS
<1>5. r.value = v /\ BufferOK(r.rest, PackByte) /\ Holds(r.rest, left)
  BY <1>4 DEF Gives
<1>6. /\ pb' = r.rest /\ argsGot' = Append(argsGot, v)
      /\ UNCHANGED <<argsPut, refused, packed, parsed>>
  BY <1>5 DEF Got
<1>7. PICK n \in Nat : n = Len(argsPut)
  BY <1>2
<1>8. a \in Argument
  BY <1>2, <1>3
<1>9. v \in GotValue
  BY <1>4, <1>8 DEF GotValue
<1>10. PICK g \in Nat : g = Len(argsGot)
  BY <1>2
<1>11. f \in Nat /\ f <= n /\ f = g + 1
  BY <1>3, <1>7, <1>10
<1>12. /\ argsGot' \in Seq(GotValue) /\ Len(argsGot') = f /\ argsGot'[f] = v
       /\ \A i \in 1..g : argsGot'[i] = argsGot[i]
  BY <1>2, <1>6, <1>9, <1>10, <1>11
<1>13. PacketTypes'
  <2>1. f <= n + 1
    BY <1>11
  <2> QED
    BY <1>2, <1>5, <1>6, <1>7, <1>12, <2>1 DEF PacketTypes
<1>14. GotRight'
  <2>1. ASSUME NEW i \in 1..f PROVE argsGot'[i] = IF i <= n THEN argsPut[i].value ELSE 0
    <3>1. CASE i = f
      BY <1>3, <1>4, <1>11, <1>12, <3>1
    <3>2. CASE i # f
      <4>1. i \in 1..g
        BY <1>11, <3>2
      <4> QED
        BY <1>1, <1>7, <1>10, <1>12, <4>1 DEF GotRight
    <3> QED
      BY <3>1, <3>2
  <2> QED
    BY <1>6, <1>7, <1>12, <2>1 DEF GotRight
<1>15. LeftRight'
  BY <1>3, <1>5, <1>6, <1>12 DEF LeftRight, Holds
<1>16. RefusedRight' /\ MessageRight'
  BY <1>1, <1>6 DEF RefusedRight, MessageRight
<1> QED
  BY <1>13, <1>14, <1>15, <1>16 DEF PacketInv

\* A number is got past the end.
LEMMA PastInv ==
    ASSUME PacketInv, packed = <<>>, refused = <<>>, Len(argsGot) = Len(argsPut),
           NEW r, r.value = 0, r.rest = pb, Got(r)
    PROVE  PacketInv'
<1>1. PacketTypes /\ GotRight /\ MessageRight
  BY DEF PacketInv
<1>2. BufferOK(pb, PackByte) /\ argsPut \in Seq(Argument) /\ argsGot \in Seq(GotValue)
  BY <1>1 DEF PacketTypes
<1>3. /\ pb' = pb /\ argsGot' = Append(argsGot, 0)
      /\ UNCHANGED <<argsPut, refused, packed, parsed>>
  BY DEF Got
<1>4. PICK n \in Nat : n = Len(argsPut) /\ n = Len(argsGot)
  BY <1>2
<1>5. PICK m \in Nat : m = n + 1
  OBVIOUS
<1>6. 0 \in GotValue
  BY DEF GotValue
<1>7. /\ argsGot' \in Seq(GotValue) /\ Len(argsGot') = m /\ argsGot'[m] = 0
      /\ \A i \in 1..n : argsGot'[i] = argsGot[i]
  BY <1>2, <1>3, <1>4, <1>5, <1>6
<1>8. PacketTypes'
  <2>1. Len(argsGot') <= Len(argsPut) + 1
    BY <1>4, <1>5, <1>7
  <2> QED
    BY <1>2, <1>3, <1>7, <2>1 DEF PacketTypes
<1>9. GotRight'
  <2>1. ASSUME NEW i \in 1..m PROVE argsGot'[i] = IF i <= n THEN argsPut[i].value ELSE 0
    <3>1. CASE i = m
      BY <1>5, <1>7, <3>1
    <3>2. CASE i # m
      <4>1. i \in 1..n
        BY <1>5, <3>2
      <4> QED
        BY <1>1, <1>4, <1>7, <4>1 DEF GotRight
    <3> QED
      BY <3>1, <3>2
  <2> QED
    BY <1>3, <1>4, <1>7, <2>1 DEF GotRight
<1>10. LeftRight'
  <2>1. ~(Len(argsGot') <= Len(argsPut'))
    BY <1>3, <1>4, <1>5, <1>7
  <2> QED
    BY <2>1 DEF LeftRight
<1>11. RefusedRight' /\ MessageRight'
  BY <1>1, <1>3 DEF RefusedRight, MessageRight
<1> QED
  BY <1>8, <1>9, <1>10, <1>11 DEF PacketInv

\* A number is got.
LEMMA NumberInv ==
    ASSUME PacketInv, GetNumber
    PROVE  PacketInv'
<1>1. packed = <<>> /\ refused = <<>> /\ Len(argsGot) <= Len(argsPut)
  BY DEF GetNumber
<1>2. PacketTypes /\ LeftRight
  BY DEF PacketInv
<1>3. BufferOK(pb, PackByte) /\ Len(argsGot) \in Nat /\ Len(argsPut) \in Nat
  BY <1>2 DEF PacketTypes
<1>4. \/ Wanted("int16") /\ Got(GetInt16(pb))
      \/ Wanted("int32") /\ Got(GetInt32(pb))
  BY DEF GetNumber
<1>5. CASE Len(argsGot) < Len(argsPut)
  <2>1. PICK f, a, left : NextIs(f, a, left)
    BY <1>1, <1>5, NextThere
  <2>2. IsArgument(a) /\ left \in Seq(PackByte) /\ Holds(pb, Encoded(a) \o left)
    BY <2>1 DEF NextIs
  <2>3. \A kind : Wanted(kind) => a.kind = kind
    BY <1>5, <2>1 DEF Wanted, NextIs
  <2>4. /\ a.kind = "int16" => Gives(GetInt16(pb), a.value, left)
        /\ a.kind = "int32" => Gives(GetInt32(pb), a.value, left)
    BY <1>3, <2>2, GetNumberIs
  <2>5. PICK r : Got(r) /\ Gives(r, a.value, left)
    BY <1>4, <2>3, <2>4
  <2> QED
    BY <1>1, <2>1, <2>5, GotInv
<1>6. CASE ~(Len(argsGot) < Len(argsPut))
  <2>1. Len(argsGot) = Len(argsPut)
    BY <1>1, <1>3, <1>6
  <2>2. StillIn(argsPut, Len(argsPut), Readable(pb))
    BY <1>1, <1>2, <2>1 DEF LeftRight
  <2>3. Holds(pb, <<>>)
    BY <2>2, StillInNone DEF Holds
  <2>4. PICK r : r = [value |-> 0, rest |-> pb]
    OBVIOUS
  <2>5. GetInt16(pb) = r /\ GetInt32(pb) = r
    BY <1>3, <2>3, <2>4, PastTheEnd
  <2>6. Got(r) /\ r.value = 0 /\ r.rest = pb
    BY <1>4, <2>4, <2>5
  <2> QED
    BY <1>1, <2>1, <2>6, PastInv
<1> QED
  BY <1>5, <1>6

\* A string is got or refused.
LEMMA StringInv ==
    ASSUME PacketInv, NEW room \in StringRoom, GetString(room)
    PROVE  PacketInv'
<1>1. packed = <<>> /\ refused = <<>> /\ Len(argsGot) < Len(argsPut) /\ Wanted("utf")
  BY DEF GetString
<1>2. PacketTypes /\ GotRight /\ MessageRight
  BY DEF PacketInv
<1>3. BufferOK(pb, PackByte) /\ argsPut \in Seq(Argument) /\ argsGot \in Seq(GotValue)
  BY <1>2 DEF PacketTypes
<1>4. PICK f, a, left : NextIs(f, a, left)
  BY <1>1, NextThere
<1>5. IsArgument(a) /\ left \in Seq(PackByte) /\ Holds(pb, Encoded(a) \o left)
  BY <1>4 DEF NextIs
<1>6. a.kind = "utf"
  BY <1>1, <1>4 DEF Wanted, NextIs
<1>7. room \in Nat
  BY PacketAssumption
<1>8. PICK r : r = GetUTF(pb, room)
  OBVIOUS
<1>9. PICK v : v = a.value
  OBVIOUS
<1>10. StringGot(r, v, left) \/ StringRefused(r, v, room)
  BY <1>3, <1>5, <1>6, <1>7, <1>8, <1>9, GetStringIs
<1>11. CASE StringGot(r, v, left)
  <2>1. Got(r) /\ Gives(r, a.value, left)
    BY <1>8, <1>9, <1>11 DEF GetString, StringGot
  <2> QED
    BY <1>1, <1>4, <2>1, GotInv
<1>12. CASE StringRefused(r, v, room)
  <2>1. /\ BufferOK(r.rest, PackByte) /\ r.size = Len(v) /\ ~r.ok
        /\ Len(v) >= room \/ ReadableBytes(r.rest) > MaxInt16
    BY <1>12 DEF StringRefused
  <2>2. /\ pb' = r.rest /\ refused' = <<r.size, room>>
        /\ UNCHANGED <<argsPut, argsGot, packed, parsed>>
    BY <1>8, <2>1 DEF GetString
  <2>3. refused'[1] = Len(v) /\ refused'[2] = room /\ refused' # <<>>
    BY <2>1, <2>2
  <2>4. PacketTypes'
    BY <1>2, <2>1, <2>2 DEF PacketTypes
  <2>5. GotRight'
    BY <1>2, <2>2 DEF GotRight
  <2>6. LeftRight'
    BY <2>3 DEF LeftRight
  <2>7. ASSUME NEW k \in 1..Len(argsPut), k = Len(argsGot) + 1
        PROVE  refused'[1] = Len(argsPut[k].value)
    BY <1>4, <1>9, <2>3, <2>7 DEF NextIs
  <2>8. refused'[1] >= refused'[2] \/ ReadableBytes(pb') > MaxInt16
    BY <2>1, <2>2, <2>3
  <2>9. RefusedRight'
    BY <1>1, <2>2, <2>7, <2>8 DEF RefusedRight
  <2>10. MessageRight'
    <3>1. packed = <<>> /\ parsed.error = "unparsed"
      BY <1>1, <1>2 DEF MessageRight
    <3> QED
      BY <2>2, <3>1 DEF MessageRight
  <2> QED
    BY <2>4, <2>5, <2>6, <2>9, <2>10 DEF PacketInv
<1> QED
  BY <1>10, <1>11, <1>12

\* A message is packed.
LEMMA PackInv ==
    ASSUME PacketInv, NEW name \in TypeName, NEW body \in Body, PackMessage(name, body)
    PROVE  PacketInv'
<1>1. PacketTypes /\ GotRight /\ RefusedRight /\ MessageRight
  BY DEF PacketInv
<1>2. /\ argsPut = <<>> /\ argsGot = <<>> /\ packed = <<>>
      /\ pb' = FillEmptyBuff(name, body) /\ packed' = <<[name |-> name, body |-> body]>>
      /\ UNCHANGED <<argsPut, argsGot, refused, parsed>>
  BY DEF PackMessage
<1>3. BufferOK(pb', PackByte) /\ Holds(pb', Laid(name, body))
  BY <1>2, FillIs
<1>4. refused = <<>>
  <2>1. Len(argsGot) = 0 /\ Len(argsPut) = 0
    BY <1>2
  <2> QED
    BY <1>1, <2>1 DEF RefusedRight
<1>5. parsed.error = "unparsed"
  BY <1>1, <1>2 DEF MessageRight
<1>6. PacketTypes' /\ GotRight'
  BY <1>1, <1>2, <1>3 DEF PacketTypes, GotRight
<1>7. packed' # <<>>
  BY <1>2
<1>8. LeftRight' /\ RefusedRight'
  BY <1>2, <1>4, <1>7 DEF LeftRight, RefusedRight
<1>9. MessageStands(name, body)'
  BY <1>2, <1>3, <1>5 DEF MessageStands
<1>10. MessageRight'
  BY <1>2, <1>4, <1>9 DEF MessageRight
<1> QED
  BY <1>6, <1>8, <1>10 DEF PacketInv

\* A message is parsed, or not.
LEMMA ParseInv ==
    ASSUME PacketInv, ParseMessage
    PROVE  PacketInv'
<1>1. PacketTypes /\ GotRight /\ RefusedRight /\ MessageRight
  BY DEF PacketInv
<1>2. packed # <<>> /\ parsed.error = "unparsed" /\ UNCHANGED <<argsPut, argsGot, refused, packed>>
  BY DEF ParseMessage
<1>3. PICK name \in TypeName, body \in Body :
         packed = <<[name |-> name, body |-> body]>> /\ MessageStands(name, body)
  BY <1>1, <1>2 DEF MessageRight
<1>4. argsPut = <<>> /\ argsGot = <<>> /\ refused = <<>>
  BY <1>1, <1>2 DEF MessageRight
<1>5. BufferOK(pb, PackByte) /\ Holds(pb, Laid(name, body))
  BY <1>1, <1>2, <1>3 DEF MessageStands, PacketTypes
<1>6. PICK p : p = Payload(name, body)
  OBVIOUS
<1>7. PICK l, m, e, c, o : IsMessage(name, body, l, m, e, c, o)
  BY MessageIs
<1>8. l \in Nat /\ m \in Nat /\ l = Len(name) /\ m = Len(body)
  BY <1>7 DEF IsMessage
<1>9. PICK k \in Nat : k = 6 + l + m
  BY <1>8
<1>10. p \in Seq(PackByte) /\ Len(p) = k /\ ParsedAs(ParseFrame(p), name, body)
  BY <1>6, <1>8, <1>9, ParseIs
<1>11. PICK h : h = BytesOf(k, 4)
  OBVIOUS
<1>12. IsNumber(k, 4, h)
  <2>1. PICK x \in Nat : x = MaxInt32
    BY SMT DEF MaxInt32
  <2>2. k <= x
    BY <1>8, <1>9, <2>1, PacketAssumption
  <2>3. k \in (-x - 1)..x
    BY <2>1, <2>2, Countable
  <2> QED
    BY <1>11, <2>1, <2>3 DEF IsNumber, IsInt32
<1>13. Holds(pb, h \o p)
  BY <1>5, <1>6, <1>8, <1>9, <1>11 DEF Laid
<1>14. PICK r : r = ReadInt(pb, 4)
  OBVIOUS
<1>15. PeekInt(pb, 4) = k
  BY <1>5, <1>10, <1>12, <1>13, <1>14, ReadIntIs
<1>16. PICK s : s = h \o p
  OBVIOUS
<1>17. h \in Seq(PackByte) /\ Len(h) = 4
  BY <1>12, NumberIs
<1>18. PICK n \in Nat : n = 4 + k
  OBVIOUS
<1>19. s \in Seq(PackByte) /\ Len(s) = n
  <2>1. s \in Seq(PackByte) /\ Len(s) = Len(h) + Len(p)
    BY <1>10, <1>16, <1>17, PackJoined
  <2> QED
    BY <1>10, <1>17, <1>18, <2>1
<1>20. SubSeq(Readable(pb), 5, n) = p
  <2>1. SplitAs(s, 4, h, p)
    BY <1>10, <1>16, <1>17, TakenApart
  <2>2. SubSeq(s, 4 + 1, n) = p
    BY <1>19, <2>1 DEF SplitAs, Behind
  <2>3. 4 + 1 = 5
    OBVIOUS
  <2> QED
    BY <1>13, <1>16, <2>2, <2>3 DEF Holds
<1>21. /\ parsed' = ParseFrame(p)
       /\ pb' = IF parsed'.error = "kNoError" THEN Retrieve(pb, n) ELSE pb
  BY <1>15, <1>18, <1>20 DEF ParseMessage
<1>22. PICK c2 : c2 = Retrieve(pb, n)
  OBVIOUS
<1>23. BufferOK(c2, PackByte) /\ Holds(c2, Behind(s, n))
  <2>1. Holds(pb, s) /\ n <= Len(s)
    BY <1>13, <1>16, <1>19
  <2> QED
    BY <1>5, <1>22, <2>1, RetrieveKeeps
<1>24. ReadableBytes(c2) = 0
  <2>1. PICK u : u = FirstOf(s, n)
    OBVIOUS
  <2>2. PICK q : q = Behind(s, n)
    OBVIOUS
  <2>3. q \in Seq(PackByte) /\ Parts(s, n, u, q)
    BY <1>19, <2>1, <2>2, SplitIs
  <2>4. Len(q) = 0
    BY <1>19, <2>3 DEF Parts
  <2> QED
    BY <1>23, <2>2, <2>4, ManyReadable
<1>25. BufferOK(pb', PackByte)
  BY <1>5, <1>21, <1>22, <1>23
<1>26. ParsedAs(parsed', name, body)
  BY <1>10, <1>21
<1>27. parsed'.error = "kNoError" => ReadableBytes(pb') = 0
  BY <1>21, <1>22, <1>24
<1>28. MessageStands(name, body)'
  BY <1>26, <1>27 DEF MessageStands, ParsedAs
<1>29. PacketTypes' /\ GotRight'
  BY <1>1, <1>2, <1>25 DEF PacketTypes, GotRight
<1>30. LeftRight' /\ RefusedRight'
  BY <1>2, <1>4 DEF LeftRight, RefusedRight
<1>31. MessageRight'
  BY <1>2, <1>3, <1>4, <1>28 DEF MessageRight
<1> QED
  BY <1>29, <1>30, <1>31 DEF PacketInv

\* Every step keeps the invariant.
LEMMA PacketStep == PacketInv /\ [PacketNext]_packetVars => PacketInv'
<1>1. SUFFICES ASSUME PacketInv, [PacketNext]_packetVars PROVE PacketInv'
  OBVIOUS
<1>2. CASE UNCHANGED packetVars
  BY <1>1, <1>2 DEF packetVars, PacketInv, PacketTypes, GotRight, LeftRight, RefusedRight,
                    MessageRight, MessageStands, ReadableBytes, Readable, Holds
<1>3. CASE \E a \in Argument : PutArgument(a)
  BY <1>1, <1>3, PutInv
<1>4. CASE GetNumber
  BY <1>1, <1>4, NumberInv
<1>5. CASE \E room \in StringRoom : GetString(room)
  BY <1>1, <1>5, StringInv
<1>6. CASE \E name \in TypeName, body \in Body : PackMessage(name, body)
  BY <1>1, <1>6, PackInv
<1>7. CASE ParseMessage
  BY <1>1, <1>7, ParseInv
<1> QED
  BY <1>1, <1>2, <1>3, <1>4, <1>5, <1>6, <1>7 DEF PacketNext

\* Frames and the arguments and messages in them come out as they went in, for every
\* argument, name and body that fits: BytesIntact holds in every behaviour of the two.
THEOREM BytesArrive == BytesSpec => []BytesIntact
<1>1. FrameInv /\ PacketInv => BytesIntact
  BY FramesAreIntact, ArgumentsAreIntact DEF BytesIntact
<1>2. FramingInit /\ PacketInit => FrameInv /\ PacketInv
  BY FramesStart, PacketStart
<1>3. ASSUME FrameInv /\ PacketInv,
             [\/ FramingNext /\ UNCHANGED packetVars
              \/ PacketNext /\ UNCHANGED framingVars]_<<framingVars, packetVars>>
      PROVE  FrameInv' /\ PacketInv'
  <2>1. [FramingNext]_framingVars /\ [PacketNext]_packetVars
    BY <1>3
  <2> QED
    BY <1>3, <2>1, FrameStep, PacketStep
<1> QED
  BY <1>1, <1>2, <1>3, PTL DEF BytesSpec

-----------------------------------------------------------------------------
(* The configuration file: the places of a line                             *)

Kinds == {"<", "nameless", "=", "value", "quote", ">", "#", "/*", "text", "*/"}

Tokens == [is : Kinds, n : CfgBlock \cup CfgName \cup CfgValue \cup {NoName}]

Docs == [block : CfgBlock \cup {NoName}, name : CfgName \cup {NoName}, comment : BOOLEAN,
         quote : BOOLEAN, bad : BOOLEAN, split : BOOLEAN]

\* A place of a line: where the author was, what it meant up to here, the token before,
\* and whether a value and a name stand before it in the line.
PlaceOK(e) ==
    /\ e.doc \in Docs /\ e.valued \in BOOLEAN /\ e.named \in BOOLEAN
    /\ e.doc.comment => ~e.doc.quote
    /\ e.doc.name # NoName => e.doc.block # NoName
    /\ e.doc.quote =>
         /\ e.doc.name # NoName
         /\ e.doc.name \in DOMAIN e.meant[e.doc.block]
         /\ e.meant[e.doc.block][e.doc.name] = "manyLines"
    /\ e.doc.block # NoName => e.doc.block \in DOMAIN e.meant
    /\ e.prev \in {"<", "value"} => e.doc.name = NoName /\ ~e.doc.comment /\ ~e.doc.quote
    /\ e.prev = "none" => ~e.valued /\ ~e.named

OpenAt(e) == ~e.doc.comment /\ ~e.doc.quote /\ e.prev \notin {"#", ">", "nameless"}
Late(e) == e.valued /\ ~e.named
MeansAt(e, v) == Put(e.meant, e.doc.block, Put(e.meant[e.doc.block], e.doc.name, v))

\* The token t between the places e and f.
IsBlock(t, e, f) ==
    /\ t.is = "<" /\ OpenAt(e) /\ e.doc.block = NoName /\ t.n \in CfgBlock
    /\ f.doc = [e.doc EXCEPT !.block = t.n] /\ f.meant = Put(e.meant, t.n, NoEntry)
IsNameless(t, e, f) ==
    /\ t.is = "nameless" /\ OpenAt(e) /\ e.doc.block = NoName
    /\ f.doc = [e.doc EXCEPT !.bad = TRUE] /\ f.meant = e.meant
IsName(t, e, f) ==
    /\ t.is = "=" /\ OpenAt(e) /\ e.doc.block # NoName /\ e.doc.name = NoName /\ t.n \in CfgName
    /\ f.doc = [e.doc EXCEPT !.name = t.n, !.split = @ \/ Late(e)] /\ f.meant = e.meant
IsValue(t, e, f) ==
    /\ t.is = "value" /\ OpenAt(e) /\ e.doc.name # NoName
    /\ f.doc = [e.doc EXCEPT !.name = NoName] /\ f.meant = MeansAt(e, t.n)
IsQuote(t, e, f) ==
    /\ t.is = "quote" /\ OpenAt(e) /\ e.doc.name # NoName
    /\ f.doc = [e.doc EXCEPT !.quote = TRUE] /\ f.meant = MeansAt(e, "manyLines")
IsUnquote(t, e, f) ==
    /\ t.is = "quote" /\ e.doc.quote /\ e.prev = "none"
    /\ f.doc = [e.doc EXCEPT !.quote = FALSE, !.name = NoName] /\ f.meant = e.meant
IsEnd(t, e, f) ==
    /\ t.is = ">" /\ OpenAt(e) /\ e.doc.block # NoName /\ e.doc.name = NoName
    /\ f.doc = [e.doc EXCEPT !.block = NoName] /\ f.meant = e.meant
IsHash(t, e, f) == t.is = "#" /\ OpenAt(e) /\ f.doc = e.doc /\ f.meant = e.meant
IsBegun(t, e, f) ==
    /\ t.is = "/*" /\ OpenAt(e) /\ e.prev \in {"none", "<", "value"}
    /\ f.doc = [e.doc EXCEPT !.comment = TRUE] /\ f.meant = e.meant
IsText(t, e, f) ==
    /\ t.is = "text" /\ (e.doc.comment \/ e.doc.quote) /\ e.prev = "none"
    /\ f.doc = e.doc /\ f.meant = e.meant
IsOver(t, e, f) ==
    /\ t.is = "*/" /\ e.doc.comment
    /\ f.doc = [e.doc EXCEPT !.comment = FALSE] /\ f.meant = e.meant

LeadsOver(t, e, f) ==
    /\ f.prev = t.is
    /\ f.valued = (e.valued \/ t.is = "value") /\ f.named = (e.named \/ t.is = "=")
    /\ \/ IsBlock(t, e, f) \/ IsNameless(t, e, f) \/ IsName(t, e, f) \/ IsValue(t, e, f)
       \/ IsQuote(t, e, f) \/ IsUnquote(t, e, f) \/ IsEnd(t, e, f) \/ IsHash(t, e, f)
       \/ IsBegun(t, e, f) \/ IsText(t, e, f) \/ IsOver(t, e, f)

\* E are the places of the line l.
Ahead(l, E) ==
    /\ l \in Seq(Tokens)
    /\ \A i \in 1 .. Len(l) : LeadsOver(l[i], E[i], E[i + 1])
    /\ \A i \in 1 .. Len(l) + 1 : PlaceOK(E[i])
    /\ \A i \in 1 .. Len(l) + 1 : E[i].doc.split => E[Len(l) + 1].doc.split

\* No block and no setting has the empty name, which stands for none.
LEMMA NoNames == NoName \notin CfgBlock /\ NoName \notin CfgName
BY ConfigFileAssumption

\* What Put changes, and what it leaves.
LEMMA PutIn ==
    ASSUME NEW g, NEW k, NEW v
    PROVE  k \in DOMAIN Put(g, k, v)
BY DEF Put

\* Put puts a value in its place.
LEMMA PutAt ==
    ASSUME NEW g, NEW k, NEW v
    PROVE  Put(g, k, v)[k] = v
BY DEF Put

\* Put leaves the other places alone.
LEMMA PutElse ==
    ASSUME NEW g, NEW k, NEW v, NEW x, x # k
    PROVE  /\ x \in DOMAIN Put(g, k, v) <=> x \in DOMAIN g
           /\ x \in DOMAIN g => Put(g, k, v)[x] = g[x]
BY DEF Put

\* A token leads from one place to another.
LEMMA StandsOn ==
    ASSUME NEW t, NEW e, NEW f, PlaceOK(e), LeadsOver(t, e, f)
    PROVE  PlaceOK(f) /\ (e.doc.split => f.doc.split)
<1> USE NoNames
<1>0. e.doc \in Docs
  BY DEF PlaceOK
<1>1. CASE IsBlock(t, e, f)
  <2>1. t.n \in DOMAIN f.meant /\ t.n \in CfgBlock
    <3>1. f.meant = Put(e.meant, t.n, NoEntry) /\ t.n \in CfgBlock
      BY <1>1 DEF IsBlock
    <3> QED
      BY <3>1, PutIn, Zenon
  <2>2. e.doc.block = NoName /\ e.doc.name = NoName /\ ~e.doc.comment /\ ~e.doc.quote
    BY <1>0, <1>1 DEF PlaceOK, IsBlock, OpenAt
  <2>3. /\ f.doc \in Docs /\ f.doc.block = t.n /\ f.doc.name = NoName /\ ~f.doc.comment
        /\ ~f.doc.quote /\ f.doc.split = e.doc.split
    BY <1>0, <1>1, <2>1, <2>2 DEF IsBlock, Docs
  <2> QED
    BY <2>1, <2>3, <1>1 DEF PlaceOK, LeadsOver, IsBlock
<1>2. CASE IsNameless(t, e, f)
  BY <1>0, <1>2 DEF PlaceOK, LeadsOver, IsNameless, Docs, OpenAt
<1>3. CASE IsName(t, e, f)
  BY <1>0, <1>3 DEF PlaceOK, LeadsOver, IsName, Docs, OpenAt, Late
<1>4. CASE IsValue(t, e, f)
  <2>1. e.doc.block \in DOMAIN f.meant
    <3> DEFINE g == Put(e.meant[e.doc.block], e.doc.name, t.n)
    <3>1. f.meant = Put(e.meant, e.doc.block, g)
      BY <1>4 DEF IsValue, MeansAt
    <3> HIDE DEF g
    <3> QED
      BY <3>1, PutIn, Zenon
  <2> QED
    BY <1>0, <1>4, <2>1 DEF PlaceOK, LeadsOver, IsValue, Docs, OpenAt
<1>5. CASE IsQuote(t, e, f)
  <2>1. /\ e.doc.block \in DOMAIN f.meant
        /\ e.doc.name \in DOMAIN f.meant[e.doc.block]
        /\ f.meant[e.doc.block][e.doc.name] = "manyLines"
    <3> DEFINE g == Put(e.meant[e.doc.block], e.doc.name, "manyLines")
    <3>1. f.meant = Put(e.meant, e.doc.block, g)
      BY <1>5 DEF IsQuote, MeansAt
    <3>2. e.doc.name \in DOMAIN g
      BY PutIn, Zenon
    <3>4. g[e.doc.name] = "manyLines"
      BY PutAt, SMT
    <3> HIDE DEF g
    <3>3. e.doc.block \in DOMAIN f.meant
      BY <3>1, PutIn, Zenon
    <3>5. f.meant[e.doc.block] = g
      BY <3>1, PutAt, SMT
    <3> QED
      BY <3>2, <3>3, <3>4, <3>5
  <2> QED
    BY <1>0, <1>5, <2>1 DEF PlaceOK, LeadsOver, IsQuote, Docs, OpenAt
<1>6. CASE IsUnquote(t, e, f)
  BY <1>0, <1>6 DEF PlaceOK, LeadsOver, IsUnquote, Docs
<1>7. CASE IsEnd(t, e, f)
  BY <1>0, <1>7 DEF PlaceOK, LeadsOver, IsEnd, Docs, OpenAt
<1>8. CASE IsHash(t, e, f)
  BY <1>0, <1>8 DEF PlaceOK, LeadsOver, IsHash, Docs, OpenAt
<1>9. CASE IsBegun(t, e, f)
  BY <1>0, <1>9 DEF PlaceOK, LeadsOver, IsBegun, Docs, OpenAt
<1>10. CASE IsText(t, e, f)
  BY <1>0, <1>10 DEF PlaceOK, LeadsOver, IsText, Docs
<1>11. CASE IsOver(t, e, f)
  BY <1>0, <1>11 DEF PlaceOK, LeadsOver, IsOver, Docs
<1> QED
  BY <1>1, <1>2, <1>3, <1>4, <1>5, <1>6, <1>7, <1>8, <1>9, <1>10, <1>11 DEF LeadsOver

\* Which token it is tells what it does.
LEMMA ByKind ==
    ASSUME NEW t, NEW e, NEW f, LeadsOver(t, e, f)
    PROVE  /\ t.is = "<" => IsBlock(t, e, f)
           /\ t.is = "nameless" => IsNameless(t, e, f)
           /\ t.is = "=" => IsName(t, e, f)
           /\ t.is = "value" => IsValue(t, e, f)
           /\ t.is = "quote" => IsQuote(t, e, f) \/ IsUnquote(t, e, f)
           /\ t.is = ">" => IsEnd(t, e, f)
           /\ t.is = "#" => IsHash(t, e, f)
           /\ t.is = "/*" => IsBegun(t, e, f)
           /\ t.is = "text" => IsText(t, e, f)
           /\ t.is = "*/" => IsOver(t, e, f)
BY DEF LeadsOver, IsBlock, IsNameless, IsName, IsValue, IsQuote, IsUnquote, IsEnd, IsHash, IsBegun,
       IsText, IsOver

\* Which tokens may stand at a place.
LEMMA MayStand ==
    ASSUME NEW t, NEW e, NEW f, PlaceOK(e), LeadsOver(t, e, f)
    PROVE  /\ e.doc.comment => t.is \in {"text", "*/"}
           /\ e.doc.quote => t.is \in {"text", "quote"} /\ e.prev = "none"
           /\ ~e.doc.comment /\ ~e.doc.quote =>
                /\ t.is = "/*" => e.prev \in {"none", "<", "value"}
                /\ e.doc.block = NoName => t.is \in {"<", "nameless", "#", "/*"}
                /\ e.doc.block # NoName /\ e.doc.name = NoName => t.is \in {"=", ">", "#", "/*"}
                /\ e.doc.name # NoName => t.is \in {"value", "quote", "#", "/*"}
           /\ t.is \in Kinds
<1>1. e.doc \in Docs /\ (e.doc.comment => ~e.doc.quote) /\ (e.doc.name # NoName => e.doc.block # NoName)
  BY DEF PlaceOK
<1> QED
  BY <1>1, NoNames DEF LeadsOver, IsBlock, IsNameless, IsName, IsValue, IsQuote, IsUnquote, IsEnd, IsHash, IsBegun,
       IsText, IsOver, OpenAt, Kinds

\* Nothing stands behind a token that closes the line.
LEMMA Closes ==
    ASSUME NEW t, NEW e, NEW f, NEW u, NEW g, PlaceOK(e), LeadsOver(t, e, f), LeadsOver(u, f, g),
           \/ t.is \in {"#", ">", "nameless"}
           \/ t.is = "quote" /\ ~e.doc.quote
           \/ t.is = "text" /\ e.doc.quote
    PROVE  FALSE
<1>1. e.doc \in Docs /\ PlaceOK(f) /\ f.doc \in Docs /\ f.prev = t.is
  BY StandsOn DEF PlaceOK, LeadsOver
<1>2. CASE t.is \in {"#", ">", "nameless"}
  <2>0. IsHash(t, e, f) \/ IsEnd(t, e, f) \/ IsNameless(t, e, f)
    BY <1>2, ByKind
  <2>1. ~f.doc.comment /\ ~f.doc.quote
    BY <1>1, <2>0 DEF IsHash, IsEnd, IsNameless, OpenAt, Docs
  <2>2. ~OpenAt(f)
    BY <1>1, <1>2 DEF OpenAt
  <2> QED
    BY <2>1, <2>2, <1>1 DEF LeadsOver, IsBlock, IsNameless, IsName, IsValue, IsQuote, IsUnquote, IsEnd, IsHash, IsBegun,
       IsText, IsOver
<1>3. CASE t.is = "quote" /\ ~e.doc.quote
  <2>0. IsQuote(t, e, f)
    BY <1>3, ByKind DEF IsUnquote
  <2>1. f.doc.quote
    BY <1>1, <2>0 DEF IsQuote, Docs
  <2> QED
    BY <1>1, <1>3, <2>1, MayStand
<1>4. CASE t.is = "text" /\ e.doc.quote
  <2>0. IsText(t, e, f)
    BY <1>4, ByKind
  <2>1. f.doc.quote
    BY <1>1, <1>4, <2>0 DEF IsText
  <2> QED
    BY <1>1, <1>4, <2>1, MayStand
<1> QED
  BY <1>2, <1>3, <1>4

-----------------------------------------------------------------------------
(* A line and what is left of it                                            *)

\* What it is to have a token.
LEMMA HasNot ==
    ASSUME NEW l \in Seq(Tokens), NEW is
    PROVE  HasToken(l, is) <=> \E i \in 1 .. Len(l) : l[i].is = is
BY DEF HasToken

Onward(E, k) == [i \in Nat |-> E[i + k]]

\* r and its places F are what is left of l and E behind k tokens.
IsRest(r, F, l, E, k) ==
    /\ Ahead(r, F) /\ r \in Seq(Tokens) /\ Len(r) = Len(l) - k
    /\ \A i \in 1 .. Len(l) - k : r[i] = l[i + k]
    /\ \A i \in Nat : F[i] = E[i + k]
    /\ F[1] = E[k + 1] /\ F[Len(r) + 1] = E[Len(l) + 1]
    /\ \A is : HasToken(r, is) => HasToken(l, is)

\* What is left of a line has what is left of its places.
LEMMA AheadOn ==
    ASSUME NEW l, NEW E, Ahead(l, E), NEW k \in 0 .. Len(l)
    PROVE  IsRest(LeftFrom(l, k + 1), Onward(E, k), l, E, k)
<1>1. l \in Seq(Tokens) /\ Len(l) \in Nat
  BY DEF Ahead
<1> DEFINE r == LeftFrom(l, k + 1)
<1> DEFINE F == Onward(E, k)
<1>2. r \in Seq(Tokens) /\ Len(r) = Len(l) - k /\ \A i \in 1 .. Len(l) - k : r[i] = l[i + k]
  BY <1>1 DEF LeftFrom
<1>3. \A i \in Nat : F[i] = E[i + k]
  BY DEF Onward
<1> HIDE DEF r, F
<1>4. \A i \in 1 .. Len(r) : LeadsOver(r[i], F[i], F[i + 1])
  <2> TAKE i \in 1 .. Len(r)
  <2>1. LeadsOver(l[i + k], E[i + k], E[i + k + 1])
    BY <1>1, <1>2 DEF Ahead
  <2>2. r[i] = l[i + k] /\ F[i] = E[i + k] /\ F[i + 1] = E[i + k + 1]
    <3>1. i \in Nat /\ i + 1 \in Nat /\ (i + 1) + k = i + k + 1 /\ i \in 1 .. Len(l) - k
      BY <1>1, <1>2
    <3>2. F[i] = E[i + k] /\ F[i + 1] = E[(i + 1) + k]
      BY <1>3, <3>1
    <3> QED
      BY <1>2, <3>1, <3>2
  <2> QED
    BY <2>1, <2>2
<1>5. \A i \in 1 .. Len(r) + 1 : PlaceOK(F[i]) /\ F[i] = E[i + k] /\ i + k \in 1 .. Len(l) + 1
  <2> TAKE i \in 1 .. Len(r) + 1
  <2>1. i \in Nat /\ i + k \in 1 .. Len(l) + 1
    BY <1>1, <1>2
  <2>2. F[i] = E[i + k] /\ PlaceOK(E[i + k])
    BY <1>3, <2>1 DEF Ahead
  <2> QED
    BY <2>1, <2>2
<1>6. F[Len(r) + 1] = E[Len(l) + 1]
  <2>1. Len(r) + 1 \in Nat /\ (Len(r) + 1) + k = Len(l) + 1
    BY <1>1, <1>2
  <2>2. F[Len(r) + 1] = E[(Len(r) + 1) + k]
    BY <1>3, <2>1
  <2> QED
    BY <2>1, <2>2
<1>7. \A i \in 1 .. Len(r) + 1 : F[i].doc.split => F[Len(r) + 1].doc.split
  BY <1>1, <1>5, <1>6 DEF Ahead
<1>8. Ahead(r, F)
  BY <1>2, <1>4, <1>5, <1>7 DEF Ahead
<1>9. 1 \in Nat /\ 1 + k = k + 1
  BY <1>1
<1>10. F[1] = E[k + 1]
  BY <1>3, <1>9
<1>11. \A is : HasToken(r, is) => HasToken(l, is)
  <2> SUFFICES ASSUME NEW is, HasToken(r, is) PROVE HasToken(l, is)
    OBVIOUS
  <2>1. PICK i \in 1 .. Len(r) : r[i].is = is
    BY <1>2, HasNot
  <2>2. i + k \in 1 .. Len(l) /\ i \in 1 .. Len(l) - k
    BY <1>1, <1>2
  <2>3. l[i + k].is = is
    BY <1>2, <2>1, <2>2
  <2> QED
    BY <1>1, <2>2, <2>3, HasNot
<1>12. IsRest(r, F, l, E, k)
  BY <1>2, <1>3, <1>6, <1>8, <1>10, <1>11 DEF IsRest
<1> QED
  BY <1>12 DEF r, F

\* The first token of a kind is where find finds it.
LEMMA IndexAt ==
    ASSUME NEW l \in Seq(Tokens), NEW is, NEW k \in 1 .. Len(l), l[k].is = is,
           \A j \in 1 .. k - 1 : l[j].is # is
    PROVE  IndexOf(l, is) = k /\ HasToken(l, is)
<1> DEFINE P(i) == i \in DOMAIN l /\ l[i].is = is /\ \A j \in 1 .. i - 1 : l[j].is # is
<1>1. P(k) /\ DOMAIN l = 1 .. Len(l) /\ Len(l) \in Nat
  OBVIOUS
<1>2. \A i : P(i) => i = k
  <2> SUFFICES ASSUME NEW i, P(i) PROVE i = k
    OBVIOUS
  <2>1. i \in 1 .. Len(l) /\ ~(k \in 1 .. i - 1) /\ ~(i \in 1 .. k - 1)
    BY <1>1
  <2> QED
    BY <2>1, <1>1
<1>3. IndexOf(l, is) = CHOOSE i \in DOMAIN l : l[i].is = is /\ \A j \in 1 .. i - 1 : l[j].is # is
  BY DEF IndexOf
<1>4. IndexOf(l, is) = k
  BY <1>1, <1>2, <1>3
<1> QED
  BY <1>1, <1>4 DEF HasToken

\* A token and its places.
LEMMA TokenAt ==
    ASSUME NEW l, NEW E, Ahead(l, E), NEW i \in 1 .. Len(l)
    PROVE  /\ LeadsOver(l[i], E[i], E[i + 1]) /\ PlaceOK(E[i]) /\ PlaceOK(E[i + 1])
           /\ E[i].doc \in Docs /\ E[i + 1].doc \in Docs
           /\ E[i + 1].prev = l[i].is /\ l[i] \in Tokens /\ l[i].is \in Kinds
<1>1. l \in Seq(Tokens) /\ Len(l) \in Nat /\ i \in 1 .. Len(l) + 1 /\ i + 1 \in 1 .. Len(l) + 1
  BY DEF Ahead
<1>2. LeadsOver(l[i], E[i], E[i + 1]) /\ PlaceOK(E[i]) /\ PlaceOK(E[i + 1])
  BY <1>1 DEF Ahead
<1>3. l[i] \in Tokens
  BY <1>1
<1>4. l[i].is \in Kinds
  BY <1>3 DEF Tokens
<1> QED
  BY <1>2, <1>3, <1>4 DEF PlaceOK, LeadsOver

\* The comment in front of a line is over at k.
OverAt(l, E, k) ==
    /\ IndexOf(l, "*/") = k /\ E[k + 1].prev = "*/"
    /\ E[k + 1].doc = [E[1].doc EXCEPT !.comment = FALSE]
    /\ E[k + 1].meant = E[1].meant
    /\ E[k + 1].valued = E[1].valued /\ E[k + 1].named = E[1].named

\* The comment in front of a line is taken away, or takes the line.
LEMMA CommentAway ==
    ASSUME NEW l, NEW E, Ahead(l, E), l # <<>>, E[1].doc.comment \/ l[1].is = "/*"
    PROVE  /\ ~E[1].doc.quote
           /\ HasToken(l, "*/") => \E k \in 1 .. Len(l) : OverAt(l, E, k)
           /\ ~HasToken(l, "*/") =>
                /\ E[Len(l) + 1].doc = [E[1].doc EXCEPT !.comment = TRUE]
                /\ E[Len(l) + 1].meant = E[1].meant
<1>1. l \in Seq(Tokens) /\ Len(l) \in Nat /\ Len(l) > 0 /\ 1 \in 1 .. Len(l)
  BY DEF Ahead
<1>2. LeadsOver(l[1], E[1], E[2]) /\ PlaceOK(E[1]) /\ PlaceOK(E[2]) /\ E[1].doc \in Docs
      /\ E[2].doc \in Docs /\ E[2].prev = l[1].is
  BY <1>1, TokenAt
<1>3. l[1].is = "/*" => IsBegun(l[1], E[1], E[2])
  BY <1>2, ByKind
<1>4. ~E[1].doc.quote
  BY <1>2, <1>3 DEF PlaceOK, IsBegun, OpenAt
<1>5. l[1].is \in {"/*", "text", "*/"}
  BY <1>2, MayStand
<1>6. /\ (E[2].valued <=> E[1].valued) /\ (E[2].named <=> E[1].named)
      /\ E[2].valued = E[1].valued /\ E[2].named = E[1].named
  BY <1>2, <1>5 DEF LeadsOver, PlaceOK
<1>7. CASE l[1].is = "*/"
  <2>1. IsOver(l[1], E[1], E[2])
    BY <1>2, <1>7, ByKind
  <2>2. IndexOf(l, "*/") = 1 /\ HasToken(l, "*/")
    BY <1>1, <1>7, IndexAt
  <2>3. 1 + 1 = 2 /\ OverAt(l, E, 1)
    BY <1>2, <1>6, <1>7, <2>1, <2>2 DEF IsOver, OverAt
  <2> QED
    BY <1>1, <1>4, <2>2, <2>3
<1>8. CASE l[1].is \in {"/*", "text"}
  <2>1. IsBegun(l[1], E[1], E[2]) \/ IsText(l[1], E[1], E[2])
    BY <1>2, <1>8, ByKind
  <2>2. E[2].doc = [E[1].doc EXCEPT !.comment = TRUE] /\ E[2].meant = E[1].meant /\ E[2].doc.comment
    <3>1. CASE IsBegun(l[1], E[1], E[2])
      BY <1>2, <3>1 DEF IsBegun, Docs
    <3>2. CASE IsText(l[1], E[1], E[2])
      <4>1. E[1].doc.comment
        BY <1>4, <3>2 DEF IsText
      <4>2. E[1].doc = [E[1].doc EXCEPT !.comment = TRUE]
        BY <1>2, <4>1 DEF Docs
      <4> QED
        BY <3>2, <4>1, <4>2 DEF IsText
    <3> QED
      BY <2>1, <3>1, <3>2
  <2>3. CASE Len(l) = 1
    <3>1. ~HasToken(l, "*/")
      BY <1>1, <1>8, <2>3, HasNot
    <3> QED
      BY <1>4, <2>2, <2>3, <3>1
  <2>4. CASE Len(l) > 1
    <3>1. 2 \in 1 .. Len(l)
      BY <1>1, <2>4
    <3>2. LeadsOver(l[2], E[2], E[3]) /\ E[3].doc \in Docs /\ E[3].prev = l[2].is /\ PlaceOK(E[3])
      BY <3>1, TokenAt
    <3>3. l[2].is \in {"text", "*/"}
      BY <1>2, <2>2, <3>2, MayStand
    <3>4. l[2].is # "text"
      BY <1>2, <1>8, <3>2, ByKind DEF IsText
    <3>5. IsOver(l[2], E[2], E[3]) /\ l[2].is = "*/"
      BY <3>2, <3>3, <3>4, ByKind
    <3>6. E[3].doc = [E[1].doc EXCEPT !.comment = FALSE] /\ E[3].meant = E[1].meant
      <4>1. E[3].doc = [E[2].doc EXCEPT !.comment = FALSE] /\ E[3].meant = E[2].meant
        BY <3>5 DEF IsOver
      <4>2. \A d \in Docs : [[d EXCEPT !.comment = TRUE] EXCEPT !.comment = FALSE] = [d EXCEPT !.comment = FALSE]
        BY DEF Docs
      <4>3. E[3].doc = [[E[1].doc EXCEPT !.comment = TRUE] EXCEPT !.comment = FALSE]
        BY <2>2, <4>1
      <4> QED
        BY <1>2, <2>2, <4>1, <4>2, <4>3
    <3>7. E[3].valued = E[1].valued /\ E[3].named = E[1].named
      BY <1>2, <1>6, <3>2, <3>5 DEF LeadsOver, PlaceOK
    <3>8. IndexOf(l, "*/") = 2 /\ HasToken(l, "*/")
      <4>1. \A j \in 1 .. 2 - 1 : l[j].is # "*/"
        BY <1>8
      <4> QED
        BY <1>1, <3>1, <3>5, <4>1, IndexAt
    <3>9. 2 + 1 = 3 /\ OverAt(l, E, 2)
      BY <3>2, <3>5, <3>6, <3>7, <3>8 DEF OverAt
    <3> QED
      BY <1>4, <3>1, <3>8, <3>9
  <2>5. Len(l) = 1 \/ Len(l) > 1
    <3>1. \A n \in Nat : n > 0 => n = 1 \/ n > 1
      OBVIOUS
    <3> QED
      BY <1>1, <3>1
  <2> QED
    BY <2>3, <2>4, <2>5
<1> QED
  BY <1>5, <1>7, <1>8

-----------------------------------------------------------------------------
(* What the parser has at a place                                           *)

\* The parser keeps of a setting what the author means, unless it is many lines.
Kept(n, map, mb) ==
    /\ Ahash(n) \in DOMAIN map <=> n \in DOMAIN mb
    /\ n \in DOMAIN mb /\ mb[n] # "manyLines" => map[Ahash(n)].AsString = mb[n]

StoredBlock(b, set, m) ==
    /\ Ahash(b) \in DOMAIN set <=> b \in DOMAIN m
    /\ b \in DOMAIN m => \A n \in CfgName : Kept(n, set[Ahash(b)], m[b])

\* The parser stands where the author was at the place e.
Follows(e, fl, cur, set) ==
    /\ fl \in [comment : BOOLEAN, quote : BOOLEAN, block : BOOLEAN]
    /\ fl.comment <=> e.doc.comment
    /\ fl.quote <=> e.doc.quote
    /\ fl.block <=> e.doc.block # NoName
    /\ cur = [block |-> e.doc.block, name |-> e.doc.name, map |-> cur.map]
    /\ ~e.doc.bad /\ ~e.doc.split
    /\ e.doc.block = NoName => cur.map = NoEntry
    /\ e.doc.block # NoName =>
         \A n \in CfgName : ~(e.doc.quote /\ n = e.doc.name) => Kept(n, cur.map, e.meant[e.doc.block])
    /\ \A b \in CfgBlock : b # e.doc.block => StoredBlock(b, set, e.meant)

\* What is kept of one name does not change what is kept of another.
LEMMA KeptBeside ==
    ASSUME NEW a \in CfgName, NEW n \in CfgName, a # n, NEW map, NEW mb, Kept(a, map, mb), NEW x, NEW v
    PROVE  /\ Kept(a, Put(map, Ahash(n), x), mb)
           /\ Kept(a, map, Put(mb, n, v))
           /\ Kept(a, Put(map, Ahash(n), x), Put(mb, n, v))
<1>1. Ahash(a) # Ahash(n)
  BY ConfigFileAssumption
<1> DEFINE h == Ahash(a)
<1> DEFINE p == Put(map, Ahash(n), x)
<1> DEFINE q == Put(mb, n, v)
<1>2. /\ h \in DOMAIN p <=> h \in DOMAIN map
      /\ h \in DOMAIN map => p[h] = map[h]
  BY <1>1, PutElse
<1>3. /\ a \in DOMAIN q <=> a \in DOMAIN mb
      /\ a \in DOMAIN mb => q[a] = mb[a]
  BY PutElse
<1>4. (h \in DOMAIN map <=> a \in DOMAIN mb) /\ (a \in DOMAIN mb /\ mb[a] # "manyLines" => map[h].AsString = mb[a])
  BY DEF Kept
<1> HIDE DEF p, q
<1>5. Kept(a, p, mb) /\ Kept(a, map, q) /\ Kept(a, p, q)
  BY <1>2, <1>3, <1>4 DEF Kept
<1> QED
  BY <1>5 DEF p, q

\* apply_setting keeps the text.
LEMMA Applied ==
    ASSUME NEW v
    PROVE  ApplySetting(v).AsString = v
BY DEF ApplySetting

\* A setting that is applied is kept, and so is any text for many lines.
LEMMA KeptNow ==
    ASSUME NEW n \in CfgName, NEW map, NEW mb, NEW v, NEW x
    PROVE  /\ Kept(n, Put(map, Ahash(n), ApplySetting(v)), Put(mb, n, v))
           /\ n \in DOMAIN mb /\ mb[n] = "manyLines" => Kept(n, Put(map, Ahash(n), x), mb)
<1>1. Ahash(n) \in DOMAIN Put(map, Ahash(n), ApplySetting(v)) /\ n \in DOMAIN Put(mb, n, v)
      /\ Ahash(n) \in DOMAIN Put(map, Ahash(n), x)
  BY PutIn, Zenon
<1>2. Put(map, Ahash(n), ApplySetting(v))[Ahash(n)] = ApplySetting(v) /\ Put(mb, n, v)[n] = v
  BY PutAt, SMT
<1>3. ApplySetting(v).AsString = v
  BY Applied
<1>4. Put(map, Ahash(n), ApplySetting(v))[Ahash(n)].AsString = Put(mb, n, v)[n]
  BY <1>2, <1>3
<1>5. Kept(n, Put(map, Ahash(n), ApplySetting(v)), Put(mb, n, v))
  BY <1>1, <1>4 DEF Kept
<1>6. n \in DOMAIN mb /\ mb[n] = "manyLines" => Kept(n, Put(map, Ahash(n), x), mb)
  BY <1>1 DEF Kept
<1> QED
  BY <1>5, <1>6

\* The same of blocks.
LEMMA StoredBeside ==
    ASSUME NEW b \in CfgBlock, NEW c \in CfgBlock, b # c, NEW set, NEW m, StoredBlock(b, set, m), NEW x, NEW v
    PROVE  /\ StoredBlock(b, Put(set, Ahash(c), x), m)
           /\ StoredBlock(b, set, Put(m, c, v))
<1>1. Ahash(b) # Ahash(c)
  BY ConfigFileAssumption
<1> DEFINE h == Ahash(b)
<1> DEFINE p == Put(set, Ahash(c), x)
<1> DEFINE q == Put(m, c, v)
<1>2. /\ h \in DOMAIN p <=> h \in DOMAIN set
      /\ h \in DOMAIN set => p[h] = set[h]
  BY <1>1, PutElse
<1>3. /\ b \in DOMAIN q <=> b \in DOMAIN m
      /\ b \in DOMAIN m => q[b] = m[b]
  BY PutElse
<1>4. (h \in DOMAIN set <=> b \in DOMAIN m) /\ (b \in DOMAIN m => \A n \in CfgName : Kept(n, set[h], m[b]))
  BY DEF StoredBlock
<1> HIDE DEF p, q
<1>5. StoredBlock(b, p, m)
  BY <1>2, <1>4 DEF StoredBlock
<1>6. StoredBlock(b, set, q)
  BY <1>3, <1>4 DEF StoredBlock
<1> QED
  BY <1>5, <1>6 DEF p, q

\* A block that is stored as it was kept is stored as it is meant.
LEMMA StoredNow ==
    ASSUME NEW c \in CfgBlock, NEW set, NEW m, NEW map, c \in DOMAIN m,
           \A n \in CfgName : Kept(n, map, m[c])
    PROVE  StoredBlock(c, Put(set, Ahash(c), map), m)
<1>1. Ahash(c) \in DOMAIN Put(set, Ahash(c), map)
  BY PutIn, Zenon
<1>2. Put(set, Ahash(c), map)[Ahash(c)] = map
  BY PutAt, SMT
<1> QED
  BY <1>1, <1>2 DEF StoredBlock

-----------------------------------------------------------------------------
(* The parser follows a token                                               *)

\* Nothing changed but the comment.
LEMMA FollowsComment ==
    ASSUME NEW e, NEW f, NEW fl, NEW cur, NEW set, NEW x \in BOOLEAN, Follows(e, fl, cur, set), PlaceOK(e),
           f.doc = [e.doc EXCEPT !.comment = x], f.meant = e.meant
    PROVE  Follows(f, [fl EXCEPT !.comment = x], cur, set)
<1>1. e.doc \in Docs
  BY DEF PlaceOK
<1>2. /\ f.doc.comment = x /\ f.doc.quote = e.doc.quote /\ f.doc.block = e.doc.block
      /\ f.doc.name = e.doc.name /\ f.doc.bad = e.doc.bad /\ f.doc.split = e.doc.split
  BY <1>1 DEF Docs
<1> QED
  BY <1>1, <1>2 DEF Follows

\* The parser that stands at one place stands at another that says the same.
LEMMA FollowsSame ==
    ASSUME NEW e, NEW f, NEW fl, NEW cur, NEW set, Follows(e, fl, cur, set), f.doc = e.doc, f.meant = e.meant
    PROVE  Follows(f, fl, cur, set)
BY DEF Follows

\* The parser takes the begin of a block.
LEMMA FollowsBlock ==
    ASSUME NEW t, NEW e, NEW f, NEW fl, NEW cur, NEW set, Follows(e, fl, cur, set), PlaceOK(e), IsBlock(t, e, f)
    PROVE  Follows(f, [fl EXCEPT !.block = TRUE], [cur EXCEPT !.block = t.n], set)
<1>1. e.doc \in Docs /\ e.doc.name = NoName /\ t.n \in CfgBlock /\ e.doc.block = NoName /\ t.n # NoName
  BY NoNames DEF PlaceOK, IsBlock
<1>2. /\ f.doc.comment = e.doc.comment /\ f.doc.quote = e.doc.quote /\ f.doc.block = t.n
      /\ f.doc.name = e.doc.name /\ f.doc.bad = e.doc.bad /\ f.doc.split = e.doc.split
  BY <1>1 DEF Docs, IsBlock
<1>3. f.meant = Put(e.meant, t.n, NoEntry)
  BY DEF IsBlock
<1>4. f.meant[t.n] = NoEntry
  BY <1>3, PutAt, SMT
<1>5. cur.map = NoEntry /\ DOMAIN NoEntry = {}
  BY <1>1 DEF Follows, NoEntry
<1>6. \A n \in CfgName : Kept(n, cur.map, f.meant[t.n])
  BY <1>4, <1>5 DEF Kept
<1>7. \A b \in CfgBlock : b # t.n => StoredBlock(b, set, f.meant)
  <2> TAKE b \in CfgBlock
  <2> HAVE b # t.n
  <2>1. StoredBlock(b, set, e.meant)
    BY <1>1, NoNames DEF Follows
  <2>2. StoredBlock(b, set, Put(e.meant, t.n, NoEntry))
    BY <1>1, <2>1, StoredBeside
  <2> QED
    BY <1>3, <2>2
<1>8. [cur EXCEPT !.block = t.n] = [block |-> t.n, name |-> e.doc.name, map |-> cur.map]
  BY DEF Follows
<1>9. [fl EXCEPT !.block = TRUE] \in [comment : BOOLEAN, quote : BOOLEAN, block : BOOLEAN]
      /\ [fl EXCEPT !.block = TRUE].comment = fl.comment /\ [fl EXCEPT !.block = TRUE].quote = fl.quote
      /\ [fl EXCEPT !.block = TRUE].block
  BY DEF Follows
<1> QED
  BY <1>1, <1>2, <1>6, <1>7, <1>8, <1>9 DEF Follows

\* The parser takes a name that is not late.
LEMMA FollowsName ==
    ASSUME NEW t, NEW e, NEW f, NEW fl, NEW cur, NEW set, Follows(e, fl, cur, set), PlaceOK(e), IsName(t, e, f),
           ~Late(e)
    PROVE  Follows(f, fl, [cur EXCEPT !.name = t.n], set)
<1>1. e.doc \in Docs /\ t.n \in CfgName /\ e.doc.block # NoName /\ ~e.doc.quote
  BY DEF PlaceOK, IsName, OpenAt
<1>2. /\ f.doc.comment = e.doc.comment /\ f.doc.quote = e.doc.quote /\ f.doc.block = e.doc.block
      /\ f.doc.name = t.n /\ f.doc.bad = e.doc.bad /\ ~f.doc.split /\ f.meant = e.meant
  BY <1>1 DEF Docs, IsName, Follows
<1>3. [cur EXCEPT !.name = t.n] = [block |-> e.doc.block, name |-> t.n, map |-> cur.map]
  BY DEF Follows
<1> QED
  BY <1>1, <1>2, <1>3 DEF Follows

\* The parser takes a quote that goes on: nothing is kept of the setting yet.
LEMMA FollowsQuote ==
    ASSUME NEW t, NEW e, NEW f, NEW fl, NEW cur, NEW set, Follows(e, fl, cur, set), PlaceOK(e), IsQuote(t, e, f)
    PROVE  Follows(f, [fl EXCEPT !.quote = TRUE], cur, set)
<1> DEFINE n == e.doc.name
<1> DEFINE c == e.doc.block
<1> DEFINE g == Put(e.meant[c], n, "manyLines")
<1>1. e.doc \in Docs /\ n \in CfgName /\ c \in CfgBlock /\ c # NoName /\ ~e.doc.quote
  BY DEF PlaceOK, IsQuote, OpenAt, Docs
<1>2. /\ f.doc.comment = e.doc.comment /\ f.doc.quote /\ f.doc.block = c
      /\ f.doc.name = n /\ f.doc.bad = e.doc.bad /\ f.doc.split = e.doc.split
  BY <1>1 DEF Docs, IsQuote
<1>3. f.meant = Put(e.meant, c, g)
  BY DEF IsQuote, MeansAt
<1>4. f.meant[c] = g
  BY <1>3, PutAt, SMT
<1>5. \A a \in CfgName : a # n => Kept(a, cur.map, f.meant[c])
  <2> TAKE a \in CfgName
  <2> HAVE a # n
  <2>1. Kept(a, cur.map, e.meant[c])
    BY <1>1 DEF Follows
  <2>2. Kept(a, cur.map, g)
    BY <1>1, <2>1, KeptBeside
  <2> QED
    BY <1>4, <2>2
<1> HIDE DEF g
<1>6. \A b \in CfgBlock : b # c => StoredBlock(b, set, f.meant)
  <2> TAKE b \in CfgBlock
  <2> HAVE b # c
  <2>1. StoredBlock(b, set, e.meant)
    BY DEF Follows
  <2>2. StoredBlock(b, set, Put(e.meant, c, g))
    BY <1>1, <2>1, StoredBeside
  <2> QED
    BY <1>3, <2>2
<1>7. [fl EXCEPT !.quote = TRUE] \in [comment : BOOLEAN, quote : BOOLEAN, block : BOOLEAN]
      /\ [fl EXCEPT !.quote = TRUE].comment = fl.comment /\ [fl EXCEPT !.quote = TRUE].quote
      /\ [fl EXCEPT !.quote = TRUE].block = fl.block
  BY DEF Follows
<1> QED
  BY <1>1, <1>2, <1>5, <1>6, <1>7 DEF Follows

\* What the parser has when it has taken a value.
LEMMA SettingIs ==
    ASSUME NEW e, NEW fl, NEW cur, NEW set, Follows(e, fl, cur, set), NEW v
    PROVE  WithSetting(cur, v) =
             [block |-> e.doc.block, name |-> NoName, map |-> Put(cur.map, Ahash(e.doc.name), ApplySetting(v))]
<1>1. cur.block = e.doc.block /\ cur.name = e.doc.name
  BY DEF Follows
<1> QED
  BY <1>1 DEF WithSetting

\* The parser takes a value, which it keeps for the name.
LEMMA FollowsValue ==
    ASSUME NEW t, NEW e, NEW f, NEW fl, NEW cur, NEW set, Follows(e, fl, cur, set), PlaceOK(e), IsValue(t, e, f)
    PROVE  Follows(f, fl, WithSetting(cur, t.n), set)
<1> DEFINE n == e.doc.name
<1> DEFINE c == e.doc.block
<1> DEFINE p == Put(cur.map, Ahash(n), ApplySetting(t.n))
<1> DEFINE g == Put(e.meant[c], n, t.n)
<1>1. e.doc \in Docs /\ n \in CfgName /\ c \in CfgBlock /\ c # NoName /\ ~e.doc.quote
  BY DEF PlaceOK, IsValue, OpenAt, Docs
<1>2. /\ f.doc.comment = e.doc.comment /\ f.doc.quote = e.doc.quote /\ f.doc.block = c
      /\ f.doc.name = NoName /\ f.doc.bad = e.doc.bad /\ f.doc.split = e.doc.split
  BY <1>1 DEF Docs, IsValue
<1>3. f.meant = Put(e.meant, c, g)
  BY DEF IsValue, MeansAt
<1>4. f.meant[c] = g
  BY <1>3, PutAt, SMT
<1>5. \A a \in CfgName : Kept(a, p, f.meant[c])
  <2> TAKE a \in CfgName
  <2>1. CASE a = n
    BY <1>1, <1>4, <2>1, KeptNow
  <2>2. CASE a # n
    <3>1. Kept(a, cur.map, e.meant[c])
      BY <1>1 DEF Follows
    <3>2. Kept(a, p, g)
      BY <1>1, <2>2, <3>1, KeptBeside
    <3> QED
      BY <1>4, <3>2
  <2> QED
    BY <2>1, <2>2
<1>6. \A b \in CfgBlock : b # c => StoredBlock(b, set, f.meant)
  <2> HIDE DEF g
  <2> TAKE b \in CfgBlock
  <2> HAVE b # c
  <2>1. StoredBlock(b, set, e.meant)
    BY DEF Follows
  <2>2. StoredBlock(b, set, Put(e.meant, c, g))
    BY <1>1, <2>1, StoredBeside
  <2> QED
    BY <1>3, <2>2
<1>7. WithSetting(cur, t.n) = [block |-> c, name |-> NoName, map |-> p]
  BY SettingIs
<1> HIDE DEF p, g
<1>8. WithSetting(cur, t.n) = [block |-> c, name |-> NoName, map |-> WithSetting(cur, t.n).map]
      /\ WithSetting(cur, t.n).map = p
  BY <1>7
<1> QED
  BY <1>1, <1>2, <1>5, <1>6, <1>8 DEF Follows

\* The parser takes the end of a quote that went on, and keeps other text.
LEMMA FollowsUnquote ==
    ASSUME NEW t, NEW e, NEW f, NEW fl, NEW cur, NEW set, Follows(e, fl, cur, set), PlaceOK(e), IsUnquote(t, e, f)
    PROVE  Follows(f, [fl EXCEPT !.quote = FALSE], WithSetting(cur, "otherText"), set)
<1> DEFINE n == e.doc.name
<1> DEFINE c == e.doc.block
<1> DEFINE p == Put(cur.map, Ahash(n), ApplySetting("otherText"))
<1>1. e.doc \in Docs /\ n \in CfgName /\ c \in CfgBlock /\ c # NoName /\ e.doc.quote
      /\ n \in DOMAIN e.meant[c] /\ e.meant[c][n] = "manyLines"
  BY DEF PlaceOK, IsUnquote, Docs
<1>2. /\ f.doc.comment = e.doc.comment /\ ~f.doc.quote /\ f.doc.block = c
      /\ f.doc.name = NoName /\ f.doc.bad = e.doc.bad /\ f.doc.split = e.doc.split /\ f.meant = e.meant
  BY <1>1 DEF Docs, IsUnquote
<1>5. \A a \in CfgName : Kept(a, p, f.meant[c])
  <2> TAKE a \in CfgName
  <2>1. CASE a = n
    BY <1>1, <1>2, <2>1, KeptNow
  <2>2. CASE a # n
    <3>1. Kept(a, cur.map, e.meant[c])
      BY <1>1, <2>2 DEF Follows
    <3>2. Kept(a, p, e.meant[c])
      BY <1>1, <2>2, <3>1, KeptBeside
    <3> QED
      BY <1>2, <3>2
  <2> QED
    BY <2>1, <2>2
<1>7. WithSetting(cur, "otherText") = [block |-> c, name |-> NoName, map |-> p]
  BY SettingIs
<1> HIDE DEF p
<1>8. WithSetting(cur, "otherText") = [block |-> c, name |-> NoName, map |-> WithSetting(cur, "otherText").map]
      /\ WithSetting(cur, "otherText").map = p
  BY <1>7
<1>9. [fl EXCEPT !.quote = FALSE] \in [comment : BOOLEAN, quote : BOOLEAN, block : BOOLEAN]
      /\ [fl EXCEPT !.quote = FALSE].comment = fl.comment /\ ~[fl EXCEPT !.quote = FALSE].quote
      /\ [fl EXCEPT !.quote = FALSE].block = fl.block
  BY DEF Follows
<1> QED
  BY <1>1, <1>2, <1>5, <1>8, <1>9 DEF Follows

\* The parser takes the end of a block, which it stores.
LEMMA FollowsEnd ==
    ASSUME NEW t, NEW e, NEW f, NEW fl, NEW cur, NEW set, Follows(e, fl, cur, set), PlaceOK(e), IsEnd(t, e, f)
    PROVE  Follows(f, [fl EXCEPT !.block = FALSE], [block |-> NoName, name |-> NoName, map |-> NoEntry],
                   Put(set, Ahash(cur.block), cur.map))
<1> DEFINE c == e.doc.block
<1> DEFINE p == Put(set, Ahash(cur.block), cur.map)
<1>1. e.doc \in Docs /\ c \in CfgBlock /\ c # NoName /\ ~e.doc.quote /\ c \in DOMAIN e.meant /\ e.doc.name = NoName
  BY DEF PlaceOK, IsEnd, OpenAt, Docs
<1>2. /\ f.doc.comment = e.doc.comment /\ f.doc.quote = e.doc.quote /\ f.doc.block = NoName
      /\ f.doc.name = NoName /\ f.doc.bad = e.doc.bad /\ f.doc.split = e.doc.split /\ f.meant = e.meant
  BY <1>1 DEF Docs, IsEnd
<1>3. cur.block = c
  BY DEF Follows
<1>4. \A b \in CfgBlock : StoredBlock(b, p, f.meant)
  <2> TAKE b \in CfgBlock
  <2>1. CASE b = c
    <3>1. \A n \in CfgName : Kept(n, cur.map, e.meant[c])
      BY <1>1 DEF Follows
    <3> QED
      BY <1>1, <1>2, <1>3, <2>1, <3>1, StoredNow
  <2>2. CASE b # c
    <3>1. StoredBlock(b, set, e.meant)
      BY <2>2 DEF Follows
    <3> QED
      BY <1>1, <1>2, <1>3, <2>2, <3>1, StoredBeside
  <2> QED
    BY <2>1, <2>2
<1> DEFINE d == [block |-> NoName, name |-> NoName, map |-> NoEntry]
<1>5. d = [block |-> f.doc.block, name |-> f.doc.name, map |-> d.map] /\ d.map = NoEntry
  BY <1>2
<1>6. [fl EXCEPT !.block = FALSE] \in [comment : BOOLEAN, quote : BOOLEAN, block : BOOLEAN]
      /\ [fl EXCEPT !.block = FALSE].comment = fl.comment /\ [fl EXCEPT !.block = FALSE].quote = fl.quote
      /\ ~[fl EXCEPT !.block = FALSE].block
  BY DEF Follows
<1> HIDE DEF p, d
<1>7. Follows(f, [fl EXCEPT !.block = FALSE], d, p)
  BY <1>1, <1>2, <1>4, <1>5, <1>6 DEF Follows
<1> QED
  BY <1>7 DEF d, p

-----------------------------------------------------------------------------
(* The invariant                                                            *)

\* E are places of the line l up to where the author is.
ReachesAuthor(l, E) == Ahead(l, E) /\ E[Len(l) + 1].doc = doc /\ E[Len(l) + 1].meant = meant

\* The parser stands at the first of the places of what is left of the line, and has no
\* name before it that is late; between lines the places are those of the line.
Reads(E) ==
    /\ ReachesAuthor(line, E)
    /\ Follows(E[1], flags, current, settings)
    /\ E[1].prev \in {"none", "<", "value"}
    /\ Late(E[1]) => ~HasToken(line, "=")
    /\ reading => line # <<>>
    /\ ~reading => /\ E[1].prev = "none" /\ E[Len(line) + 1].prev = LastToken
                   /\ E[Len(line) + 1].named = HasToken(line, "=")
                   /\ E[Len(line) + 1].valued = HasToken(line, "value")

\* While a file is read the parser has the way to the author before it; then it has
\* read what is meant.
CfgInv ==
    /\ reading \in BOOLEAN
    /\ outcome = "none" => \E E : Reads(E)
    /\ outcome # "none" => ~reading /\ SettingsAsMeant

\* The next line begins.
LEMMA LineEnds ==
    ASSUME NEW e, PlaceOK(e), e.doc = doc, e.meant = meant, NextLine, outcome = "none", outcome' = outcome,
           Follows(e, flags', current', settings')
    PROVE  CfgInv'
<1> DEFINE g == [doc |-> e.doc, meant |-> e.meant, prev |-> "none", valued |-> FALSE, named |-> FALSE]
<1> DEFINE F == [i \in Nat |-> g]
<1>1. line' = <<>> /\ reading' = FALSE /\ doc' = doc /\ meant' = meant
  BY DEF NextLine, Parsed
<1>2. /\ g.doc = e.doc /\ g.meant = e.meant /\ g.prev = "none" /\ g.valued = FALSE /\ g.named = FALSE
      /\ g.doc = doc /\ g.meant = meant
  OBVIOUS
<1> HIDE DEF g
<1>3. PlaceOK(g)
  BY <1>2 DEF PlaceOK
<1>4. Follows(g, flags', current', settings')
  BY <1>2, FollowsSame
<1>5. F[1] = g
  OBVIOUS
<1>6. Len(<<>>) = 0 /\ <<>> \in Seq(Tokens) /\ 1 .. 0 = {} /\ 0 + 1 = 1 /\ 1 .. 1 = {1}
  OBVIOUS
<1> HIDE DEF F
<1>7. Ahead(<<>>, F)
  BY <1>3, <1>5, <1>6 DEF Ahead
<1>8. F[Len(<<>>) + 1] = g
  BY <1>5, <1>6
<1>9. HasToken(<<>>, "=") = FALSE /\ HasToken(<<>>, "value") = FALSE
  BY <1>6 DEF HasToken
<1>10. LastToken' = "none"
  BY <1>1 DEF LastToken
<1>11. ReachesAuthor(line, F)'
  BY <1>1, <1>2, <1>7, <1>8 DEF ReachesAuthor
<1>12. F[Len(line') + 1] = g
  BY <1>1, <1>8
<1>13. ~Late(F[1])
  BY <1>2, <1>5 DEF Late
<1>14. HasToken(line, "=")' = FALSE /\ HasToken(line, "value")' = FALSE
  BY <1>1, <1>9
<1>15. Reads(F)'
  BY <1>1, <1>2, <1>4, <1>5, <1>10, <1>11, <1>12, <1>13, <1>14 DEF Reads
<1> QED
  BY <1>1, <1>15 DEF CfgInv

\* The pass goes on with what is left of the line.
LEMMA GoesOn ==
    ASSUME NEW l, NEW E, ReachesAuthor(l, E), NEW k \in 0 .. Len(l), Parsed(LeftFrom(l, k + 1)),
           outcome = "none", outcome' = outcome, Follows(E[k + 1], flags', current', settings'),
           E[k + 1].prev \in {"<", "value"}, Late(E[k + 1]) => ~HasToken(LeftFrom(l, k + 1), "=")
    PROVE  CfgInv'
<1> DEFINE r == LeftFrom(l, k + 1)
<1> DEFINE F == Onward(E, k)
<1>1. IsRest(r, F, l, E, k)
  BY AheadOn DEF ReachesAuthor
<1>2. line' = r /\ reading' = (r # <<>>) /\ doc' = doc /\ meant' = meant
  BY DEF Parsed
<1> HIDE DEF r, F
<1>4. F[1] = E[k + 1]
  BY <1>1 DEF IsRest
<1>5. CASE r = <<>>
  <2>1. Len(r) + 1 = 1 /\ Len(r) \in Nat
    BY <1>5
  <2>2. F[1] = E[Len(l) + 1] /\ Ahead(r, F)
    BY <1>1, <2>1 DEF IsRest
  <2>4. PlaceOK(F[1])
    BY <2>1, <2>2 DEF Ahead
  <2>3. NextLine
    BY <1>5 DEF NextLine, r
  <2> QED
    BY <1>4, <2>2, <2>3, <2>4, LineEnds DEF ReachesAuthor
<1>6. CASE r # <<>>
  <2>1. Reads(F)'
    BY <1>1, <1>2, <1>4, <1>6 DEF Reads, ReachesAuthor, IsRest, r
  <2> QED
    BY <1>2, <1>6, <2>1 DEF CfgInv
<1> QED
  BY <1>5, <1>6

-----------------------------------------------------------------------------
(* A pass                                                                   *)

\* What is left of a line behind the comment in front.
BehindComment(u, U) ==
    /\ ReachesAuthor(u, U) /\ Follows(U[1], AfterComment, current, settings)
    /\ ~U[1].doc.comment
    /\ Late(U[1]) => ~HasToken(u, "=")
    /\ U[1].doc.name # NoName => ~U[1].named /\ ~U[1].valued
    /\ u # <<>> => u[1].is # "/*"

\* The comment in front is taken away.
LEMMA Cleared ==
    ASSUME NEW E, Reads(E), Passes
    PROVE  \E U : BehindComment(Uncommented, U)
<1>1. /\ reading /\ line # <<>> /\ Ahead(line, E) /\ line \in Seq(Tokens) /\ Len(line) \in Nat
      /\ E[Len(line) + 1].doc = doc /\ E[Len(line) + 1].meant = meant
  BY DEF Reads, ReachesAuthor, Passes, Ahead
<1>2. 1 \in 1 .. Len(line)
  BY <1>1
<1>3. PlaceOK(E[1]) /\ E[1].doc \in Docs /\ LeadsOver(line[1], E[1], E[2])
  BY <1>1, <1>2, TokenAt
<1>4. E[1].doc.name # NoName => ~E[1].named /\ ~E[1].valued
  BY <1>3 DEF PlaceOK, Reads
<1>5. flags.comment <=> E[1].doc.comment
  BY DEF Reads, Follows
<1>6. CASE Commented
  <2>1. HasToken(line, "*/")
    BY <1>6 DEF Passes, CommentGoesOn
  <2>2. E[1].doc.comment \/ line[1].is = "/*"
    BY <1>5, <1>6 DEF Commented
  <2>3. ~E[1].doc.quote /\ \E k \in 1 .. Len(line) : OverAt(line, E, k)
    BY <1>1, <2>1, <2>2, CommentAway
  <2>4. PICK k \in 1 .. Len(line) : OverAt(line, E, k)
    BY <2>3
  <2> DEFINE u == LeftFrom(line, k + 1)
  <2> DEFINE U == Onward(E, k)
  <2>6. IsRest(u, U, line, E, k)
    BY <1>1, AheadOn
  <2>7. Uncommented = u
    BY <1>6, <2>1, <2>4 DEF Uncommented, OverAt
  <2> HIDE DEF u, U
  <2>8. U[1] = E[k + 1] /\ Ahead(u, U) /\ u \in Seq(Tokens)
    BY <2>6 DEF IsRest
  <2>9. /\ ~U[1].doc.comment /\ U[1].doc.name = E[1].doc.name /\ ~U[1].doc.quote
    BY <1>3, <2>3, <2>4, <2>8 DEF Docs, OverAt
  <2>10. Follows(U[1], AfterComment, current, settings)
    BY <1>3, <2>4, <2>8, FollowsComment DEF Reads, AfterComment, OverAt
  <2>11. Late(U[1]) => ~HasToken(u, "=")
    <3> SUFFICES ASSUME Late(U[1]), HasToken(u, "=") PROVE FALSE
      OBVIOUS
    <3>1. Late(E[1])
      BY <2>4, <2>8 DEF Late, OverAt
    <3>4. HasToken(line, "=")
      BY <2>6 DEF IsRest
    <3> QED
      BY <3>1, <3>4 DEF Reads
  <2>12. u # <<>> => u[1].is # "/*"
    <3> SUFFICES ASSUME u # <<>>, u[1].is = "/*" PROVE FALSE
      OBVIOUS
    <3>1. 1 \in 1 .. Len(u)
      BY <2>8
    <3>2. LeadsOver(u[1], U[1], U[2])
      BY <2>8, <3>1, TokenAt
    <3>3. IsBegun(u[1], U[1], U[2])
      BY <3>2, ByKind
    <3> QED
      BY <2>4, <2>8, <3>3 DEF IsBegun, OverAt
  <2>13. BehindComment(u, U)
    BY <1>1, <1>4, <2>4, <2>6, <2>8, <2>9, <2>10, <2>11, <2>12 DEF BehindComment, ReachesAuthor, IsRest, OverAt
  <2> QED
    BY <2>7, <2>13
<1>7. CASE ~Commented
  <2>1. ~E[1].doc.comment /\ line[1].is # "/*"
    BY <1>5, <1>7 DEF Commented
  <2>2. E[1].doc = [E[1].doc EXCEPT !.comment = FALSE]
    BY <1>3, <2>1 DEF Docs
  <2>3. Follows(E[1], AfterComment, current, settings)
    BY <1>3, <2>2, FollowsComment DEF Reads, AfterComment
  <2>4. Uncommented = line
    BY <1>7 DEF Uncommented
  <2>5. BehindComment(line, E)
    BY <1>4, <2>1, <2>3 DEF BehindComment, Reads
  <2> QED
    BY <2>4, <2>5
<1> QED
  BY <1>6, <1>7

\* The first token is found first; a single token is the only one found.
LEMMA FirstFound ==
    ASSUME NEW l \in Seq(Tokens), l # <<>>
    PROVE  /\ 1 \in 1 .. Len(l) /\ Len(l) \in Nat
           /\ HasToken(l, l[1].is) /\ IndexOf(l, l[1].is) = 1
           /\ Len(l) = 1 => \A is : HasToken(l, is) => l[1].is = is
<1>1. Len(l) \in Nat /\ 1 \in 1 .. Len(l)
  OBVIOUS
<1>2. HasToken(l, l[1].is) /\ IndexOf(l, l[1].is) = 1
  <2>1. \A j \in 1 .. 1 - 1 : l[j].is # l[1].is
    OBVIOUS
  <2> QED
    BY <1>1, <2>1, IndexAt
<1>3. ASSUME Len(l) = 1 PROVE \A is : HasToken(l, is) => l[1].is = is
  <2>1. \A i \in 1 .. Len(l) : i = 1
    BY <1>3
  <2> QED
    BY <2>1, HasNot
<1> QED
  BY <1>1, <1>2, <1>3

\* A token that closes the line is the last.
LEMMA IsLast ==
    ASSUME NEW l, NEW E, Ahead(l, E), l # <<>>,
           \/ l[1].is \in {"#", ">", "nameless"}
           \/ l[1].is = "quote" /\ ~E[1].doc.quote
           \/ l[1].is = "text" /\ E[1].doc.quote
    PROVE  Len(l) = 1
<1>1. l \in Seq(Tokens) /\ Len(l) \in Nat /\ 1 \in 1 .. Len(l)
  BY DEF Ahead
<1>2. ASSUME 2 \in 1 .. Len(l) PROVE FALSE
  <2>1. LeadsOver(l[1], E[1], E[2]) /\ PlaceOK(E[1]) /\ LeadsOver(l[2], E[2], E[3])
    BY <1>1, <1>2, TokenAt
  <2> QED
    BY <2>1, Closes
<1>3. \A n \in Nat : 1 \in 1 .. n /\ 2 \notin 1 .. n => n = 1
  OBVIOUS
<1> QED
  BY <1>1, <1>2, <1>3

\* What a line can begin with outside of comments and quotes, and in a quote.
LEMMA FirstOpen ==
    ASSUME NEW l, NEW E, Ahead(l, E), l # <<>>, ~E[1].doc.comment, ~E[1].doc.quote, l[1].is # "/*"
    PROVE  /\ E[1].doc.block = NoName =>
                l[1].is = "<" \/ (Len(l) = 1 /\ l[1].is \in {"nameless", "#"})
           /\ E[1].doc.block # NoName /\ E[1].doc.name = NoName =>
                l[1].is = "=" \/ (Len(l) = 1 /\ l[1].is \in {">", "#"})
           /\ E[1].doc.name # NoName =>
                l[1].is = "value" \/ (Len(l) = 1 /\ l[1].is \in {"quote", "#"})
<1>1. l \in Seq(Tokens) /\ 1 \in 1 .. Len(l)
  BY DEF Ahead
<1>2. LeadsOver(l[1], E[1], E[2]) /\ PlaceOK(E[1])
  BY <1>1, TokenAt
<1>3. /\ E[1].doc.block = NoName => l[1].is \in {"<", "nameless", "#"}
      /\ E[1].doc.block # NoName /\ E[1].doc.name = NoName => l[1].is \in {"=", ">", "#"}
      /\ E[1].doc.name # NoName => l[1].is \in {"value", "quote", "#"}
  BY <1>2, MayStand
<1>4. l[1].is \in {"#", ">", "nameless", "quote"} => Len(l) = 1
  BY IsLast
<1> QED
  BY <1>3, <1>4

\* In a quote that goes on, a line is its end or one text.
LEMMA FirstQuote ==
    ASSUME NEW l, NEW E, Ahead(l, E), l # <<>>, E[1].doc.quote
    PROVE  \/ l[1].is = "quote" /\ IsUnquote(l[1], E[1], E[2])
           \/ l[1].is = "text" /\ Len(l) = 1
<1>1. l \in Seq(Tokens) /\ 1 \in 1 .. Len(l)
  BY DEF Ahead
<1>2. LeadsOver(l[1], E[1], E[2]) /\ PlaceOK(E[1])
  BY <1>1, TokenAt
<1>3. l[1].is \in {"text", "quote"}
  BY <1>2, MayStand
<1>4. l[1].is = "quote" => IsUnquote(l[1], E[1], E[2])
  BY <1>2, ByKind DEF IsQuote, OpenAt
<1>5. l[1].is = "text" => Len(l) = 1
  BY IsLast
<1> QED
  BY <1>3, <1>4, <1>5

\* What is left of a line in a block behind the quote that went on.
BehindQuote(r, R) ==
    /\ ReachesAuthor(r, R) /\ Follows(R[1], FlagsNow, CurrentNow, settings)
    /\ ~R[1].doc.comment /\ ~R[1].doc.quote /\ R[1].doc.block # NoName
    /\ Late(R[1]) => ~HasToken(r, "=")
    /\ R[1].doc.name # NoName => ~R[1].named /\ ~R[1].valued
    /\ r # <<>> => r[1].is # "/*"

\* The quote that went on is taken away.
LEMMA Unquoted ==
    ASSUME NEW U, BehindComment(Uncommented, U), flags.block, Quotes, flags \in [comment : BOOLEAN, quote : BOOLEAN, block : BOOLEAN]
    PROVE  \E R : BehindQuote(Requoted, R)
<1> DEFINE u == Uncommented
<1>1. Ahead(u, U) /\ u \in Seq(Tokens) /\ Len(u) \in Nat /\ Follows(U[1], AfterComment, current, settings)
  BY DEF BehindComment, ReachesAuthor, Ahead
<1>2. AfterComment.quote = flags.quote /\ AfterComment.block = flags.block
  BY DEF AfterComment
<1>3. (U[1].doc.quote <=> flags.quote) /\ U[1].doc.block # NoName
  BY <1>1, <1>2 DEF Follows
<1>4. ~U[1].doc.comment /\ (Late(U[1]) => ~HasToken(u, "=")) /\ (u # <<>> => u[1].is # "/*")
      /\ (U[1].doc.name # NoName => ~U[1].named /\ ~U[1].valued)
      /\ U[Len(u) + 1].doc = doc /\ U[Len(u) + 1].meant = meant
  BY DEF BehindComment, ReachesAuthor
<1> HIDE DEF u
<1>5. CASE flags.quote
  <2>1. HasToken(u, "quote")
    BY <1>5 DEF Quotes, u
  <2>2. u # <<>>
    BY <1>1, <2>1, HasNot
  <2>3. 1 \in 1 .. Len(u) /\ 1 \in 0 .. Len(u)
    BY <1>1, <2>2
  <2>4. u[1].is = "quote" /\ IsUnquote(u[1], U[1], U[2])
    BY <1>1, <1>3, <1>5, <2>1, <2>2, FirstQuote, FirstFound
  <2>5. IndexOf(u, "quote") = 1
    BY <1>1, <2>2, <2>4, FirstFound
  <2> DEFINE r == LeftFrom(u, 1 + 1)
  <2> DEFINE R == Onward(U, 1)
  <2>6. IsRest(r, R, u, U, 1)
    BY <1>1, <2>3, AheadOn
  <2>7. Requoted = r
    BY <1>5, <2>1, <2>5 DEF Requoted, u
  <2> HIDE DEF r, R
  <2>8. PlaceOK(U[1]) /\ LeadsOver(u[1], U[1], U[2]) /\ U[1].doc \in Docs
    BY <1>1, <2>3, TokenAt
  <2>9. R[1] = U[2] /\ Ahead(r, R) /\ r \in Seq(Tokens) /\ R[Len(r) + 1] = U[Len(u) + 1]
    BY <2>6 DEF IsRest
  <2>10. Follows(R[1], FlagsNow, CurrentNow, settings)
    BY <1>1, <1>5, <2>4, <2>8, <2>9, FollowsUnquote DEF FlagsNow, CurrentNow
  <2>11. ~R[1].doc.comment /\ ~R[1].doc.quote /\ R[1].doc.name = NoName /\ R[1].doc.block = U[1].doc.block
    <3>1. U[2].doc = [U[1].doc EXCEPT !.quote = FALSE, !.name = NoName]
      BY <2>4 DEF IsUnquote
    <3>2. /\ U[2].doc.comment = U[1].doc.comment /\ U[2].doc.quote = FALSE
          /\ U[2].doc.name = NoName /\ U[2].doc.block = U[1].doc.block
      BY <2>8, <3>1 DEF Docs
    <3> QED
      BY <1>4, <2>9, <3>2
  <2>12. ~Late(R[1])
    <3>1. ~U[1].valued /\ U[1].valued \in BOOLEAN
      BY <1>3, <1>4, <1>5, <2>8 DEF PlaceOK
    <3>2. ~U[2].valued
      BY <2>4, <2>8, <3>1 DEF LeadsOver
    <3> QED
      BY <2>9, <3>2 DEF Late
  <2>13. r # <<>> => r[1].is # "/*"
    <3> SUFFICES ASSUME r # <<>>, r[1].is = "/*" PROVE FALSE
      OBVIOUS
    <3>1. 1 \in 1 .. Len(r)
      BY <2>9
    <3>2. LeadsOver(r[1], R[1], R[2])
      BY <2>9, <3>1, TokenAt
    <3>3. IsBegun(r[1], R[1], R[2])
      BY <3>2, ByKind
    <3>4. R[1].prev = "quote"
      BY <2>4, <2>8, <2>9 DEF LeadsOver
    <3> QED
      BY <3>3, <3>4 DEF IsBegun
  <2>14. BehindQuote(r, R)
    BY <1>3, <1>4, <2>9, <2>10, <2>11, <2>12, <2>13 DEF BehindQuote, ReachesAuthor
  <2> QED
    BY <2>7, <2>14
<1>6. CASE ~flags.quote
  <2>1. Requoted = u /\ CurrentNow = current
    BY <1>6 DEF Requoted, CurrentNow, u
  <2>2. AfterComment \in [comment : BOOLEAN, quote : BOOLEAN, block : BOOLEAN]
    BY DEF AfterComment
  <2>3. FlagsNow \in [comment : BOOLEAN, quote : BOOLEAN, block : BOOLEAN] /\ FlagsNow.comment = AfterComment.comment
        /\ FlagsNow.block = AfterComment.block /\ ~FlagsNow.quote
    BY <2>2 DEF FlagsNow
  <2>4. Follows(U[1], FlagsNow, CurrentNow, settings)
    BY <1>1, <1>3, <1>6, <2>1, <2>3 DEF Follows
  <2>5. BehindQuote(u, U)
    BY <1>1, <1>3, <1>4, <1>6, <2>4 DEF BehindQuote, ReachesAuthor
  <2> QED
    BY <2>1, <2>5
<1> QED
  BY <1>5, <1>6

\* What is left of a line behind the name: a value, nothing, or a last token.
BehindName(v, V) ==
    /\ ReachesAuthor(v, V) /\ Follows(V[1], FlagsNow, Named, settings)
    /\ ~V[1].doc.comment /\ ~V[1].doc.quote /\ V[1].doc.block # NoName
    /\ V[1].named \/ ~HasToken(v, "=")
    /\ v # <<>> =>
         /\ V[1].doc.name = NoName => Len(v) = 1 /\ v[1].is \in {">", "#"}
         /\ V[1].doc.name # NoName => v[1].is = "value" \/ (Len(v) = 1 /\ v[1].is \in {"quote", "#"})

\* The name is taken away, where the assert holds.
LEMMA NameTaken ==
    ASSUME NEW R, BehindQuote(Requoted, R), ~Asserts
    PROVE  \E V : BehindName(Values, V)
<1> DEFINE r == Requoted
<1>1. /\ Ahead(r, R) /\ r \in Seq(Tokens) /\ Follows(R[1], FlagsNow, CurrentNow, settings)
      /\ R[Len(r) + 1].doc = doc /\ R[Len(r) + 1].meant = meant
      /\ ~R[1].doc.comment /\ ~R[1].doc.quote /\ R[1].doc.block # NoName
      /\ Late(R[1]) => ~HasToken(r, "=")
      /\ r # <<>> => r[1].is # "/*"
  BY DEF BehindQuote, ReachesAuthor, Ahead
<1>2. CurrentNow.name = R[1].doc.name
  BY <1>1 DEF Follows
<1>3. HasToken(r, "=") => R[1].doc.name = NoName
  BY <1>2 DEF Asserts
<1> HIDE DEF r
<1>4. CASE HasToken(r, "=")
  <2>1. r # <<>>
    BY <1>1, <1>4, HasNot
  <2>2. 1 \in 1 .. Len(r) /\ 1 \in 0 .. Len(r)
    BY <1>1, <2>1
  <2>3. r[1].is = "="
    BY <1>1, <1>3, <1>4, <2>1, FirstOpen, FirstFound
  <2>4. IndexOf(r, "=") = 1
    BY <1>1, <2>1, <2>3, FirstFound
  <2>5. PlaceOK(R[1]) /\ PlaceOK(R[2]) /\ LeadsOver(r[1], R[1], R[2]) /\ IsName(r[1], R[1], R[2])
    BY <1>1, <2>2, <2>3, TokenAt, ByKind
  <2>6. Named = [CurrentNow EXCEPT !.name = r[1].n] /\ Values = LeftFrom(r, 1 + 1)
    BY <1>4, <2>4 DEF Named, Values, r
  <2> DEFINE v == LeftFrom(r, 1 + 1)
  <2> DEFINE V == Onward(R, 1)
  <2>7. IsRest(v, V, r, R, 1)
    BY <1>1, <2>2, AheadOn
  <2> HIDE DEF v, V
  <2>8. V[1] = R[2] /\ Ahead(v, V) /\ v \in Seq(Tokens) /\ V[Len(v) + 1] = R[Len(r) + 1]
    BY <2>7 DEF IsRest
  <2>9. Follows(V[1], FlagsNow, Named, settings)
    BY <1>1, <1>4, <2>5, <2>6, <2>8, FollowsName
  <2>10. ~V[1].doc.comment /\ ~V[1].doc.quote /\ V[1].doc.name # NoName /\ V[1].doc.block # NoName
    <3>1. R[1].doc \in Docs /\ r[1].n # NoName
      BY <2>5, NoNames DEF PlaceOK, IsName
    <3>2. R[2].doc = [R[1].doc EXCEPT !.name = r[1].n, !.split = @ \/ Late(R[1])]
      BY <2>5 DEF IsName
    <3>3. /\ R[2].doc.comment = R[1].doc.comment /\ R[2].doc.quote = R[1].doc.quote
          /\ R[2].doc.name = r[1].n /\ R[2].doc.block = R[1].doc.block
      BY <3>1, <3>2 DEF Docs
    <3> QED
      BY <1>1, <2>8, <3>1, <3>3
  <2>11. V[1].named /\ V[1].prev = "="
    BY <2>3, <2>5, <2>8 DEF LeadsOver
  <2>12. v # <<>> => v[1].is # "/*"
    <3> SUFFICES ASSUME v # <<>>, v[1].is = "/*" PROVE FALSE
      OBVIOUS
    <3>1. 1 \in 1 .. Len(v)
      BY <2>8
    <3>2. IsBegun(v[1], V[1], V[2])
      BY <2>8, <3>1, TokenAt, ByKind
    <3> QED
      BY <2>11, <3>2 DEF IsBegun
  <2>13. v # <<>> => v[1].is = "value" \/ (Len(v) = 1 /\ v[1].is \in {"quote", "#"})
    BY <2>8, <2>10, <2>12, FirstOpen
  <2>14. BehindName(v, V)
    BY <1>1, <2>8, <2>9, <2>10, <2>11, <2>13 DEF BehindName, ReachesAuthor
  <2> QED
    BY <2>6, <2>14 DEF v
<1>5. CASE ~HasToken(r, "=")
  <2>1. Named = CurrentNow /\ Values = r
    BY <1>5 DEF Named, Values, r
  <2>2. r # <<>> => r[1].is # "="
    BY <1>1, <1>5, FirstFound
  <2>3. r # <<>> =>
         /\ R[1].doc.name = NoName => Len(r) = 1 /\ r[1].is \in {">", "#"}
         /\ R[1].doc.name # NoName => r[1].is = "value" \/ (Len(r) = 1 /\ r[1].is \in {"quote", "#"})
    BY <1>1, <2>2, FirstOpen
  <2>4. BehindName(r, R)
    BY <1>1, <1>5, <2>1, <2>3 DEF BehindName, ReachesAuthor
  <2> QED
    BY <2>1, <2>4
<1> QED
  BY <1>4, <1>5

\* The pass of a line in a block.
LEMMA SettlesAt ==
    ASSUME CfgInv, Settles
    PROVE  outcome = "none" /\ \E V : BehindName(Values, V)
<1>1. Passes /\ flags.block /\ Quotes /\ ~Asserts
  BY DEF Settles
<1>2. reading
  BY <1>1 DEF Passes
<1>3. outcome = "none"
  BY <1>2 DEF CfgInv
<1>4. PICK E : Reads(E)
  BY <1>3 DEF CfgInv
<1>5. PICK U : BehindComment(Uncommented, U)
  BY <1>1, <1>4, Cleared
<1>6. flags \in [comment : BOOLEAN, quote : BOOLEAN, block : BOOLEAN]
  BY <1>4 DEF Reads, Follows
<1>7. PICK R : BehindQuote(Requoted, R)
  BY <1>1, <1>5, <1>6, Unquoted
<1>8. \E V : BehindName(Values, V)
  BY <1>1, <1>7, NameTaken
<1> QED
  BY <1>3, <1>8

\* A value that is found stands first.
LEMMA ValueFirst ==
    ASSUME NEW v, NEW V, BehindName(v, V), HasToken(v, "value")
    PROVE  v # <<>> /\ v[1].is = "value" /\ IndexOf(v, "value") = 1
<1>1. Ahead(v, V) /\ v \in Seq(Tokens)
  BY DEF BehindName, ReachesAuthor, Ahead
<1>2. v # <<>>
  BY <1>1, HasNot
<1>3. v[1].is = "value"
  BY <1>1, <1>2, FirstFound DEF BehindName
<1> QED
  BY <1>1, <1>2, <1>3, FirstFound

\* A pass that takes a setting.
LEMMA SettingKeeps ==
    ASSUME CfgInv, Setting
    PROVE  CfgInv'
<1>1. Settles /\ HasToken(Values, "value")
  BY DEF Setting
<1>2. outcome = "none" /\ \E V : BehindName(Values, V)
  BY <1>1, SettlesAt
<1>3. PICK V : BehindName(Values, V)
  BY <1>2
<1> DEFINE v == Values
<1>4. v # <<>> /\ v[1].is = "value" /\ IndexOf(v, "value") = 1
  BY <1>1, <1>3, ValueFirst
<1>5. /\ current' = WithSetting(Named, v[1].n) /\ flags' = FlagsNow
      /\ Parsed(LeftFrom(v, 1 + 1)) /\ settings' = settings /\ outcome' = outcome
  BY <1>4 DEF Setting
<1>6. /\ ReachesAuthor(v, V) /\ Follows(V[1], FlagsNow, Named, settings) /\ Ahead(v, V) /\ v \in Seq(Tokens)
      /\ V[1].named \/ ~HasToken(v, "=")
  BY <1>3 DEF BehindName, ReachesAuthor, Ahead
<1> HIDE DEF v
<1>7. 1 \in 1 .. Len(v) /\ 1 \in 0 .. Len(v) /\ 1 + 1 = 2
  BY <1>4, <1>6
<1>8. PlaceOK(V[1]) /\ LeadsOver(v[1], V[1], V[2]) /\ IsValue(v[1], V[1], V[2])
  BY <1>4, <1>6, <1>7, TokenAt, ByKind
<1>9. Follows(V[2], flags', current', settings')
  BY <1>5, <1>6, <1>8, FollowsValue
<1>10. V[2].prev = "value" /\ (V[1].named => V[2].named)
  BY <1>4, <1>8 DEF LeadsOver
<1>11. Late(V[2]) => ~HasToken(LeftFrom(v, 1 + 1), "=")
  <2>1. HasToken(LeftFrom(v, 1 + 1), "=") => HasToken(v, "=")
    BY <1>6, <1>7, AheadOn DEF IsRest
  <2> QED
    BY <1>6, <1>10, <2>1 DEF Late
<1> QED
  BY <1>2, <1>5, <1>6, <1>7, <1>9, <1>10, <1>11, GoesOn

\* Of a line without a value at most one token is left.
LEMMA LeftOver ==
    ASSUME NEW v, NEW V, BehindName(v, V), ~HasToken(v, "value")
    PROVE  /\ v = <<>> => PlaceOK(V[1]) /\ V[1].doc = doc /\ V[1].meant = meant
           /\ v # <<>> =>
                /\ PlaceOK(V[1]) /\ PlaceOK(V[2]) /\ V[2].doc = doc /\ V[2].meant = meant
                /\ V[1].doc.name = NoName => v[1].is \in {">", "#"}
                /\ V[1].doc.name # NoName => v[1].is \in {"quote", "#"}
                /\ \A is : HasToken(v, is) <=> is = v[1].is
                /\ v[1].is = ">" => IsEnd(v[1], V[1], V[2])
                /\ v[1].is = "#" => IsHash(v[1], V[1], V[2])
                /\ v[1].is = "quote" => IsQuote(v[1], V[1], V[2])
<1>1. Ahead(v, V) /\ v \in Seq(Tokens) /\ V[Len(v) + 1].doc = doc /\ V[Len(v) + 1].meant = meant
      /\ ~V[1].doc.quote
  BY DEF BehindName, ReachesAuthor, Ahead
<1>2. CASE v = <<>>
  <2>1. Len(v) + 1 = 1
    BY <1>2
  <2> QED
    BY <1>1, <1>2, <2>1 DEF Ahead
<1>3. CASE v # <<>>
  <2>1. v[1].is # "value"
    BY <1>1, <1>3, FirstFound
  <2>2. /\ V[1].doc.name = NoName => v[1].is \in {">", "#"}
        /\ V[1].doc.name # NoName => v[1].is \in {"quote", "#"}
        /\ Len(v) = 1
    BY <1>3, <2>1 DEF BehindName
  <2>3. 1 \in 1 .. Len(v) /\ Len(v) + 1 = 2
    BY <2>2
  <2>4. PlaceOK(V[1]) /\ PlaceOK(V[2]) /\ LeadsOver(v[1], V[1], V[2])
    BY <1>1, <2>3, TokenAt
  <2>5. \A is : HasToken(v, is) <=> is = v[1].is
    BY <1>1, <1>3, <2>2, FirstFound
  <2>6. /\ v[1].is = ">" => IsEnd(v[1], V[1], V[2])
        /\ v[1].is = "#" => IsHash(v[1], V[1], V[2])
        /\ v[1].is = "quote" => IsQuote(v[1], V[1], V[2])
    BY <1>1, <2>4, ByKind DEF IsUnquote
  <2> QED
    BY <1>1, <1>3, <2>2, <2>3, <2>4, <2>5, <2>6
<1> QED
  BY <1>2, <1>3

\* Nothing is left of the line but its end.
LEMMA QuoteBeginsKeeps ==
    ASSUME CfgInv, QuoteBegins
    PROVE  CfgInv'
<1>1. Settles /\ ~HasToken(Values, "value") /\ HasToken(Values, "quote")
  BY DEF QuoteBegins
<1>2. outcome = "none" /\ \E V : BehindName(Values, V)
  BY <1>1, SettlesAt
<1>3. PICK V : BehindName(Values, V)
  BY <1>2
<1> DEFINE v == Values
<1>4. /\ current' = Named /\ flags' = [FlagsNow EXCEPT !.quote = TRUE] /\ NextLine
      /\ settings' = settings /\ outcome' = outcome
  BY DEF QuoteBegins
<1>5. Ahead(v, V) /\ v \in Seq(Tokens) /\ Follows(V[1], FlagsNow, Named, settings)
  BY <1>3 DEF BehindName, ReachesAuthor, Ahead
<1> HIDE DEF v
<1>6. v # <<>>
  BY <1>1, <1>5, HasNot DEF v
<1>7. v[1].is = "quote" /\ PlaceOK(V[1]) /\ PlaceOK(V[2]) /\ V[2].doc = doc /\ V[2].meant = meant
  BY <1>1, <1>3, <1>6, LeftOver DEF v
<1>8. IsQuote(v[1], V[1], V[2])
  BY <1>1, <1>3, <1>6, <1>7, LeftOver DEF v
<1>9. Follows(V[2], flags', current', settings')
  BY <1>4, <1>5, <1>7, <1>8, FollowsQuote
<1> QED
  BY <1>2, <1>4, <1>7, <1>9, LineEnds

\* A pass that ends a block.
LEMMA BlockEndsKeeps ==
    ASSUME CfgInv, BlockEnds
    PROVE  CfgInv'
<1>1. Settles /\ ~HasToken(Values, "value") /\ HasToken(Values, ">")
  BY DEF BlockEnds
<1>2. outcome = "none" /\ \E V : BehindName(Values, V)
  BY <1>1, SettlesAt
<1>3. PICK V : BehindName(Values, V)
  BY <1>2
<1> DEFINE v == Values
<1>4. /\ current' = [block |-> NoName, name |-> NoName, map |-> NoEntry]
      /\ flags' = [FlagsNow EXCEPT !.block = FALSE] /\ NextLine
      /\ settings' = Put(settings, Ahash(Named.block), Named.map) /\ outcome' = outcome
  BY DEF BlockEnds
<1>5. Ahead(v, V) /\ v \in Seq(Tokens) /\ Follows(V[1], FlagsNow, Named, settings)
  BY <1>3 DEF BehindName, ReachesAuthor, Ahead
<1> HIDE DEF v
<1>6. v # <<>>
  BY <1>1, <1>5, HasNot DEF v
<1>7. v[1].is = ">" /\ PlaceOK(V[1]) /\ PlaceOK(V[2]) /\ V[2].doc = doc /\ V[2].meant = meant
  BY <1>1, <1>3, <1>6, LeftOver DEF v
<1>8. IsEnd(v[1], V[1], V[2])
  BY <1>1, <1>3, <1>6, <1>7, LeftOver DEF v
<1>9. Follows(V[2], flags', current', settings')
  BY <1>4, <1>5, <1>7, <1>8, FollowsEnd
<1> QED
  BY <1>2, <1>4, <1>7, <1>9, LineEnds

\* A pass that drops the rest of a line in a block, which is a comment.
LEMMA DropsKeeps ==
    ASSUME CfgInv, Drops
    PROVE  CfgInv'
<1>1. Settles /\ ~HasToken(Values, "value") /\ ~HasToken(Values, "quote") /\ ~HasToken(Values, ">")
  BY DEF Drops
<1>2. outcome = "none" /\ \E V : BehindName(Values, V)
  BY <1>1, SettlesAt
<1>3. PICK V : BehindName(Values, V)
  BY <1>2
<1> DEFINE v == Values
<1>4. /\ current' = Named /\ flags' = FlagsNow /\ NextLine
      /\ settings' = settings /\ outcome' = outcome
  BY DEF Drops
<1>5. Ahead(v, V) /\ v \in Seq(Tokens) /\ Follows(V[1], FlagsNow, Named, settings)
  BY <1>3 DEF BehindName, ReachesAuthor, Ahead
<1> HIDE DEF v
<1>6. CASE v = <<>>
  <2>1. PlaceOK(V[1]) /\ V[1].doc = doc /\ V[1].meant = meant
    BY <1>1, <1>3, <1>6, LeftOver DEF v
  <2> QED
    BY <1>2, <1>4, <1>5, <2>1, LineEnds
<1>7. CASE v # <<>>
  <2>1. /\ PlaceOK(V[1]) /\ PlaceOK(V[2]) /\ V[2].doc = doc /\ V[2].meant = meant
        /\ \A is : HasToken(v, is) <=> is = v[1].is
        /\ v[1].is \in {">", "#", "quote"}
        /\ v[1].is = "#" => IsHash(v[1], V[1], V[2])
    BY <1>1, <1>3, <1>7, LeftOver DEF v
  <2>2. v[1].is = "#"
    BY <1>1, <2>1 DEF v
  <2>3. V[2].doc = V[1].doc /\ V[2].meant = V[1].meant
    BY <2>1, <2>2 DEF IsHash
  <2>4. Follows(V[2], flags', current', settings')
    BY <1>4, <1>5, <2>3, FollowsSame
  <2> QED
    BY <1>2, <1>4, <2>1, <2>4, LineEnds
<1> QED
  BY <1>6, <1>7

\* A pass behind the comment.
LEMMA PassesAt ==
    ASSUME CfgInv, Passes
    PROVE  /\ outcome = "none" /\ flags \in [comment : BOOLEAN, quote : BOOLEAN, block : BOOLEAN]
           /\ \E U : BehindComment(Uncommented, U)
<1>1. outcome = "none"
  BY DEF CfgInv, Passes
<1>2. PICK E : Reads(E)
  BY <1>1 DEF CfgInv
<1> QED
  BY <1>1, <1>2, Cleared DEF Reads, Follows

\* A pass over a line that is all in a quote.
LEMMA QuoteGoesOnKeeps ==
    ASSUME CfgInv, QuoteGoesOn
    PROVE  CfgInv'
<1>1. /\ Passes /\ flags.quote /\ ~HasToken(Uncommented, "quote")
      /\ flags' = AfterComment /\ NextLine /\ current' = current /\ settings' = settings /\ outcome' = outcome
  BY DEF QuoteGoesOn
<1>2. outcome = "none" /\ \E U : BehindComment(Uncommented, U)
  BY <1>1, PassesAt
<1>3. PICK U : BehindComment(Uncommented, U)
  BY <1>2
<1> DEFINE u == Uncommented
<1>4. /\ Ahead(u, U) /\ u \in Seq(Tokens) /\ Follows(U[1], AfterComment, current, settings)
      /\ U[Len(u) + 1].doc = doc /\ U[Len(u) + 1].meant = meant /\ Len(u) \in Nat
  BY <1>3 DEF BehindComment, ReachesAuthor, Ahead
<1>5. U[1].doc.quote
  <2>1. AfterComment.quote = flags.quote
    BY DEF AfterComment
  <2> QED
    BY <1>1, <1>4, <2>1 DEF Follows
<1> HIDE DEF u
<1>6. CASE u = <<>>
  <2>1. Len(u) + 1 = 1
    BY <1>6
  <2>2. PlaceOK(U[1])
    BY <1>4, <2>1 DEF Ahead
  <2> QED
    BY <1>1, <1>2, <1>4, <2>1, <2>2, LineEnds
<1>7. CASE u # <<>>
  <2>1. u[1].is = "text" /\ Len(u) = 1
    BY <1>1, <1>4, <1>5, <1>7, FirstQuote, FirstFound DEF u
  <2>2. 1 \in 1 .. Len(u) /\ Len(u) + 1 = 2
    BY <2>1
  <2>3. IsText(u[1], U[1], U[2]) /\ PlaceOK(U[2])
    BY <1>4, <2>1, <2>2, TokenAt, ByKind
  <2>4. Follows(U[2], flags', current', settings')
    BY <1>1, <1>4, <2>3, FollowsSame DEF IsText
  <2> QED
    BY <1>1, <1>2, <1>4, <2>2, <2>3, <2>4, LineEnds
<1> QED
  BY <1>6, <1>7

\* A pass that begins a block.
LEMMA BlockBeginsKeeps ==
    ASSUME CfgInv, BlockBegins
    PROVE  CfgInv'
<1>1. Passes /\ ~flags.block /\ HasToken(Uncommented, "<")
  BY DEF BlockBegins
<1>2. outcome = "none" /\ (\E U : BehindComment(Uncommented, U)) /\ flags \in [comment : BOOLEAN, quote : BOOLEAN, block : BOOLEAN]
  BY <1>1, PassesAt
<1>3. PICK U : BehindComment(Uncommented, U)
  BY <1>2
<1> DEFINE u == Uncommented
<1>4. /\ ReachesAuthor(u, U) /\ Ahead(u, U) /\ u \in Seq(Tokens) /\ Follows(U[1], AfterComment, current, settings)
      /\ ~U[1].doc.comment /\ (u # <<>> => u[1].is # "/*")
  BY <1>3 DEF BehindComment, ReachesAuthor, Ahead
<1>5. u # <<>>
  <2>1. HasToken(u, "<") /\ u \in Seq(Tokens)
    BY <1>1, <1>4
  <2> HIDE DEF u
  <2> QED
    BY <2>1, HasNot
<1>6. U[1].doc.block = NoName
  <2>1. AfterComment.block = flags.block
    BY DEF AfterComment
  <2> QED
    BY <1>1, <1>4, <2>1 DEF Follows
<1>7. HasToken(u, "<")
  BY <1>1
<1>8. 1 \in 1 .. Len(u) /\ 1 \in 0 .. Len(u) /\ 1 + 1 = 2
  <2> HIDE DEF u
  <2> QED
    BY <1>4, <1>5
<1>9. PlaceOK(U[1]) /\ LeadsOver(u[1], U[1], U[2])
  BY <1>4, <1>8, TokenAt
<1>10. ~U[1].doc.quote
  BY <1>6, <1>9 DEF PlaceOK
<1>11. u[1].is = "<"
  <2> HIDE DEF u
  <2> QED
    BY <1>4, <1>5, <1>6, <1>7, <1>10, FirstOpen, FirstFound
<1>12. IndexOf(u, "<") = 1 /\ IsBlock(u[1], U[1], U[2])
  <2> HIDE DEF u
  <2> QED
    BY <1>4, <1>5, <1>9, <1>11, FirstFound, ByKind
<1>13. /\ flags' = [AfterComment EXCEPT !.block = TRUE] /\ current' = [current EXCEPT !.block = u[1].n]
       /\ Parsed(LeftFrom(u, 1 + 1)) /\ settings' = settings /\ outcome' = outcome
  BY <1>12 DEF BlockBegins
<1> HIDE DEF u
<1>14. Follows(U[2], flags', current', settings')
  BY <1>4, <1>9, <1>12, <1>13, FollowsBlock
<1>15. U[2].prev = "<"
  BY <1>9, <1>11 DEF LeadsOver
<1>16. Late(U[2]) => ~HasToken(LeftFrom(u, 1 + 1), "=")
  <2>1. HasToken(LeftFrom(u, 1 + 1), "=") => HasToken(u, "=")
    BY <1>4, <1>8, AheadOn DEF IsRest
  <2>2. U[2].valued = U[1].valued /\ U[2].named = U[1].named
    BY <1>9, <1>11 DEF LeadsOver, PlaceOK
  <2>3. Late(U[1]) => ~HasToken(u, "=")
    BY <1>3 DEF BehindComment, u
  <2> QED
    BY <2>1, <2>2, <2>3 DEF Late
<1> QED
  BY <1>2, <1>4, <1>8, <1>13, <1>14, <1>15, <1>16, GoesOn

\* A pass over a line that is all comment.
LEMMA SkipCommentKeeps ==
    ASSUME CfgInv, SkipComment
    PROVE  CfgInv'
<1>1. /\ reading /\ (IsComment \/ CommentGoesOn) /\ flags' = [flags EXCEPT !.comment = CommentGoesOn]
      /\ NextLine /\ current' = current /\ settings' = settings /\ outcome' = outcome
  BY DEF SkipComment
<1>2. outcome = "none"
  BY <1>1 DEF CfgInv
<1>3. PICK E : Reads(E)
  BY <1>2 DEF CfgInv
<1>4. /\ Ahead(line, E) /\ line # <<>> /\ line \in Seq(Tokens) /\ Len(line) \in Nat
      /\ E[Len(line) + 1].doc = doc /\ E[Len(line) + 1].meant = meant
      /\ Follows(E[1], flags, current, settings)
  BY <1>1, <1>3 DEF Reads, ReachesAuthor, Ahead
<1>5. flags.comment <=> E[1].doc.comment
  BY <1>4 DEF Follows
<1>6. 1 \in 1 .. Len(line) /\ PlaceOK(E[Len(line) + 1])
  BY <1>4 DEF Ahead
<1>7. PlaceOK(E[1]) /\ PlaceOK(E[2]) /\ LeadsOver(line[1], E[1], E[2]) /\ E[1].doc \in Docs
  BY <1>4, <1>6, TokenAt
<1>8. CASE CommentGoesOn
  <2>1. ~HasToken(line, "*/") /\ (E[1].doc.comment \/ line[1].is = "/*")
    BY <1>5, <1>8 DEF CommentGoesOn, Commented
  <2>2. /\ E[Len(line) + 1].doc = [E[1].doc EXCEPT !.comment = TRUE]
        /\ E[Len(line) + 1].meant = E[1].meant
    BY <1>4, <2>1, CommentAway
  <2>3. CommentGoesOn = TRUE
    BY <1>8 DEF CommentGoesOn, Commented
  <2>4. Follows(E[Len(line) + 1], [flags EXCEPT !.comment = TRUE], current, settings)
    BY <1>4, <1>7, <2>2, FollowsComment
  <2>5. Follows(E[Len(line) + 1], flags', current', settings')
    BY <1>1, <2>3, <2>4
  <2> QED
    BY <1>1, <1>2, <1>4, <1>6, <2>5, LineEnds
<1>9. CASE ~CommentGoesOn
  <2>1. ~E[1].doc.comment /\ line[1].is = "#"
    BY <1>1, <1>5, <1>9 DEF IsComment
  <2>2. Len(line) = 1
    BY <1>4, <2>1, IsLast
  <2>3. IsHash(line[1], E[1], E[2]) /\ Len(line) + 1 = 2
    BY <1>7, <2>1, <2>2, ByKind
  <2>4. CommentGoesOn = FALSE
    BY <1>9 DEF CommentGoesOn, Commented
  <2>5. E[2].doc = [E[1].doc EXCEPT !.comment = FALSE] /\ E[2].meant = E[1].meant
    <3>1. E[1].doc = [E[1].doc EXCEPT !.comment = FALSE]
      BY <1>7, <2>1 DEF Docs
    <3> QED
      BY <2>3, <3>1 DEF IsHash
  <2>6. Follows(E[2], [flags EXCEPT !.comment = FALSE], current, settings)
    BY <1>4, <1>7, <2>5, FollowsComment
  <2>7. Follows(E[2], flags', current', settings')
    BY <1>1, <2>4, <2>6
  <2> QED
    BY <1>1, <1>2, <1>4, <1>7, <2>3, <2>7, LineEnds
<1> QED
  BY <1>8, <1>9

\* A pass over a line between blocks.
LEMMA OutsideBlocksKeeps ==
    ASSUME CfgInv, OutsideBlocks
    PROVE  CfgInv'
<1>1. /\ Passes /\ ~flags.block /\ ~HasToken(Uncommented, "<") /\ flags' = AfterComment
      /\ outcome' = IF HasToken(Uncommented, "nameless") THEN "false" ELSE outcome
      /\ NextLine /\ current' = current /\ settings' = settings
  BY DEF OutsideBlocks
<1>2. outcome = "none" /\ (\E U : BehindComment(Uncommented, U)) /\ flags \in [comment : BOOLEAN, quote : BOOLEAN, block : BOOLEAN]
  BY <1>1, PassesAt
<1>3. PICK U : BehindComment(Uncommented, U)
  BY <1>2
<1> DEFINE u == Uncommented
<1>4. /\ Ahead(u, U) /\ u \in Seq(Tokens) /\ Follows(U[1], AfterComment, current, settings)
      /\ U[Len(u) + 1].doc = doc /\ U[Len(u) + 1].meant = meant /\ Len(u) \in Nat
      /\ ~U[1].doc.comment /\ (u # <<>> => u[1].is # "/*")
  BY <1>3 DEF BehindComment, ReachesAuthor, Ahead
<1>5. U[1].doc.block = NoName /\ ~U[1].doc.split
  <2>1. AfterComment.block = flags.block
    BY <1>2 DEF AfterComment
  <2> QED
    BY <1>1, <1>4, <2>1 DEF Follows
<1>6. ~HasToken(u, "<")
  BY <1>1
<1>7. outcome' = IF HasToken(u, "nameless") THEN "false" ELSE outcome
  BY <1>1
<1> HIDE DEF u
<1>8. 1 \in 1 .. Len(u) + 1
  BY <1>4
<1>9. PlaceOK(U[1])
  BY <1>4, <1>8 DEF Ahead
<1>10. ~U[1].doc.quote /\ U[1].doc \in Docs
  BY <1>5, <1>9 DEF PlaceOK
<1>11. CASE u = <<>>
  <2>1. Len(u) + 1 = 1
    BY <1>11
  <2>2. ~HasToken(u, "nameless")
    <3>1. 1 .. Len(u) = {}
      BY <1>11
    <3> QED
      BY <1>4, <3>1, HasNot
  <2> QED
    BY <1>1, <1>2, <1>4, <1>7, <1>9, <2>1, <2>2, LineEnds
<1>12. CASE u # <<>>
  <2>1. Len(u) = 1 /\ u[1].is \in {"nameless", "#"}
    BY <1>4, <1>5, <1>6, <1>10, <1>12, FirstOpen, FirstFound
  <2>2. 1 \in 1 .. Len(u) /\ Len(u) + 1 = 2
    BY <2>1
  <2>3. LeadsOver(u[1], U[1], U[2]) /\ PlaceOK(U[2])
    BY <1>4, <2>2, TokenAt
  <2>4. CASE u[1].is = "#"
    <3>1. IsHash(u[1], U[1], U[2])
      BY <2>3, <2>4, ByKind
    <3>2. Follows(U[2], flags', current', settings')
      BY <1>1, <1>4, <3>1, FollowsSame DEF IsHash
    <3>3. ~HasToken(u, "nameless")
      BY <1>4, <1>12, <2>1, <2>4, FirstFound
    <3> QED
      BY <1>1, <1>2, <1>4, <1>7, <2>2, <2>3, <3>2, <3>3, LineEnds
  <2>5. CASE u[1].is = "nameless"
    <3>1. IsNameless(u[1], U[1], U[2])
      BY <2>3, <2>5, ByKind
    <3>2. doc = [U[1].doc EXCEPT !.bad = TRUE]
      BY <1>4, <2>2, <3>1 DEF IsNameless
    <3>3. doc.bad /\ ~doc.split
      BY <1>5, <1>10, <3>2 DEF Docs
    <3>4. HasToken(u, "nameless")
      BY <1>4, <1>12, <2>5, FirstFound
    <3>5. reading' = FALSE /\ doc' = doc /\ outcome' = "false"
      BY <1>1, <1>7, <3>4 DEF NextLine, Parsed
    <3> QED
      BY <3>3, <3>5 DEF CfgInv, SettingsAsMeant, WellFormed
  <2> QED
    BY <2>1, <2>4, <2>5
<1> QED
  BY <1>11, <1>12

\* What is stored is what is read.
LEMMA StoredIsRead ==
    ASSUME NEW b \in CfgBlock, NEW n \in CfgName, StoredBlock(b, settings, meant)
    PROVE  IF b \in DOMAIN meant /\ n \in DOMAIN meant[b]
           THEN meant[b][n] # "manyLines" => GetSetting(b, n).AsString = meant[b][n]
           ELSE GetSetting(b, n).AsString = "default"
<1>1. /\ Ahash(b) \in DOMAIN settings <=> b \in DOMAIN meant
      /\ b \in DOMAIN meant => Kept(n, settings[Ahash(b)], meant[b])
  BY DEF StoredBlock
<1>2. CASE b \in DOMAIN meant /\ n \in DOMAIN meant[b]
  <2>1. GetSetting(b, n) = settings[Ahash(b)][Ahash(n)]
    BY <1>1, <1>2 DEF GetSetting, Kept
  <2>2. meant[b][n] # "manyLines" => settings[Ahash(b)][Ahash(n)].AsString = meant[b][n]
    BY <1>1, <1>2 DEF Kept
  <2> QED
    BY <1>2, <2>1, <2>2
<1>3. CASE ~(b \in DOMAIN meant /\ n \in DOMAIN meant[b])
  <2>1. GetSetting(b, n) = [AsString |-> "default", AsInt |-> 0]
    BY <1>1, <1>3 DEF GetSetting, Kept
  <2> QED
    BY <1>3, <2>1
<1> QED
  BY <1>2, <1>3

\* The end of the file, where the settings are as meant.
LEMMA EndOfFileKeeps ==
    ASSUME CfgInv, EndOfFile
    PROVE  CfgInv'
<1>1. /\ reading = FALSE /\ line = <<>> /\ outcome = "none"
      /\ outcome' = IF flags.block \/ flags.comment \/ flags.quote THEN "false" ELSE "true"
      /\ doc' = doc /\ meant' = meant /\ reading' = reading /\ settings' = settings
  BY DEF EndOfFile, CfgInv
<1>2. PICK E : Reads(E)
  BY <1>1 DEF CfgInv
<1>3. Len(line) + 1 = 1
  BY <1>1
<1>4. E[1].doc = doc /\ E[1].meant = meant /\ Follows(E[1], flags, current, settings)
  BY <1>2, <1>3 DEF Reads, ReachesAuthor
<1>5. (flags.block \/ flags.comment \/ flags.quote) <=> ~WellFormed
  BY <1>4 DEF Follows, WellFormed
<1>6. ~doc.split
  BY <1>4 DEF Follows
<1>7. ASSUME WellFormed, NEW b \in CfgBlock, NEW n \in CfgName
      PROVE  IF b \in DOMAIN meant /\ n \in DOMAIN meant[b]
             THEN meant[b][n] # "manyLines" => GetSetting(b, n).AsString = meant[b][n]
             ELSE GetSetting(b, n).AsString = "default"
  <2>1. b # doc.block
    BY <1>7, NoNames DEF WellFormed
  <2>2. StoredBlock(b, settings, meant)
    BY <1>4, <2>1 DEF Follows
  <2> QED
    BY <2>2, StoredIsRead
<1>8. WellFormed' = WellFormed
  BY <1>1 DEF WellFormed
<1>9. \A b \in CfgBlock, n \in CfgName : GetSetting(b, n)' = GetSetting(b, n)
  BY <1>1 DEF GetSetting
<1>10. outcome' # "none" /\ outcome' = IF WellFormed THEN "true" ELSE "false"
  BY <1>1, <1>5
<1>11. SettingsAsMeant'
  BY <1>1, <1>6, <1>7, <1>8, <1>9, <1>10 DEF SettingsAsMeant
<1> QED
  BY <1>1, <1>10, <1>11 DEF CfgInv

\* A late value and a name behind it split a setting.
LEMMA NameSplits ==
    ASSUME NEW l, NEW E, Ahead(l, E), HasToken(l, "="), l[1].is # "/*", ~E[1].doc.comment, ~E[1].doc.quote,
           E[1].doc.block # NoName, E[1].doc.name = NoName, Late(E[1])
    PROVE  E[Len(l) + 1].doc.split
<1>1. l \in Seq(Tokens) /\ Len(l) \in Nat
  BY DEF Ahead
<1>2. l # <<>>
  BY <1>1, HasNot
<1>3. l[1].is = "=" /\ 1 \in 1 .. Len(l) /\ 2 \in 1 .. Len(l) + 1
  BY <1>1, <1>2, FirstOpen, FirstFound
<1>4. IsName(l[1], E[1], E[2]) /\ E[1].doc \in Docs
  BY <1>3, TokenAt, ByKind
<1>5. E[2].doc = [E[1].doc EXCEPT !.name = l[1].n, !.split = @ \/ Late(E[1])]
  BY <1>4 DEF IsName
<1>6. E[2].doc.split
  BY <1>4, <1>5 DEF Docs
<1> QED
  BY <1>3, <1>6 DEF Ahead

\* A pass that aborts: its file is one that splits.
LEMMA AbortsKeeps ==
    ASSUME CfgInv, Aborts
    PROVE  CfgInv'
<1>1. Passes /\ flags.block /\ Quotes /\ Asserts /\ outcome' = "aborts" /\ NextLine
  BY DEF Aborts
<1>2. outcome = "none" /\ (\E U : BehindComment(Uncommented, U)) /\ flags \in [comment : BOOLEAN, quote : BOOLEAN, block : BOOLEAN]
  BY <1>1, PassesAt
<1>3. PICK U : BehindComment(Uncommented, U)
  BY <1>2
<1>4. PICK R : BehindQuote(Requoted, R)
  BY <1>1, <1>2, <1>3, Unquoted
<1> DEFINE r == Requoted
<1>5. /\ Ahead(r, R) /\ r \in Seq(Tokens) /\ Len(r) \in Nat /\ Follows(R[1], FlagsNow, CurrentNow, settings)
      /\ R[Len(r) + 1].doc = doc
      /\ ~R[1].doc.comment /\ ~R[1].doc.quote /\ R[1].doc.block # NoName
      /\ R[1].doc.name # NoName => ~R[1].named /\ ~R[1].valued
      /\ r # <<>> => r[1].is # "/*"
  BY <1>4 DEF BehindQuote, ReachesAuthor, Ahead
<1>6. HasToken(r, "=") /\ CurrentNow.name # NoName
  BY <1>1 DEF Asserts
<1> HIDE DEF r
<1>7. R[1].doc.name # NoName
  BY <1>5, <1>6 DEF Follows
<1>8. r # <<>>
  BY <1>5, <1>6, HasNot
<1>9. r[1].is = "value"
  BY <1>5, <1>6, <1>7, <1>8, FirstOpen, FirstFound
<1>10. 1 \in 1 .. Len(r) /\ 1 \in 0 .. Len(r)
  BY <1>5, <1>8
<1>11. PlaceOK(R[1]) /\ PlaceOK(R[2]) /\ LeadsOver(r[1], R[1], R[2]) /\ IsValue(r[1], R[1], R[2]) /\ R[1].doc \in Docs
  BY <1>5, <1>9, <1>10, TokenAt, ByKind
<1>12. /\ ~R[2].doc.comment /\ ~R[2].doc.quote /\ R[2].doc.block # NoName /\ R[2].doc.name = NoName
  <2>1. R[2].doc = [R[1].doc EXCEPT !.name = NoName]
    BY <1>11 DEF IsValue
  <2>2. /\ R[2].doc.comment = R[1].doc.comment /\ R[2].doc.quote = R[1].doc.quote
        /\ R[2].doc.block = R[1].doc.block /\ R[2].doc.name = NoName
    BY <1>11, <2>1 DEF Docs
  <2> QED
    BY <1>5, <2>2
<1>13. Late(R[2])
  BY <1>5, <1>7, <1>9, <1>11 DEF Late, LeadsOver
<1>14. PICK i \in 1 .. Len(r) : r[i].is = "="
  BY <1>5, <1>6, HasNot
<1>15. i # 1 /\ 2 \in 1 .. Len(r)
  BY <1>5, <1>9, <1>14
<1> DEFINE s == LeftFrom(r, 1 + 1)
<1> DEFINE S == Onward(R, 1)
<1>16. IsRest(s, S, r, R, 1)
  BY <1>5, <1>10, AheadOn
<1> HIDE DEF s, S
<1>17. /\ Ahead(s, S) /\ S[1] = R[2] /\ s \in Seq(Tokens) /\ Len(s) = Len(r) - 1
       /\ S[Len(s) + 1] = R[Len(r) + 1]
       /\ \A j \in 1 .. Len(r) - 1 : s[j] = r[j + 1]
  BY <1>16 DEF IsRest
<1>18. HasToken(s, "=")
  <2>1. i - 1 \in 1 .. Len(r) - 1 /\ (i - 1) + 1 = i
    BY <1>5, <1>14, <1>15
  <2>2. s[i - 1].is = "="
    BY <1>14, <1>17, <2>1
  <2> QED
    BY <1>17, <2>1, <2>2, HasNot
<1>19. CASE s[1].is # "/*"
  <2>1. S[Len(s) + 1].doc.split
    BY <1>12, <1>13, <1>17, <1>18, <1>19, NameSplits
  <2> QED
    BY <1>1, <1>5, <1>17, <2>1 DEF CfgInv, SettingsAsMeant, NextLine, Parsed
<1>20. CASE s[1].is = "/*"
  <2>1. s # <<>> /\ Len(s) \in Nat
    BY <1>17, <1>18, HasNot
  <2>2. 1 \in 1 .. Len(s)
    BY <2>1, <1>17
  <2>3. PlaceOK(S[1]) /\ PlaceOK(S[2]) /\ LeadsOver(s[1], S[1], S[2]) /\ IsBegun(s[1], S[1], S[2]) /\ S[1].doc \in Docs
        /\ S[2].doc \in Docs
    BY <1>17, <1>20, <2>2, TokenAt, ByKind
  <2>4. S[2].doc = [S[1].doc EXCEPT !.comment = TRUE] /\ S[2].doc.comment /\ Late(S[2]) /\ S[2].prev = "/*"
    <3>1. S[2].doc = [S[1].doc EXCEPT !.comment = TRUE] /\ S[2].doc.comment
      BY <2>3 DEF IsBegun, Docs
    <3> QED
      BY <1>13, <1>17, <1>20, <2>3, <3>1 DEF Late, LeadsOver
  <2>5. PICK j \in 1 .. Len(s) : s[j].is = "="
    BY <1>17, <1>18, HasNot
  <2>6. j # 1
    BY <1>20, <2>5
  <2>7. 2 \in 1 .. Len(s)
    BY <2>1, <2>5, <2>6
  <2>8. PlaceOK(S[3]) /\ LeadsOver(s[2], S[2], S[3]) /\ S[3].doc \in Docs
    BY <1>17, <2>7, TokenAt
  <2>9. s[2].is = "*/" /\ IsOver(s[2], S[2], S[3])
    <3>1. s[2].is \in {"text", "*/"}
      BY <2>3, <2>4, <2>8, MayStand
    <3>2. s[2].is # "text"
      BY <2>4, <2>8, ByKind DEF IsText
    <3> QED
      BY <2>8, <3>1, <3>2, ByKind
  <2>10. /\ ~S[3].doc.comment /\ ~S[3].doc.quote /\ S[3].doc.block # NoName /\ S[3].doc.name = NoName
         /\ S[3].prev = "*/"
    <3>1. S[3].doc = [S[2].doc EXCEPT !.comment = FALSE] /\ S[3].prev = "*/"
      BY <2>8, <2>9 DEF IsOver, LeadsOver
    <3>2. /\ ~S[3].doc.comment /\ S[3].doc.quote = S[2].doc.quote /\ S[3].doc.block = S[2].doc.block
          /\ S[3].doc.name = S[2].doc.name
      BY <2>3, <3>1 DEF Docs
    <3>3. /\ S[2].doc.quote = S[1].doc.quote /\ S[2].doc.block = S[1].doc.block /\ S[2].doc.name = S[1].doc.name
      BY <2>3, <2>4 DEF Docs
    <3> QED
      BY <1>12, <1>17, <3>1, <3>2, <3>3
  <2>11. Late(S[3])
    BY <2>4, <2>8, <2>9 DEF Late, LeadsOver
  <2>12. j # 2 /\ 2 \in 0 .. Len(s)
    BY <2>5, <2>7, <2>9
  <2> DEFINE w == LeftFrom(s, 2 + 1)
  <2> DEFINE W == Onward(S, 2)
  <2>13. IsRest(w, W, s, S, 2)
    BY <1>17, <2>12, AheadOn
  <2> HIDE DEF w, W
  <2>14. /\ Ahead(w, W) /\ W[1] = S[3] /\ w \in Seq(Tokens) /\ Len(w) = Len(s) - 2
         /\ W[Len(w) + 1] = S[Len(s) + 1]
         /\ \A k \in 1 .. Len(s) - 2 : w[k] = s[k + 2]
    <3>1. 2 + 1 = 3
      OBVIOUS
    <3> QED
      BY <2>13, <3>1 DEF IsRest
  <2>15. HasToken(w, "=")
    <3>1. j - 2 \in 1 .. Len(s) - 2 /\ (j - 2) + 2 = j
      BY <2>1, <2>5, <2>6, <2>12
    <3>2. w[j - 2].is = "="
      BY <2>5, <2>14, <3>1
    <3> QED
      BY <2>14, <3>1, <3>2, HasNot
  <2>16. w[1].is # "/*"
    <3>1. 1 \in 1 .. Len(w)
      BY <2>14, <2>15, HasNot
    <3>2. w[1].is = "/*" => IsBegun(w[1], W[1], W[2])
      BY <2>14, <3>1, TokenAt, ByKind
    <3> QED
      BY <2>10, <2>14, <3>2 DEF IsBegun
  <2>17. W[Len(w) + 1].doc.split
    BY <2>10, <2>11, <2>14, <2>15, <2>16, NameSplits
  <2>18. doc.split
    BY <1>5, <1>17, <2>14, <2>17
  <2> QED
    BY <1>1, <2>18 DEF CfgInv, SettingsAsMeant, NextLine, Parsed
<1> QED
  BY <1>19, <1>20

-----------------------------------------------------------------------------
(* The author                                                               *)

\* A token behind the line leads on from its last place.
LEMMA WrittenOn ==
    ASSUME NEW E, Reads(E), reading = FALSE, outcome = "none", NEW t \in Tokens, NEW f,
           LeadsOver(t, E[Len(line) + 1], f), f.doc = doc', f.meant = meant',
           line' = Append(line, t), reading' = reading, outcome' = outcome,
           flags' = flags, current' = current, settings' = settings
    PROVE  CfgInv'
<1>1. /\ Ahead(line, E) /\ line \in Seq(Tokens) /\ Len(line) \in Nat
      /\ Follows(E[1], flags, current, settings) /\ E[1].prev = "none"
      /\ E[Len(line) + 1].named = HasToken(line, "=")
      /\ E[Len(line) + 1].valued = HasToken(line, "value")
  BY DEF Reads, ReachesAuthor, Ahead
<1>2. PICK k \in Nat : k = Len(line)
  BY <1>1
<1>3. PICK l \in Seq(Tokens) : l = line
  BY <1>1
<1> DEFINE F == [i \in Nat |-> IF i = k + 2 THEN f ELSE E[i]]
<1> DEFINE r == Append(l, t)
<1>4. \A i \in 1 .. k + 1 : F[i] = E[i]
  BY <1>2
<1>5. F[k + 2] = f
  BY <1>2
<1>6. /\ r \in Seq(Tokens) /\ Len(r) = k + 1 /\ r[k + 1] = t /\ \A i \in 1 .. k : r[i] = l[i]
  BY <1>2, <1>3
<1> HIDE DEF F, r
<1>7. PlaceOK(E[k + 1])
  BY <1>1, <1>2 DEF Ahead
<1>8. LeadsOver(t, E[k + 1], f)
  BY <1>2
<1>9. PlaceOK(f) /\ (E[k + 1].doc.split => f.doc.split)
  BY <1>7, <1>8, StandsOn
<1>10. \A i \in 1 .. Len(r) : LeadsOver(r[i], F[i], F[i + 1])
  <2> TAKE i \in 1 .. Len(r)
  <2>1. CASE i = k + 1
    <3>1. F[i] = E[k + 1] /\ i + 1 = k + 2 /\ r[i] = t
      BY <1>2, <1>4, <1>6, <2>1
    <3> QED
      BY <1>5, <1>8, <3>1
  <2>2. CASE i # k + 1
    <3>1. i \in 1 .. k /\ i \in 1 .. k + 1 /\ i + 1 \in 1 .. k + 1
      BY <1>2, <1>6, <2>2
    <3>2. F[i] = E[i] /\ F[i + 1] = E[i + 1] /\ r[i] = l[i]
      BY <1>4, <1>6, <3>1
    <3>3. LeadsOver(l[i], E[i], E[i + 1])
      BY <1>1, <1>2, <1>3, <3>1 DEF Ahead
    <3> QED
      BY <3>2, <3>3
  <2> QED
    BY <2>1, <2>2
<1>11. Len(r) + 1 = k + 2
  BY <1>2, <1>6
<1>12. \A i \in 1 .. Len(r) + 1 : PlaceOK(F[i]) /\ (F[i].doc.split => F[Len(r) + 1].doc.split)
  <2> TAKE i \in 1 .. Len(r) + 1
  <2>1. CASE i = k + 2
    BY <1>5, <1>9, <1>11, <2>1
  <2>2. CASE i # k + 2
    <3>1. i \in 1 .. k + 1
      BY <1>2, <1>11, <2>2
    <3>2. PlaceOK(E[i]) /\ (E[i].doc.split => E[k + 1].doc.split)
      BY <1>1, <1>2, <3>1 DEF Ahead
    <3> QED
      BY <1>4, <1>5, <1>9, <1>11, <3>1, <3>2
  <2> QED
    BY <2>1, <2>2
<1>13. Ahead(r, F)
  BY <1>6, <1>10, <1>12 DEF Ahead
<1>14. F[1] = E[1]
  BY <1>2, <1>4
<1>15. line' = r
  BY <1>3 DEF r
<1>16. F[Len(r) + 1] = f
  BY <1>5, <1>11
<1>17. ReachesAuthor(line, F)'
  BY <1>13, <1>15, <1>16 DEF ReachesAuthor
<1>18. LastToken' = t.is
  <2>1. r # <<>> /\ Last(r) = t
    BY <1>2, <1>6 DEF Last
  <2> QED
    BY <1>15, <2>1 DEF LastToken
<1>19. \A is : HasToken(r, is) <=> HasToken(l, is) \/ t.is = is
  <2> SUFFICES ASSUME NEW is PROVE HasToken(r, is) <=> HasToken(l, is) \/ t.is = is
    OBVIOUS
  <2>1. ASSUME HasToken(r, is) PROVE HasToken(l, is) \/ t.is = is
    <3>1. PICK i \in 1 .. k + 1 : r[i].is = is
      BY <1>6, <2>1, HasNot
    <3>2. CASE i = k + 1
      BY <1>6, <3>1, <3>2
    <3>3. CASE i # k + 1
      <4>1. i \in 1 .. Len(l)
        BY <1>2, <1>3, <3>1, <3>3
      <4> QED
        BY <1>2, <1>3, <1>6, <3>1, <4>1, HasNot
    <3> QED
      BY <3>2, <3>3
  <2>2. ASSUME HasToken(l, is) PROVE HasToken(r, is)
    <3>1. PICK i \in 1 .. k : l[i].is = is
      BY <1>2, <1>3, <2>2, HasNot
    <3>2. i \in 1 .. Len(r) /\ r[i].is = is
      BY <1>2, <1>6, <3>1
    <3> QED
      BY <1>6, <3>2, HasNot
  <2>3. ASSUME t.is = is PROVE HasToken(r, is)
    <3>1. k + 1 \in 1 .. Len(r)
      BY <1>2, <1>6
    <3> QED
      BY <1>6, <2>3, <3>1, HasNot
  <2> QED
    BY <2>1, <2>2, <2>3
<1>20. f.named = HasToken(r, "=") /\ f.valued = HasToken(r, "value") /\ f.prev = t.is
  <2>1. /\ f.named = (E[k + 1].named \/ t.is = "=") /\ f.valued = (E[k + 1].valued \/ t.is = "value")
        /\ f.prev = t.is
    BY <1>8 DEF LeadsOver
  <2>2. E[k + 1].named = HasToken(l, "=") /\ E[k + 1].valued = HasToken(l, "value")
    BY <1>1, <1>2, <1>3
  <2>3. HasToken(r, "=") = (HasToken(l, "=") \/ t.is = "=")
    BY <1>19 DEF HasToken
  <2>4. HasToken(r, "value") = (HasToken(l, "value") \/ t.is = "value")
    BY <1>19 DEF HasToken
  <2> QED
    BY <2>1, <2>2, <2>3, <2>4
<1>21. ~Late(F[1])
  <2>1. PlaceOK(F[1])
    BY <1>2, <1>11, <1>12
  <2> QED
    BY <1>1, <1>14, <2>1 DEF PlaceOK, Late
<1>22. Follows(F[1], flags', current', settings')
  BY <1>1, <1>14
<1>23. Reads(F)'
  BY <1>1, <1>14, <1>15, <1>16, <1>17, <1>18, <1>20, <1>21, <1>22 DEF Reads
<1> QED
  BY <1>23 DEF CfgInv

\* The last place of the line, and the place behind another token.
AtEnd(e) ==
    /\ PlaceOK(e) /\ e.doc = doc /\ e.meant = meant /\ e.prev = LastToken
    /\ e.named = HasToken(line, "=") /\ e.valued = HasToken(line, "value")

BehindIt(t, e, f) ==
    /\ f.prev = t.is /\ f.valued = (e.valued \/ t.is = "value") /\ f.named = (e.named \/ t.is = "=")
    /\ f.doc = doc' /\ f.meant = meant'

\* The author's token makes the line one place longer.
LEMMA Writes ==
    ASSUME CfgInv, NEW t \in Tokens, ~reading, outcome = "none", line' = Append(line, t),
           UNCHANGED <<reading, flags, current, settings, outcome>>,
           \A e, f : AtEnd(e) /\ BehindIt(t, e, f) => LeadsOver(t, e, f)
    PROVE  CfgInv'
<1>1. PICK E : Reads(E)
  BY DEF CfgInv
<1>2. reading = FALSE /\ line \in Seq(Tokens) /\ Len(line) \in Nat
  BY <1>1 DEF CfgInv, Reads, ReachesAuthor, Ahead
<1>3. PICK e : e = E[Len(line) + 1]
  OBVIOUS
<1>4. PlaceOK(e)
  <2>1. Len(line) + 1 \in 1 .. Len(line) + 1
    BY <1>2
  <2> QED
    BY <1>1, <1>3, <2>1 DEF Reads, ReachesAuthor, Ahead
<1>5. AtEnd(e)
  BY <1>1, <1>2, <1>3, <1>4 DEF AtEnd, Reads, ReachesAuthor
<1>6. PICK f : f = [prev |-> t.is, valued |-> (e.valued \/ t.is = "value"), named |-> (e.named \/ t.is = "="),
                    doc |-> doc', meant |-> meant']
  OBVIOUS
<1>7. BehindIt(t, e, f)
  BY <1>6 DEF BehindIt
<1>8. LeadsOver(t, e, f)
  BY <1>5, <1>7
<1>9. f.doc = doc' /\ f.meant = meant'
  BY <1>7 DEF BehindIt
<1>10. LeadsOver(t, E[Len(line) + 1], f)
  BY <1>3, <1>8
<1> QED
  BY <1>1, <1>2, <1>9, <1>10, WrittenOn

\* Where the author may go on is where the line is open.
LEMMA OpenThere ==
    ASSUME NEW e, AtEnd(e)
    PROVE  /\ Writable => OpenAt(e)
           /\ line = <<>> => e.prev = "none"
           /\ PassBegins => e.prev \in {"none", "<", "value"}
           /\ e.doc = doc /\ e.meant = meant /\ (Late(e) <=> Splits)
BY DEF AtEnd, Writable, OpenAt, LastToken, PassBegins, Late, Splits, HasToken

\* The author begins a block.
LEMMA WritesBlock ==
    ASSUME CfgInv, NEW b \in CfgBlock, WriteBlock(b)
    PROVE  CfgInv'
<1> DEFINE t == Tok("<", b)
<1>1. /\ Writable /\ ~InBlock /\ ~reading /\ outcome = "none" /\ line' = Append(line, t)
      /\ doc' = [doc EXCEPT !.block = b] /\ meant' = Put(meant, b, NoEntry)
      /\ UNCHANGED <<reading, flags, current, settings, outcome>>
  BY DEF WriteBlock, WriteToken
<1>2. t \in Tokens /\ t.is = "<" /\ t.n = b
  BY DEF Tok, Tokens, Kinds
<1> HIDE DEF t
<1>3. ASSUME NEW e, NEW f, AtEnd(e), BehindIt(t, e, f) PROVE LeadsOver(t, e, f)
  <2>1. IsBlock(t, e, f)
    BY <1>1, <1>2, <1>3, OpenThere DEF IsBlock, InBlock, BehindIt
  <2> QED
    BY <1>3, <2>1 DEF LeadsOver, BehindIt
<1> QED
  BY <1>1, <1>2, <1>3, Writes

\* The author begins a block without a name.
LEMMA WritesNameless ==
    ASSUME CfgInv, WriteNameless
    PROVE  CfgInv'
<1> DEFINE t == Tok("nameless", NoName)
<1>1. /\ Writable /\ ~InBlock /\ ~reading /\ outcome = "none" /\ line' = Append(line, t)
      /\ doc' = [doc EXCEPT !.bad = TRUE] /\ meant' = meant
      /\ UNCHANGED <<reading, flags, current, settings, outcome>>
  BY DEF WriteNameless, WriteToken
<1>2. t \in Tokens /\ t.is = "nameless" /\ t.n = NoName
  BY DEF Tok, Tokens, Kinds
<1> HIDE DEF t
<1>3. ASSUME NEW e, NEW f, AtEnd(e), BehindIt(t, e, f) PROVE LeadsOver(t, e, f)
  <2>1. IsNameless(t, e, f)
    BY <1>1, <1>2, <1>3, OpenThere DEF IsNameless, BehindIt, InBlock
  <2> QED
    BY <1>3, <2>1 DEF LeadsOver, BehindIt
<1> QED
  BY <1>1, <1>2, <1>3, Writes

\* The author writes a name.
LEMMA WritesName ==
    ASSUME CfgInv, NEW n \in CfgName, WriteName(n)
    PROVE  CfgInv'
<1> DEFINE t == Tok("=", n)
<1>1. /\ Writable /\ InBlock /\ doc.name = NoName /\ ~reading /\ outcome = "none" /\ line' = Append(line, t)
      /\ doc' = [doc EXCEPT !.name = n, !.split = @ \/ Splits] /\ meant' = meant
      /\ UNCHANGED <<reading, flags, current, settings, outcome>>
  BY DEF WriteName, WriteToken
<1>2. t \in Tokens /\ t.is = "=" /\ t.n = n
  BY DEF Tok, Tokens, Kinds
<1> HIDE DEF t
<1>3. ASSUME NEW e, NEW f, AtEnd(e), BehindIt(t, e, f) PROVE LeadsOver(t, e, f)
  <2>1. IsName(t, e, f)
    BY <1>1, <1>2, <1>3, OpenThere DEF IsName, BehindIt, InBlock
  <2> QED
    BY <1>3, <2>1 DEF LeadsOver, BehindIt
<1> QED
  BY <1>1, <1>2, <1>3, Writes

\* The author writes a value.
LEMMA WritesValue ==
    ASSUME CfgInv, NEW v \in CfgValue, WriteValue(v)
    PROVE  CfgInv'
<1> DEFINE t == Tok("value", v)
<1>1. /\ Writable /\ doc.name # NoName /\ ~reading /\ outcome = "none" /\ line' = Append(line, t)
      /\ doc' = [doc EXCEPT !.name = NoName] /\ meant' = Means(v)
      /\ UNCHANGED <<reading, flags, current, settings, outcome>>
  BY DEF WriteValue, WriteToken
<1>2. t \in Tokens /\ t.is = "value" /\ t.n = v
  BY DEF Tok, Tokens, Kinds
<1> HIDE DEF t
<1>3. ASSUME NEW e, NEW f, AtEnd(e), BehindIt(t, e, f) PROVE LeadsOver(t, e, f)
  <2>1. IsValue(t, e, f)
    BY <1>1, <1>2, <1>3, OpenThere DEF IsValue, BehindIt, Means, MeansAt
  <2> QED
    BY <1>3, <2>1 DEF LeadsOver, BehindIt
<1> QED
  BY <1>1, <1>2, <1>3, Writes

\* The author begins a quote that goes on.
LEMMA WritesQuote ==
    ASSUME CfgInv, WriteQuote
    PROVE  CfgInv'
<1> DEFINE t == Tok("quote", NoName)
<1>1. /\ Writable /\ doc.name # NoName /\ ~reading /\ outcome = "none" /\ line' = Append(line, t)
      /\ doc' = [doc EXCEPT !.quote = TRUE] /\ meant' = Means("manyLines")
      /\ UNCHANGED <<reading, flags, current, settings, outcome>>
  BY DEF WriteQuote, WriteToken
<1>2. t \in Tokens /\ t.is = "quote" /\ t.n = NoName
  BY DEF Tok, Tokens, Kinds
<1> HIDE DEF t
<1>3. ASSUME NEW e, NEW f, AtEnd(e), BehindIt(t, e, f) PROVE LeadsOver(t, e, f)
  <2>1. IsQuote(t, e, f)
    BY <1>1, <1>2, <1>3, OpenThere DEF IsQuote, BehindIt, Means, MeansAt
  <2> QED
    BY <1>3, <2>1 DEF LeadsOver, BehindIt
<1> QED
  BY <1>1, <1>2, <1>3, Writes

\* The author ends a quote that went on.
LEMMA WritesUnquote ==
    ASSUME CfgInv, WriteUnquote
    PROVE  CfgInv'
<1> DEFINE t == Tok("quote", NoName)
<1>1. /\ doc.quote /\ line = <<>> /\ ~reading /\ outcome = "none" /\ line' = Append(line, t)
      /\ doc' = [doc EXCEPT !.quote = FALSE, !.name = NoName] /\ meant' = meant
      /\ UNCHANGED <<reading, flags, current, settings, outcome>>
  BY DEF WriteUnquote, WriteToken
<1>2. t \in Tokens /\ t.is = "quote" /\ t.n = NoName
  BY DEF Tok, Tokens, Kinds
<1> HIDE DEF t
<1>3. ASSUME NEW e, NEW f, AtEnd(e), BehindIt(t, e, f) PROVE LeadsOver(t, e, f)
  <2>1. IsUnquote(t, e, f)
    BY <1>1, <1>2, <1>3, OpenThere DEF IsUnquote, BehindIt
  <2> QED
    BY <1>3, <2>1 DEF LeadsOver, BehindIt
<1> QED
  BY <1>1, <1>2, <1>3, Writes

\* The author ends a block.
LEMMA WritesEnd ==
    ASSUME CfgInv, WriteEnd
    PROVE  CfgInv'
<1> DEFINE t == Tok(">", NoName)
<1>1. /\ Writable /\ InBlock /\ doc.name = NoName /\ ~reading /\ outcome = "none" /\ line' = Append(line, t)
      /\ doc' = [doc EXCEPT !.block = NoName] /\ meant' = meant
      /\ UNCHANGED <<reading, flags, current, settings, outcome>>
  BY DEF WriteEnd, WriteToken
<1>2. t \in Tokens /\ t.is = ">" /\ t.n = NoName
  BY DEF Tok, Tokens, Kinds
<1> HIDE DEF t
<1>3. ASSUME NEW e, NEW f, AtEnd(e), BehindIt(t, e, f) PROVE LeadsOver(t, e, f)
  <2>1. IsEnd(t, e, f)
    BY <1>1, <1>2, <1>3, OpenThere DEF IsEnd, BehindIt, InBlock
  <2> QED
    BY <1>3, <2>1 DEF LeadsOver, BehindIt
<1> QED
  BY <1>1, <1>2, <1>3, Writes

\* The author writes a comment of one line.
LEMMA WritesHash ==
    ASSUME CfgInv, WriteHash
    PROVE  CfgInv'
<1> DEFINE t == Tok("#", NoName)
<1>1. /\ Writable /\ ~reading /\ outcome = "none" /\ line' = Append(line, t)
      /\ doc' = doc /\ meant' = meant
      /\ UNCHANGED <<reading, flags, current, settings, outcome>>
  BY DEF WriteHash, WriteToken
<1>2. t \in Tokens /\ t.is = "#" /\ t.n = NoName
  BY DEF Tok, Tokens, Kinds
<1> HIDE DEF t
<1>3. ASSUME NEW e, NEW f, AtEnd(e), BehindIt(t, e, f) PROVE LeadsOver(t, e, f)
  <2>1. IsHash(t, e, f)
    BY <1>1, <1>2, <1>3, OpenThere DEF IsHash, BehindIt
  <2> QED
    BY <1>3, <2>1 DEF LeadsOver, BehindIt
<1> QED
  BY <1>1, <1>2, <1>3, Writes

\* The author begins a comment.
LEMMA WritesComment ==
    ASSUME CfgInv, WriteComment
    PROVE  CfgInv'
<1> DEFINE t == Tok("/*", NoName)
<1>1. /\ Writable /\ PassBegins /\ ~reading /\ outcome = "none" /\ line' = Append(line, t)
      /\ doc' = [doc EXCEPT !.comment = TRUE] /\ meant' = meant
      /\ UNCHANGED <<reading, flags, current, settings, outcome>>
  BY DEF WriteComment, WriteToken
<1>2. t \in Tokens /\ t.is = "/*" /\ t.n = NoName
  BY DEF Tok, Tokens, Kinds
<1> HIDE DEF t
<1>3. ASSUME NEW e, NEW f, AtEnd(e), BehindIt(t, e, f) PROVE LeadsOver(t, e, f)
  <2>1. IsBegun(t, e, f)
    BY <1>1, <1>2, <1>3, OpenThere DEF IsBegun, BehindIt
  <2> QED
    BY <1>3, <2>1 DEF LeadsOver, BehindIt
<1> QED
  BY <1>1, <1>2, <1>3, Writes

\* The author writes a line of a comment or of a quote.
LEMMA WritesText ==
    ASSUME CfgInv, WriteText
    PROVE  CfgInv'
<1> DEFINE t == Tok("text", NoName)
<1>1. /\ (doc.comment \/ doc.quote) /\ line = <<>> /\ ~reading /\ outcome = "none" /\ line' = Append(line, t)
      /\ doc' = doc /\ meant' = meant
      /\ UNCHANGED <<reading, flags, current, settings, outcome>>
  BY DEF WriteText, WriteToken
<1>2. t \in Tokens /\ t.is = "text" /\ t.n = NoName
  BY DEF Tok, Tokens, Kinds
<1> HIDE DEF t
<1>3. ASSUME NEW e, NEW f, AtEnd(e), BehindIt(t, e, f) PROVE LeadsOver(t, e, f)
  <2>1. IsText(t, e, f)
    BY <1>1, <1>2, <1>3, OpenThere DEF IsText, BehindIt
  <2> QED
    BY <1>3, <2>1 DEF LeadsOver, BehindIt
<1> QED
  BY <1>1, <1>2, <1>3, Writes

\* The author ends a comment.
LEMMA WritesUncomment ==
    ASSUME CfgInv, WriteUncomment
    PROVE  CfgInv'
<1> DEFINE t == Tok("*/", NoName)
<1>1. /\ doc.comment /\ ~reading /\ outcome = "none" /\ line' = Append(line, t)
      /\ doc' = [doc EXCEPT !.comment = FALSE] /\ meant' = meant
      /\ UNCHANGED <<reading, flags, current, settings, outcome>>
  BY DEF WriteUncomment, WriteToken
<1>2. t \in Tokens /\ t.is = "*/" /\ t.n = NoName
  BY DEF Tok, Tokens, Kinds
<1> HIDE DEF t
<1>3. ASSUME NEW e, NEW f, AtEnd(e), BehindIt(t, e, f) PROVE LeadsOver(t, e, f)
  <2>1. IsOver(t, e, f)
    BY <1>1, <1>2, <1>3, OpenThere DEF IsOver, BehindIt
  <2> QED
    BY <1>3, <2>1 DEF LeadsOver, BehindIt
<1> QED
  BY <1>1, <1>2, <1>3, Writes

\* The author ends the line, and the parser gets it.
LEMMA EndsLine ==
    ASSUME CfgInv, EndLine
    PROVE  CfgInv'
<1>1. /\ outcome = "none" /\ line # <<>> /\ reading' = TRUE
      /\ UNCHANGED <<doc, meant, line, flags, current, settings, outcome, ntok>>
  BY DEF EndLine
<1>2. PICK E : Reads(E)
  BY <1>1 DEF CfgInv
<1>3. Reads(E)'
  BY <1>1, <1>2 DEF Reads, ReachesAuthor
<1> QED
  BY <1>1, <1>3 DEF CfgInv

-----------------------------------------------------------------------------
(* The theorem                                                              *)

\* The parser and the author begin at one place.
LEMMA CfgInitHolds ==
    ASSUME CfgInit
    PROVE  CfgInv
<1> DEFINE g == [doc |-> [block |-> NoName, name |-> NoName, comment |-> FALSE, quote |-> FALSE,
                          bad |-> FALSE, split |-> FALSE],
                 meant |-> NoEntry, prev |-> "none", valued |-> FALSE, named |-> FALSE]
<1> DEFINE F == [i \in Nat |-> g]
<1>1. /\ g.doc = doc /\ g.meant = meant /\ g.prev = "none" /\ g.valued = FALSE /\ g.named = FALSE
      /\ g.doc \in Docs /\ ~g.doc.comment /\ ~g.doc.quote /\ g.doc.block = NoName /\ g.doc.name = NoName
      /\ ~g.doc.bad /\ ~g.doc.split
  BY DEF CfgInit, Docs
<1>2. F[1] = g
  OBVIOUS
<1> HIDE DEF g
<1> HIDE DEF F
<1>3. PlaceOK(g)
  BY <1>1 DEF PlaceOK
<1>4. line = <<>> /\ reading = FALSE /\ outcome = "none"
  BY DEF CfgInit
<1>5. Len(line) = 0 /\ Len(line) + 1 = 1 /\ line \in Seq(Tokens) /\ 1 .. Len(line) = {} /\ 1 .. 1 = {1}
  BY <1>4
<1>6. Ahead(line, F)
  BY <1>2, <1>3, <1>5 DEF Ahead
<1>7. HasToken(line, "=") = FALSE /\ HasToken(line, "value") = FALSE
  BY <1>5 DEF HasToken
<1>8. DOMAIN NoEntry = {}
  BY DEF NoEntry
<1>9. \A b \in CfgBlock : StoredBlock(b, settings, g.meant)
  BY <1>1, <1>8 DEF StoredBlock, CfgInit
<1>10. Follows(g, flags, current, settings)
  <2>1. flags = [comment |-> FALSE, quote |-> FALSE, block |-> FALSE]
    BY DEF CfgInit
  <2>2. current = [block |-> NoName, name |-> NoName, map |-> NoEntry] /\ current.map = NoEntry
    BY DEF CfgInit
  <2> QED
    BY <1>1, <1>9, <2>1, <2>2 DEF Follows
<1>11. Reads(F)
  BY <1>1, <1>2, <1>4, <1>5, <1>6, <1>7, <1>10 DEF Reads, ReachesAuthor, Late, LastToken
<1> QED
  BY <1>4, <1>11 DEF CfgInv

\* No step of either breaks the invariant.
LEMMA CfgInvKept ==
    ASSUME CfgInv, [CfgNext]_cfgVars
    PROVE  CfgInv'
<1>1. CASE \E b \in CfgBlock : WriteBlock(b)
  BY <1>1, WritesBlock
<1>2. CASE \E n \in CfgName : WriteName(n)
  BY <1>2, WritesName
<1>3. CASE \E v \in CfgValue : WriteValue(v)
  BY <1>3, WritesValue
<1>4. CASE WriteNameless \/ WriteQuote \/ WriteUnquote \/ WriteEnd
  BY <1>4, WritesNameless, WritesQuote, WritesUnquote, WritesEnd
<1>5. CASE WriteHash \/ WriteComment \/ WriteText \/ WriteUncomment
  BY <1>5, WritesHash, WritesComment, WritesText, WritesUncomment
<1>6. CASE EndLine \/ SkipComment \/ QuoteGoesOn \/ Aborts
  BY <1>6, EndsLine, SkipCommentKeeps, QuoteGoesOnKeeps, AbortsKeeps
<1>7. CASE Setting \/ QuoteBegins \/ BlockEnds \/ Drops
  BY <1>7, SettingKeeps, QuoteBeginsKeeps, BlockEndsKeeps, DropsKeeps
<1>8. CASE BlockBegins \/ OutsideBlocks \/ EndOfFile
  BY <1>8, BlockBeginsKeeps, OutsideBlocksKeeps, EndOfFileKeeps
<1>9. CASE UNCHANGED cfgVars
  <2>1. /\ doc' = doc /\ meant' = meant /\ line' = line /\ reading' = reading /\ flags' = flags
        /\ current' = current /\ settings' = settings /\ outcome' = outcome
    BY <1>9 DEF cfgVars
  <2>2. ASSUME NEW E, Reads(E) PROVE Reads(E)'
    BY <2>1, <2>2 DEF Reads, ReachesAuthor, LastToken
  <2>3. SettingsAsMeant' = SettingsAsMeant
    BY <2>1 DEF SettingsAsMeant, WellFormed, GetSetting
  <2> QED
    BY <2>1, <2>2, <2>3 DEF CfgInv
<1> QED
  BY <1>1, <1>2, <1>3, <1>4, <1>5, <1>6, <1>7, <1>8, <1>9 DEF CfgNext

\* The settings of a file are read as its author means them (ConfigFile::SetSource and
\* GetSetting): however its lines and comments lie, whatever its blocks are.
THEOREM SettingsRead == CfgSpec => []SettingsAsMeant
<1>1. CfgInit => CfgInv
  BY CfgInitHolds
<1>2. CfgInv /\ [CfgNext]_cfgVars => CfgInv'
  BY CfgInvKept
<1>3. CfgInv => SettingsAsMeant
  BY DEF CfgInv, SettingsAsMeant
<1> QED
  BY <1>1, <1>2, <1>3, PTL DEF CfgSpec
=============================================================================
