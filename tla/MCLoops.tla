------------------------------- MODULE MCLoops -------------------------------
(***************************************************************************)
(* An instance of the parts that run on loops and threads and share no     *)
(* state: a client, the timers of a loop, a pipe and a queue between       *)
(* threads, the database pool, LoongBgSrv's connections with its php       *)
(* thread, the framing of messages and what is inside, the signals of a    *)
(* server and the messages its Lua scripts handle. A behaviour picks one of them and is a *)
(* behaviour of its module; the variables of the others keep the values of *)
(* one initial state.                                                      *)
(***************************************************************************)
EXTENDS NetClient, TimerQueue, YPipe, BlockingQueue, Database, BgClients,
        Packet, Signals, LuaMessages, TLC

VARIABLE part

partsVars ==
    <<part, clientVars, timerVars, pipeVars, queueVars, dbVars, bgClientsVars,
      framingVars, packetVars, signalVars, luaVars>>

\* The heads of the frames of the two codecs.
Headers == [k \in Codecs |-> IF k = "kabu" THEN 3 ELSE 2]
MinLens == [k \in Codecs |-> IF k = "kabu" THEN 0 ELSE 2]

\* Arguments: numbers of both sizes and signs, strings that fit and that do not.
Arguments ==
    [kind : {"int16"}, value : {-2, 300}] \cup [kind : {"int32"}, value : {-2, 70000}]
    \cup [kind : {"utf"}, value : {<<>>, <<1>>, <<2, 255>>}]
CompiledTypes == {<<97>>}
ImportedTypes == {<<97, 98>>}
TypeNames == {<<97>>, <<97, 98>>, <<98>>}
Bodies == {<<>>, <<8>>, <<8, 1, 0>>, [i \in 1..32762 |-> i % 256]}

Init ==
    /\ part \in {"client", "timers", "pipe", "queue", "database", "clients", "framing",
                 "packet", "signals", "lua"}
    /\ QueueInit /\ DatabaseInit /\ BgClientsInit /\ LuaInit /\ PacketInit
    /\ ClientInit /\ (part # "client" => client.retry)
    /\ TimersInit /\ (part # "timers" => shared = {})
    /\ PipeInit /\ (part # "pipe" => held = (0 :> CHOOSE m \in Chunk : TRUE))
    /\ FramingInit /\ (part # "framing" => codec = "kabu")
    /\ SignalsInit /\ (part # "signals" => sigServer = "dbsrv")

Next ==
    \/ /\ part = "client" /\ ClientNext
       /\ UNCHANGED <<part, timerVars, pipeVars, queueVars, dbVars, bgClientsVars,
                       framingVars, packetVars, signalVars, luaVars>>
    \/ /\ part = "timers" /\ TimersNext
       /\ UNCHANGED <<part, clientVars, pipeVars, queueVars, dbVars, bgClientsVars,
                       framingVars, packetVars, signalVars, luaVars>>
    \/ /\ part = "pipe" /\ PipeNext
       /\ UNCHANGED <<part, clientVars, timerVars, queueVars, dbVars, bgClientsVars,
                       framingVars, packetVars, signalVars, luaVars>>
    \/ /\ part = "queue" /\ QueueNext
       /\ UNCHANGED <<part, clientVars, timerVars, pipeVars, dbVars, bgClientsVars,
                       framingVars, packetVars, signalVars, luaVars>>
    \/ /\ part = "database" /\ DatabaseNext
       /\ UNCHANGED <<part, clientVars, timerVars, pipeVars, queueVars, bgClientsVars,
                       framingVars, packetVars, signalVars, luaVars>>
    \/ /\ part = "clients" /\ BgClientsNext
       /\ UNCHANGED <<part, clientVars, timerVars, pipeVars, queueVars, dbVars,
                       framingVars, packetVars, signalVars, luaVars>>
    \/ /\ part = "framing" /\ FramingNext
       /\ UNCHANGED <<part, clientVars, timerVars, pipeVars, queueVars, dbVars,
                       bgClientsVars, packetVars, signalVars, luaVars>>
    \/ /\ part = "packet" /\ PacketNext
       /\ UNCHANGED <<part, clientVars, timerVars, pipeVars, queueVars, dbVars,
                       bgClientsVars, framingVars, signalVars, luaVars>>
    \/ /\ part = "signals" /\ SignalsNext
       /\ UNCHANGED <<part, clientVars, timerVars, pipeVars, queueVars, dbVars,
                       bgClientsVars, framingVars, packetVars, luaVars>>
    \/ /\ part = "lua" /\ LuaNext
       /\ UNCHANGED <<part, clientVars, timerVars, pipeVars, queueVars, dbVars,
                       bgClientsVars, framingVars, packetVars, signalVars>>

Spec == Init /\ [][Next]_partsVars

\* The fairness of a part is for when it is the one.
\* The loop of a client goes on; an attempt to connect ends; time passes.
ClientFairness ==
    /\ WF_clientVars(part = "client" /\ LoopStep)
    /\ WF_clientVars(part = "client" /\ Resolve)
    /\ WF_clientVars(part = "client" /\ Tick)

\* The loop, the threads that schedule and the clock go on.
TimersFairness ==
    /\ WF_timerVars(part = "timers" /\ (Wake \/ TakeExpired \/ RunTimer \/ Rearm \/ ResetForNext))
    /\ WF_timerVars(part = "timers" /\ Expire)
    /\ WF_timerVars(part = "timers" /\ TimePasses)
    /\ \A p \in Other \cup {Loop} : WF_timerVars(part = "timers" /\ FinishSchedule(p))

\* The loop's timer fires, main goes on and the php thread goes on.
PhpFairness ==
    /\ WF_bgClientsVars(part = "clients" /\ ((BgTickMe /\ shutdown) \/ StopBg \/ JoinBgPhp))
    /\ WF_bgClientsVars(part = "clients" /\ (PhpTest \/ PhpTake))

FairSpec == Spec /\ ClientFairness /\ TimersFairness /\ PhpFairness
=============================================================================
