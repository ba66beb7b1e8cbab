----------------------------- MODULE NetClient -----------------------------
(***************************************************************************)
(* mysdk/net as a client uses it (Hotel of LoongBgSrv): a TcpClient, its   *)
(* Connector with the Session of the attempt under way, at most one        *)
(* TcpConnection, and the EventLoop that runs their handlers, the retry    *)
(* timer and the queued functors. The server and the kernel are outside.   *)
(*                                                                         *)
(* A delay is a number of ticks, the first being kInitRetryDelayMs; only   *)
(* the order of delays matters here. One round of the loop handles what    *)
(* one poll reported, in any order, then runs the queued functors.         *)
(***************************************************************************)
EXTENDS Integers, Sequences, SequencesExt

CONSTANTS
    InitRetryDelay, MaxRetryDelay,  \* kInitRetryDelayMs, kMaxRetryDelayMs
    SlowHandlers,  \* time may pass while a round of the loop is under way
    MaxFaults,     \* bound: failures of connect() with the server up
    MaxFlips,      \* bound: times the server goes down or comes up
    MaxCloses      \* bound: connections the server closes

ASSUME ClientAssumption ==
    /\ InitRetryDelay \in Nat \ {0} /\ MaxRetryDelay \in Nat
    /\ InitRetryDelay <= MaxRetryDelay
    /\ SlowHandlers \in BOOLEAN
    /\ MaxFaults \in Nat /\ MaxFlips \in Nat /\ MaxCloses \in Nat

VARIABLES
    client,    \* the TcpClient and its Connector, a record
    hotel,     \* the loop: "idle", "poll", "events", "functors", "ended", "destroyed"
    reported,  \* sessions of the round that are still to be handled
    running,   \* functors of the round that are still to be run
    server     \* the server listens, times this changed, closes, failures so far

clientVars == <<client, hotel, reported, running, server>>

ClientInit ==
    /\ \E retry \in BOOLEAN :
          client = [state |-> "disconnected", session |-> "none", sock |-> "none",
                    timers |-> <<>>, delay |-> InitRetryDelay, conn |-> "none",
                    retry |-> retry, queue |-> <<>>, lost |-> FALSE, stuck |-> FALSE,
                    failed |-> FALSE]
    /\ hotel = "idle" /\ reported = {} /\ running = <<>>
    /\ server = [up |-> TRUE, flips |-> 0, closes |-> 0, faults |-> 0]

-----------------------------------------------------------------------------
(* Connector. Each operator gives the client after the call.                *)

\* A Session that is still there is replaced, whatever is queued for it.
Connecting(k) == [k EXCEPT !.state = "connecting", !.session = "on", !.sock = "progress"]

Retry(k) == [k EXCEPT !.sock = "none", !.state = "disconnected",
                      !.timers = Append(@, k.delay),
                      !.delay = IF 2 * k.delay < MaxRetryDelay THEN 2 * k.delay
                                                               ELSE MaxRetryDelay]

\* connect(2) answers that it is under way, or with an error that is tried
\* again, or with one that is only logged.
Start(k, answer) ==
    IF k.state # "disconnected" THEN [k EXCEPT !.failed = TRUE]
    ELSE CASE answer = "progress" -> Connecting(k)
           [] answer = "again" -> Retry(k)
           [] answer = "fatal" -> [k EXCEPT !.stuck = TRUE]

Restart(k, answer) ==
    Start([k EXCEPT !.state = "disconnected", !.delay = InitRetryDelay], answer)

RemoveAddResetSession(k) ==
    [k EXCEPT !.session = "off", !.queue = Append(@, "DestroySession")]

DestroySession(k) == [k EXCEPT !.session = "none"]

\* TcpClient::newConnection.
NewConnection(k) == [k EXCEPT !.conn = "connected", !.sock = "none"]

\* HandleWrite as it would be if it did not look at state_.
WriteAnyway(k) ==
    LET r == RemoveAddResetSession(k)
    IN  IF k.sock # "ok" THEN Retry(r) ELSE NewConnection([r EXCEPT !.state = "connected"])

HandleWrite(k) ==
    IF k.state # "connecting" THEN k
    ELSE LET r == RemoveAddResetSession(k)
         IN  IF k.sock \in {"refused", "self"} THEN Retry(r)
             ELSE NewConnection([r EXCEPT !.state = "connected"])

HandleError(k) ==
    IF k.state # "connecting" THEN [k EXCEPT !.failed = TRUE]
    ELSE Retry(RemoveAddResetSession(k))

\* Session::handleEvent: epoll reports an error together with a write.
HandleEvent(k) == HandleWrite(IF k.sock = "refused" THEN HandleError(k) ELSE k)

\* removeConnection without the new attempt for a connection lost again.
RemoveForGood(k, answer) == [k EXCEPT !.conn = "none"]

\* TcpClient::removeConnection, called by TcpConnection::connectDestroyed.
RemoveConnection(k, answer) ==
    [IF k.retry THEN Restart(k, answer) ELSE k EXCEPT !.conn = "none", !.lost = TRUE]

-----------------------------------------------------------------------------
(* The server and the kernel                                                *)

Alive == hotel \notin {"ended", "destroyed"} /\ ~client.failed

FlipServer ==
    /\ Alive /\ server.flips < MaxFlips
    /\ server' = [server EXCEPT !.up = ~@, !.flips = @ + 1]
    /\ UNCHANGED <<client, hotel, reported, running>>

\* The attempt ends: a server that is down refuses it; the kernel may connect
\* the socket to itself when no server holds the port.
Resolve ==
    /\ Alive /\ client.sock = "progress"
    /\ \E how \in IF server.up THEN {"ok"} ELSE {"refused", "self"} :
          client' = [client EXCEPT !.sock = how]
    /\ UNCHANGED <<hotel, reported, running, server>>

ServerCloses ==
    /\ Alive /\ client.conn = "connected" /\ server.closes < MaxCloses
    /\ client' = [client EXCEPT !.conn = "fin"]
    /\ server' = [server EXCEPT !.closes = @ + 1]
    /\ UNCHANGED <<hotel, reported, running>>

Answers ==
    {"progress"} \cup (IF ~server.up \/ server.faults < MaxFaults THEN {"again"} ELSE {})
                 \cup (IF server.faults < MaxFaults THEN {"fatal"} ELSE {})

Fault(answer) ==
    server' = [server EXCEPT !.faults = IF \/ answer = "fatal"
                                           \/ server.up /\ answer = "again"
                                        THEN @ + 1 ELSE @]

\* A retry timer runs down: handlers are taken to last less than a delay
\* unless SlowHandlers.
Tick ==
    /\ Alive /\ \E i \in DOMAIN client.timers : client.timers[i] > 0
    /\ hotel = "poll" \/ SlowHandlers
    /\ client' = [client EXCEPT !.timers = [i \in DOMAIN @ |-> IF @[i] > 0 THEN @[i] - 1 ELSE 0]]
    /\ UNCHANGED <<hotel, reported, running, server>>

-----------------------------------------------------------------------------
(* EventLoop                                                                *)

\* Hotel's owner calls TcpClient::connect before the loop runs.
Connect ==
    /\ hotel = "idle"
    /\ \E answer \in Answers : client' = Start(client, answer) /\ Fault(answer)
    /\ hotel' = "poll"
    /\ UNCHANGED <<reported, running>>

Ready ==
    (IF client.session = "on" /\ client.sock \in {"ok", "self", "refused"} THEN {"connector"}
     ELSE {})
    \cup (IF Contains(client.timers, 0) THEN {"timer"} ELSE {})
    \cup (IF client.conn = "fin" THEN {"connection"} ELSE {})

\* The timerfd may be reported for a timer of somebody else. A wake-up for
\* nothing of the client's is left out.
Poll ==
    /\ Alive /\ hotel = "poll"
    /\ Ready # {} \/ client.queue # <<>>
    /\ hotel' = "events"
    /\ \E other \in SUBSET {"timer"} : reported' = Ready \cup other
    /\ UNCHANGED <<client, running, server>>

HandleConnector ==
    /\ Alive /\ "connector" \in reported
    /\ client' = HandleEvent(client)
    /\ reported' = reported \ {"connector"}
    /\ UNCHANGED <<hotel, running, server>>

\* TimerQueue::handleRead runs what is due by now; a timer that has run is
\* deleted.
HandleTimer ==
    /\ Alive /\ "timer" \in reported
    /\ \/ \E i \in DOMAIN client.timers :
             /\ client.timers[i] = 0
             /\ \E answer \in Answers :
                   /\ client' = Start([client EXCEPT !.timers = RemoveAt(@, i)], answer)
                   /\ Fault(answer)
             /\ reported' = IF \E n \in DOMAIN client.timers \ {i} : client.timers[n] = 0
                            THEN reported ELSE reported \ {"timer"}
       \/ /\ ~Contains(client.timers, 0)
          /\ reported' = reported \ {"timer"}
          /\ UNCHANGED <<client, server>>
    /\ UNCHANGED <<hotel, running>>

\* TcpConnection::handleRead finds the end of the stream: handleClose.
HandleConnection ==
    /\ Alive /\ "connection" \in reported
    /\ client' = [client EXCEPT !.conn = "disconnected", !.queue = Append(@, "connectDestroyed")]
    /\ reported' = reported \ {"connection"}
    /\ UNCHANGED <<hotel, running, server>>

SwapFunctors ==
    /\ Alive /\ hotel = "events" /\ reported = {}
    /\ hotel' = "functors" /\ running' = client.queue
    /\ client' = [client EXCEPT !.queue = <<>>]
    /\ UNCHANGED <<reported, server>>

RunFunctor ==
    /\ Alive /\ hotel = "functors" /\ running # <<>>
    /\ running' = Tail(running)
    /\ \/ /\ Head(running) = "DestroySession"
          /\ client' = DestroySession(client)
          /\ UNCHANGED server
       \/ /\ Head(running) = "connectDestroyed"
          /\ \E answer \in Answers :
                client' = RemoveConnection(client, answer) /\ Fault(answer)
    /\ UNCHANGED <<hotel, reported>>

EndRound ==
    /\ Alive /\ hotel = "functors" /\ running = <<>>
    /\ hotel' = "poll"
    /\ UNCHANGED <<client, reported, running, server>>

\* quit() is tested between rounds.
QuitLoop ==
    /\ Alive /\ hotel = "poll"
    /\ hotel' = "ended"
    /\ UNCHANGED <<client, reported, running, server>>

\* ~TcpClient and ~Connector, after the loop: a queued functor never runs.
DestroyClient ==
    /\ hotel = "ended"
    /\ client' = [client EXCEPT !.conn = "none", !.session = "none"]
    /\ hotel' = "destroyed"
    /\ UNCHANGED <<reported, running, server>>

LoopStep == Poll \/ HandleConnector \/ HandleTimer \/ HandleConnection \/ SwapFunctors
            \/ RunFunctor \/ EndRound

ClientNext == Connect \/ LoopStep \/ Resolve \/ Tick \/ FlipServer \/ ServerCloses
              \/ QuitLoop \/ DestroyClient

ClientSpec == ClientInit /\ [][ClientNext]_clientVars

-----------------------------------------------------------------------------
(* What must hold                                                           *)

\* Something will connect again: a retry timer, or the attempt under way.
Attempts == {<<"timer", i>> : i \in DOMAIN client.timers}
            \cup (IF client.state = "connecting" /\ client.session = "on" THEN {<<"session", 0>>}
                  ELSE {})
            \cup (IF client.conn # "none" THEN {<<"connection", 0>>} ELSE {})

\* Once connect() has been called, exactly one thing leads on: a retry timer,
\* an attempt that is watched for, or a connection. There are never two, so
\* there are never two sockets to the server, and never none, which nothing
\* would ever notice; no assert of the Connector fails.
OneAttempt ==
    /\ ~client.failed
    /\ Alive /\ hotel # "idle" /\ ~client.stuck
          => \/ \E a \in Attempts : Attempts = {a}
             \/ client.lost /\ ~client.retry /\ Attempts = {}

\* A client that retries is connected again and again while the server is up,
\* however often connections are refused or lost, unless connect() met an
\* error that is only logged.
ClientReconnects ==
    client.retry => []<>(\/ client.conn = "connected" \/ ~server.up
                         \/ hotel \in {"idle", "ended", "destroyed"} \/ client.stuck)
=============================================================================
