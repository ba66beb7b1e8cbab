------------------------------ MODULE BgClients ------------------------------
(***************************************************************************)
(* What LoongBgSrv does for its clients and for php beside the battles     *)
(* (module LoongBgSrv): the list of clients in the order of their last     *)
(* message, the timer that closes idle ones, the packets a client may send *)
(* in a second, and the php thread with the shutdown.                      *)
(*                                                                         *)
(* A moment is kept as the ticks that have passed since then. The time of  *)
(* a message is that of the poll that reported it, the time of a new       *)
(* client is that of its callback, so a round that lasts makes a           *)
(* difference.                                                             *)
(***************************************************************************)
EXTENDS Integers, Sequences, SequencesExt

CONSTANTS
    Peer,       \* connections
    IdleLimit,  \* 30 seconds
    Second,
    MinLimit, MaxLimit,  \* packets a second that are read, that are suffered
    TimerPeriod,  \* onTimer, 30 seconds
    MaxLag,     \* bound: how long a round of the loop lasts
    MaxTold     \* bound: calls of TellPhpBattleInfo

ASSUME BgClientsAssumption ==
    /\ IdleLimit \in Nat /\ Second \in Nat \ {0} /\ TimerPeriod \in Nat \ {0}
    /\ MinLimit \in Nat \ {0} /\ MaxLimit \in Nat /\ MinLimit <= MaxLimit
    /\ MaxLag \in Nat /\ MaxTold \in Nat

VARIABLES
    bgClientList,  \* bgClientList_
    bgClient,      \* connection -> lastRecv, lastSec (ticks since), packets, up
    lag,           \* time since poll returned
    sinceTimer,    \* time since onTimer ran
    srvAt,         \* main: "loop", "quit", "join", "done"
    shutdown,      \* shutdown_loongBgSrv
    battleInfo,    \* queue_, the end is 0
    phpAt,         \* phpThreadHandler: "test", "take", "ended"
    toldPhp, phpHas  \* history: infos put, infos loaded

bgClientsVars == <<bgClientList, bgClient, lag, sinceTimer, srvAt, shutdown, battleInfo, phpAt,
                   toldPhp, phpHas>>

Away == [up |-> FALSE, lastRecv |-> 0, lastSec |-> 0, packets |-> 0]

BgClientsInit ==
    /\ bgClientList = <<>> /\ bgClient = [p \in Peer |-> Away]
    /\ lag = 0 /\ sinceTimer = 0
    /\ srvAt = "loop" /\ shutdown = FALSE
    /\ battleInfo = <<>> /\ phpAt = "test" /\ toldPhp = 0 /\ phpHas = <<>>

-----------------------------------------------------------------------------
(* The loop's handlers                                                      *)

PeerUp(p) ==
    /\ srvAt = "loop" /\ ~bgClient[p].up
    /\ bgClientList' = Append(bgClientList, p)
    /\ bgClient' = [bgClient EXCEPT ![p] = [Away EXCEPT !.up = TRUE]]
    /\ UNCHANGED <<lag, sinceTimer, srvAt, shutdown, battleInfo, phpAt, toldPhp, phpHas>>

PeerDown(p) ==
    /\ srvAt = "loop" /\ bgClient[p].up
    /\ bgClientList' = RemoveFirst(bgClientList, p)
    /\ bgClient' = [bgClient EXCEPT ![p] = Away]
    /\ UNCHANGED <<lag, sinceTimer, srvAt, shutdown, battleInfo, phpAt, toldPhp, phpHas>>

Received(k) ==
    IF k.lastSec - lag < Second
    THEN [k EXCEPT !.lastRecv = lag, !.packets = @ + 1]
    ELSE [k EXCEPT !.lastRecv = lag, !.lastSec = lag, !.packets = 1]

\* TellPhpBattleInfo, which several messages lead to.
TellPhpBattleInfo ==
    /\ toldPhp < MaxTold
    /\ toldPhp' = toldPhp + 1
    /\ battleInfo' = Append(battleInfo, toldPhp')

\* A message that leaves the client where it was in the list.
PeerMessageInPlace(p) ==
    /\ srvAt = "loop" /\ bgClient[p].up
    /\ bgClient' = [bgClient EXCEPT ![p] = Received(@)]
    /\ UNCHANGED <<bgClientList, lag, sinceTimer, srvAt, shutdown, battleInfo, phpAt, toldPhp,
                   phpHas>>

\* onKaBuMessage. Too many packets are ignored; far too many close the
\* connection, inside this call.
PeerMessage(p) ==
    /\ srvAt = "loop" /\ bgClient[p].up
    /\ LET k == Received(bgClient[p])
       IN  IF k.packets > MaxLimit
           THEN /\ bgClientList' = RemoveFirst(bgClientList, p)
                /\ bgClient' = [bgClient EXCEPT ![p] = Away]
                /\ UNCHANGED <<battleInfo, toldPhp>>
           ELSE /\ bgClientList' = Append(RemoveFirst(bgClientList, p), p)
                /\ bgClient' = [bgClient EXCEPT ![p] = k]
                /\ \/ k.packets <= MinLimit /\ TellPhpBattleInfo
                   \/ UNCHANGED <<battleInfo, toldPhp>>
    /\ UNCHANGED <<lag, sinceTimer, srvAt, shutdown, phpAt, phpHas>>

\* onTimer closes the clients before the first one that is not idle.
OnTimer ==
    /\ srvAt = "loop" /\ sinceTimer >= TimerPeriod
    /\ sinceTimer' = 0
    /\ LET fresh == SelectInSeq(bgClientList, LAMBDA p : bgClient[p].lastRecv <= IdleLimit)
           idle == IF fresh = 0 THEN bgClientList ELSE SubSeq(bgClientList, 1, fresh - 1)
       IN  /\ bgClientList' = SubSeq(bgClientList, Len(idle) + 1, Len(bgClientList))
           /\ bgClient' = [p \in Peer |-> IF Contains(idle, p) THEN Away ELSE bgClient[p]]
    /\ UNCHANGED <<lag, srvAt, shutdown, battleInfo, phpAt, toldPhp, phpHas>>

\* The loop comes round to its poll.
NextRound ==
    /\ srvAt = "loop" /\ lag > 0
    /\ lag' = 0
    /\ UNCHANGED <<bgClientList, bgClient, sinceTimer, srvAt, shutdown, battleInfo, phpAt, toldPhp,
                   phpHas>>

\* tickMe: a battleground that has changed is told, or the loop is left.
BgTickMe ==
    /\ srvAt = "loop"
    /\ IF shutdown THEN srvAt' = "quit" /\ UNCHANGED <<battleInfo, toldPhp>>
                   ELSE TellPhpBattleInfo /\ UNCHANGED srvAt
    /\ UNCHANGED <<bgClientList, bgClient, lag, sinceTimer, shutdown, phpAt, phpHas>>

\* A stop that joins without a word.
StopBgSilently ==
    /\ srvAt = "quit"
    /\ srvAt' = "join"
    /\ UNCHANGED <<bgClientList, bgClient, lag, sinceTimer, shutdown, battleInfo, phpAt, toldPhp,
                   phpHas>>

StopBg ==
    /\ srvAt = "quit"
    /\ battleInfo' = Append(battleInfo, 0)
    /\ srvAt' = "join"
    /\ UNCHANGED <<bgClientList, bgClient, lag, sinceTimer, shutdown, phpAt, toldPhp, phpHas>>

JoinBgPhp ==
    /\ srvAt = "join" /\ phpAt = "ended"
    /\ srvAt' = "done"
    /\ UNCHANGED <<bgClientList, bgClient, lag, sinceTimer, shutdown, battleInfo, phpAt, toldPhp,
                   phpHas>>

-----------------------------------------------------------------------------
(* The php thread, the signal, and time                                     *)

PhpTest ==
    /\ phpAt = "test"
    /\ phpAt' = IF shutdown THEN "ended" ELSE "take"
    /\ UNCHANGED <<bgClientList, bgClient, lag, sinceTimer, srvAt, shutdown, battleInfo, toldPhp,
                   phpHas>>

PhpTake ==
    /\ phpAt = "take" /\ battleInfo # <<>>
    /\ battleInfo' = Tail(battleInfo)
    /\ phpHas' = IF Head(battleInfo) = 0 THEN phpHas ELSE Append(phpHas, Head(battleInfo))
    /\ phpAt' = "test"
    /\ UNCHANGED <<bgClientList, bgClient, lag, sinceTimer, srvAt, shutdown, toldPhp>>

Sigterm ==
    /\ ~shutdown
    /\ shutdown' = TRUE
    /\ UNCHANGED <<bgClientList, bgClient, lag, sinceTimer, srvAt, battleInfo, phpAt, toldPhp,
                   phpHas>>

\* How old the last message of a client may get, with MaxLag for the message
\* and for the timer.
AgeLimit == IdleLimit + TimerPeriod + 2 * MaxLag

Aged(n, limit) == IF n < limit THEN n + 1 ELSE n

Older(k) == IF k.up THEN [k EXCEPT !.lastRecv = Aged(@, AgeLimit + 1),
                                   !.lastSec = Aged(@, Second + MaxLag)] ELSE k

\* The loop is in its poll, or a round of it lasts; a timer that is due is run
\* in the next round.
BgTimePasses ==
    /\ srvAt = "loop"
    /\ \/ lag = 0 /\ sinceTimer < TimerPeriod /\ UNCHANGED lag
       \/ lag < MaxLag /\ sinceTimer < TimerPeriod + MaxLag /\ lag' = lag + 1
    /\ sinceTimer' = sinceTimer + 1
    /\ bgClient' = [p \in Peer |-> Older(bgClient[p])]
    /\ UNCHANGED <<bgClientList, srvAt, shutdown, battleInfo, phpAt, toldPhp, phpHas>>

BgClientsNext ==
    \/ \E p \in Peer : PeerUp(p) \/ PeerDown(p) \/ PeerMessage(p)
    \/ OnTimer \/ NextRound \/ BgTickMe \/ StopBg \/ JoinBgPhp
    \/ PhpTest \/ PhpTake \/ Sigterm \/ BgTimePasses

BgClientsSpec == BgClientsInit /\ [][BgClientsNext]_bgClientsVars

-----------------------------------------------------------------------------
(* What must hold                                                           *)

\* The list holds the clients that are connected, once each, in the order of
\* their last messages but for the length of a round; so onTimer, which stops
\* at the first client that is not idle, leaves nobody idle for long.
IdleAreClosed ==
    /\ ToSet(bgClientList) = {p \in Peer : bgClient[p].up}
    /\ \A i, j \in DOMAIN bgClientList : i < j =>
          /\ bgClientList[i] # bgClientList[j]
          /\ bgClient[bgClientList[j]].lastRecv <= bgClient[bgClientList[i]].lastRecv + MaxLag
    /\ \A p \in Peer : bgClient[p].lastRecv <= AgeLimit

\* php is told every state of a battle, in order, until SIGTERM; from then on
\* what waits is dropped, and the server stops, wherever its thread was.
PhpServesUntilStop ==
    /\ []<>(shutdown \/ phpHas = [n \in 1..toldPhp |-> n])
    /\ shutdown ~> srvAt = "done"
=============================================================================
