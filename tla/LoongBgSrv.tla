---------------------------- MODULE LoongBgSrv ----------------------------
(***************************************************************************)
(* LoongBgSrv (src/game/LoongBgSrv/LoongBgSrv.cc): the connections of the  *)
(* players, login, and the battlegrounds behind them (Battleground). A     *)
(* connection that is closed by the server is torn down inside close(), so *)
(* a refused login and the callback that follows are one step.             *)
(***************************************************************************)
EXTENDS Battleground

CONSTANTS
    maxJoinTimes,  \* battles a player may take part in on a day (LoongBgSrv::login)
    NoId           \* BgClient::player is NULL

ASSUME LoongBgSrvAssumption == maxJoinTimes \in Nat \ {0} /\ NoId \notin Id

VARIABLES
    up,           \* connections that are up
    client,       \* BgClient::player of each, by its playerId
    bgPlayerMap,  \* the ids in bgPlayerMap_
    \* history: players whose connection logged in again as somebody else
    orphans

srvVars == <<up, client, bgPlayerMap, orphans>>
vars == <<bgVars, srvVars>>

Init ==
    /\ BgInit
    /\ up = {}
    /\ client = [c \in Conn |-> NoId]
    /\ bgPlayerMap = {}
    /\ orphans = {}

-----------------------------------------------------------------------------
(* onConnectionCallback                                                     *)

ConnectionUp(c) ==
    /\ c \notin up
    /\ up' = up \cup {c}
    /\ client' = [client EXCEPT ![c] = NoId]
    /\ UNCHANGED <<bgVars, bgPlayerMap, orphans>>

\* MUTANT of ConnectionDown: the player is deleted without leaving.
ConnectionDownStays(c) ==
    /\ c \in up
    /\ up' = up \ {c}
    /\ client' = [client EXCEPT ![c] = NoId]
    /\ bgPlayerMap' = bgPlayerMap \ {client[c]}
    /\ here' = here \ {<<c, client[c]>>}
    /\ UNCHANGED <<bgId, team, pScene, stateVars, fightVars, memberVars, joinVars, told,
                   boundVars, orphans>>

\* The player leaves its battleground and is deleted with the connection.
ConnectionDown(c) ==
    LET p == <<c, client[c]>> IN
    /\ c \in up
    /\ up' = up \ {c}
    /\ client' = [client EXCEPT ![c] = NoId]
    /\ IF client[c] = NoId
       THEN UNCHANGED <<bgVars, bgPlayerMap>>
       ELSE /\ bgPlayerMap' = bgPlayerMap \ {client[c]}
            /\ here' = here \ {p}
            /\ ClosePlayer(p)
            /\ pScene' = [pScene EXCEPT ![p] = 0]
            /\ UNCHANGED <<stateVars, fightVars, bFirst, joinTimes, sameDay, boundVars>>
    /\ UNCHANGED orphans

-----------------------------------------------------------------------------
(* onKaBuMessage                                                            *)

GetJoinTimes(i) == joinTimes[i]
HasBgPlayer(i) == i \in bgPlayerMap

\* A login with a packet that cannot be read, or whose MD5 is wrong: the connection
\* closes.
LoginRefused(c) == ConnectionDown(c)

\* Login of a player who is in already, from anywhere: this connection closes.
LoginTwice(c, i) ==
    /\ HasBgPlayer(i)
    /\ GetJoinTimes(i) < maxJoinTimes
    /\ ConnectionDown(c)

\* A login that is accepted. (One of a player with maxJoinTimes battles is
\* answered -2 and changes nothing.) A player the connection has logged in
\* before is forgotten, but stays where it is.
LoginOk(c, i) ==
    /\ c \in up
    /\ GetJoinTimes(i) < maxJoinTimes
    /\ ~HasBgPlayer(i)
    /\ bgPlayerMap' = bgPlayerMap \cup {i}
    /\ client' = [client EXCEPT ![c] = i]
    /\ here' = here \cup {<<c, i>>}
    /\ orphans' = IF client[c] = NoId THEN orphans ELSE orphans \cup {<<c, client[c]>>}
    /\ UNCHANGED <<bgId, team, pScene, stateVars, fightVars, memberVars, joinVars, told,
                   boundVars, up>>

Message(c) ==
    LET p == <<c, client[c]>> IN
    /\ c \in up /\ client[c] # NoId
    /\ \/ \E b \in Bg, t \in Team : EnterBattle(p, b, t)
       \/ ExitBattle(p)
       \/ \E t \in Team : DestroyBuilding(p, t)
       \/ PlantFlower(p)
    /\ UNCHANGED srvVars

-----------------------------------------------------------------------------
Next ==
    \/ \E c \in Conn : ConnectionUp(c) \/ ConnectionDown(c) \/ LoginRefused(c) \/ Message(c)
    \/ \E c \in Conn, i \in Id : LoginTwice(c, i) \/ LoginOk(c, i)
    \/ \E b \in Bg : (RunBattleground(b) \/ TimeLimit(b) \/ WaitLimit(b)) /\ UNCHANGED srvVars
    \/ NewDay /\ UNCHANGED srvVars

Spec == Init /\ [][Next]_vars

\* tickMe fires every 0.2 s for a third of the battlegrounds, and time passes.
Fairness ==
    \A b \in Bg : /\ WF_vars(RunBattleground(b) /\ UNCHANGED srvVars)
                  /\ WF_vars(TimeLimit(b) /\ UNCHANGED srvVars)
                  /\ WF_vars(WaitLimit(b) /\ UNCHANGED srvVars)

FairSpec == Spec /\ Fairness

-----------------------------------------------------------------------------
(* Properties                                                               *)

MembersOf(b, t) == {p \in here : bgId[p] = b /\ team[p] = t}

\* The counters a battle is started, ended and advertised by are those of the
\* players in it, however they came and went, and no team is ever too large; and
\* what php was last told of a battleground is what it is like now.
TeamsCounted ==
    /\ \A b \in Bg, t \in Team :
           teamNum[b][t] = Cardinality(MembersOf(b, t)) /\ teamNum[b][t] <= sMaxTeamNum
    /\ \A b \in Bg : told[b] = Info(teamNum[b], state[b])

\* A scene broadcasts to the players that are in its battleground, to each once,
\* and to no deleted one; and each of them has a connection that is up, unless that
\* connection logged in again as another player.
SceneIsBattle ==
    \A b \in Bg :
        /\ scene[b] = {p \in here : bgId[p] = b}
        /\ \A p, q \in scene[b] : IdOf(p) = IdOf(q) => p = q
        /\ \A p \in scene[b] \ orphans : p[1] \in up /\ client[p[1]] = p[2]

\* A battle is settled at most once, with the result its buildings say; after a draw
\* everyone there is given the same, else somebody wins, somebody loses, and it is by
\* the team whose building stands. Nobody takes part in a battle that runs without
\* being counted for it.
SettledRight ==
    \A b \in Bg :
        /\ Len(settled[b]) <= 1
        /\ \A i \in DOMAIN settled[b] : LET s == settled[b][i] IN
              /\ s.result = Verdict(s.down)
              /\ s.awards = IF Cardinality(s.down) = 1
                            THEN {<<t, IF t \in s.down THEN 2 ELSE 1>> : t \in Team}
                            ELSE {<<t, 3>> : t \in Team}
        /\ state[b] = "run" => IdsOf(scene[b]) \subseteq charged[b]

\* A battleground nobody fights in is as good as new, but for flowers planted by
\* players who left it.
FreshStart ==
    \A b \in Bg : state[b] = "none" =>
        /\ bFirst[b] /\ IsEmpty(b) /\ scene[b] = {}
        /\ down[b] = {} /\ result[b] = "none" /\ settled[b] = <<>>
        /\ \A f \in flowers[b] : f.team = "none"

\* Nobody is counted for more than maxJoinTimes battles on one day.
JoinLimit == sameDay => \A i \in Id : joinTimes[i] <= maxJoinTimes

\* No two flowers of a scene have the same id.
FlowerIdsUnique == \A b \in Bg : \A f, g \in flowers[b] : f.id = g.id => f = g

\* A battleground that is in use is free again some day.
BattlesEnd == \A b \in Bg : state[b] # "none" ~> state[b] = "none"

Abstract ==
    INSTANCE Battle WITH
        phase <- [b \in Bg |->
                    CASE state[b] = "none" -> "idle"
                      [] state[b] = "run"  -> "fight"
                      [] state[b] = "exit" -> "over"
                      [] OTHER             -> "gather"],
        members <- scene,
        prize <- [b \in Bg |-> IF settled[b] = <<>> THEN "none" ELSE settled[b][1].result]

\* Whatever the players and their connections do, the battlegrounds behave as
\* module Battle has them: one battle at a time for a player, a prize only at
\* the end of a fight with somebody on both sides, and everyone released.
Promise == Abstract!Spec
=============================================================================
