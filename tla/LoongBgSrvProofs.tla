-------------------------- MODULE LoongBgSrvProofs --------------------------
(***************************************************************************)
(* Theorems about LoongBgSrv and the battlegrounds behind it, for any      *)
(* number of battlegrounds, connections and players and any size of teams: *)
(* who is counted where, how a fight is settled, what a battleground is    *)
(* like before it is used again, and that it all implements Battle. Then   *)
(* the list of the clients, from which onTimer takes the idle ones.        *)
(***************************************************************************)
EXTENDS LoongBgSrv, BgClients, WellFoundedInduction, FiniteSetTheorems,
    SequenceTheorems, TLAPS

-----------------------------------------------------------------------------
(* The inductive invariant                                                  *)

States == {"none", "wait", "countdown", "start", "run", "exit"}
Results == {"none", "black", "white", "draw"}

BgOK ==
    /\ here \subseteq Player
    /\ bgId \in [Player -> Bg \cup {0}]
    /\ team \in [Player -> Team \cup {"none"}]
    /\ pScene \in [Player -> Bg \cup {0}]
    /\ state \in [Bg -> States]
    /\ over \in [Bg -> BOOLEAN] /\ wait \in [Bg -> {"off", "on", "late"}]
    /\ bFirst \in [Bg -> BOOLEAN] /\ result \in [Bg -> Results]
    /\ teamNum \in [Bg -> [Team -> Nat]]
    /\ scene \in [Bg -> SUBSET Player]
    /\ down \in [Bg -> SUBSET Team] /\ flowers \in [Bg -> SUBSET Flower]
    /\ sStartId \in Nat /\ nplant \in Nat /\ nenter \in Nat
    /\ charged \in [Bg -> SUBSET Id]
    /\ settled = [b \in Bg |-> settled[b]]
    /\ up \subseteq Conn /\ client \in [Conn -> Id \cup {NoId}]

\* A player of a battleground exists, has a team and was last in its scene; one
\* of none has no team.
Membership ==
    \A p \in Player :
        /\ bgId[p] = 0 <=> team[p] = "none"
        /\ bgId[p] # 0 => p \in here /\ pScene[p] = bgId[p]

\* bgPlayerMap_ lets a playerId in once, and BgClient::player points to the last
\* player its connection logged in.
LoggedIn ==
    /\ \A p \in here : IdOf(p) \in bgPlayerMap
    /\ \A p, q \in here : IdOf(p) = IdOf(q) => p = q
    /\ \A c \in Conn : client[c] # NoId => c \in up /\ <<c, client[c]>> \in here
    /\ \A p \in here \ orphans : client[p[1]] = p[2]

InScene == \A b \in Bg : scene[b] = {p \in here : bgId[p] = b}

TeamsRight ==
    \A b \in Bg, t \in Team :
        teamNum[b][t] = Cardinality(MembersOf(b, t)) /\ teamNum[b][t] <= sMaxTeamNum

Told == told = [b \in Bg |-> Info(teamNum[b], state[b])]

\* A settlement that follows from the buildings it was made from.
Fair(s) ==
    /\ s.down \subseteq Team
    /\ s.result = Verdict(s.down)
    /\ s.awards = IF Cardinality(s.down) = 1
                  THEN {<<t, IF t \in s.down THEN 2 ELSE 1>> : t \in Team}
                  ELSE {<<t, 3>> : t \in Team}

\* A battle is settled as it ends, so nothing is settled before; and who is in the
\* scene of a fight was counted when it began or as it entered.
Settled ==
    \A b \in Bg :
        /\ settled[b] # <<>> =>
               state[b] = "exit" /\ \E s : settled[b] = <<s>> /\ Fair(s)
        /\ state[b] = "run" => IdsOf(scene[b]) \subseteq charged[b]

\* bFirst_ says that pState_ is NULL; then nobody is there to fight or plant.
Fresh ==
    \A b \in Bg :
        /\ bFirst[b] = TRUE <=> state[b] = "none"
        /\ result[b] # "none" => state[b] = "exit"
        /\ state[b] = "none" =>
               /\ scene[b] = {} /\ down[b] = {}
               /\ \A f \in flowers[b] : f.team = "none"

BgInv ==
    /\ BgOK /\ Membership /\ LoggedIn /\ InScene /\ TeamsRight /\ Told /\ Settled /\ Fresh

-----------------------------------------------------------------------------
(* What the proofs use again and again                                      *)

LEMMA TeamsFinite ==
    ASSUME here \subseteq Player, NEW b, NEW t
    PROVE  IsFiniteSet(MembersOf(b, t))
<1>1. IsFiniteSet(Player)
  BY BattlegroundAssumption, FS_Product DEF Player
<1>2. MembersOf(b, t) \in SUBSET Player
  BY DEF MembersOf
<1> QED
  BY <1>1, <1>2, FS_Subset

\* A part of the invariant stays as long as the variables it speaks of do.
LEMMA Frames ==
    ASSUME BgInv
    PROVE  /\ UNCHANGED playerVars => Membership'
           /\ UNCHANGED <<here, srvVars>> => LoggedIn'
           /\ UNCHANGED <<here, bgId, scene>> => InScene'
           /\ UNCHANGED <<here, bgId, team, teamNum>> => TeamsRight'
           /\ UNCHANGED <<teamNum, state, told>> => Told'
           /\ UNCHANGED <<settled, state, scene, charged>> => Settled'
           /\ UNCHANGED <<bFirst, state, result, scene, down, flowers>> => Fresh'
<1>1. UNCHANGED playerVars => Membership'
  BY DEF BgInv, Membership, playerVars
<1>2. UNCHANGED <<here, srvVars>> => LoggedIn'
  BY DEF BgInv, LoggedIn, srvVars
<1>3. UNCHANGED <<here, bgId, scene>> => InScene'
  BY DEF BgInv, InScene
<1>4. UNCHANGED <<here, bgId, team, teamNum>> => TeamsRight'
  BY DEF BgInv, TeamsRight, MembersOf
<1>5. UNCHANGED <<teamNum, state, told>> => Told'
  BY DEF BgInv, Told
<1>6. UNCHANGED <<settled, state, scene, charged>> => Settled'
  BY DEF BgInv, Settled
<1>7. UNCHANGED <<bFirst, state, result, scene, down, flowers>> => Fresh'
  BY DEF BgInv, Fresh
<1> QED
  BY <1>1, <1>2, <1>3, <1>4, <1>5, <1>6, <1>7

LEMMA InitBg == Init => BgInv
<1> SUFFICES ASSUME Init PROVE BgInv
  OBVIOUS
<1> USE DEF Init, BgInit
<1>1. BgOK
  BY DEF BgOK, States, Results, Team, NoTeams
<1>2. Membership /\ LoggedIn /\ InScene
  BY DEF Membership, LoggedIn, InScene
<1>3. TeamsRight
  <2> SUFFICES ASSUME NEW b \in Bg, NEW t \in Team
               PROVE  teamNum[b][t] = Cardinality(MembersOf(b, t)) /\ teamNum[b][t] <= sMaxTeamNum
    BY DEF TeamsRight
  <2>1. MembersOf(b, t) = {}
    BY DEF MembersOf
  <2>2. teamNum[b][t] = 0
    BY DEF NoTeams
  <2> QED
    BY <2>1, <2>2, FS_EmptySet, BattlegroundAssumption
<1>4. Told
  BY DEF Told
<1>5. Settled /\ Fresh
  BY DEF Settled, Fresh
<1> QED
  BY <1>1, <1>2, <1>3, <1>4, <1>5 DEF BgInv

-----------------------------------------------------------------------------
(* Connections and logins                                                   *)

LEMMA StepUp ==
    ASSUME BgInv, NEW c \in Conn, ConnectionUp(c)
    PROVE  BgInv'
<1> USE DEF ConnectionUp, bgVars
<1>1. BgOK'
  <2>1. up' \subseteq Conn /\ client' \in [Conn -> Id \cup {NoId}]
    BY DEF BgInv, BgOK
  <2> QED
    BY <2>1 DEF BgInv, BgOK, playerVars, stateVars, fightVars, memberVars, joinVars, boundVars
<1>2. LoggedIn'
  BY LoongBgSrvAssumption DEF BgInv, BgOK, LoggedIn, playerVars, Player, IdOf
<1> QED
  BY <1>1, <1>2, Frames
     DEF BgInv, playerVars, stateVars, fightVars, memberVars, joinVars

\* A player that logs in is in no battleground.
LEMMA StepLogin ==
    ASSUME BgInv, NEW c \in Conn, NEW i \in Id, LoginOk(c, i)
    PROVE  BgInv'
<1> DEFINE p == <<c, i>>
<1> USE DEF LoginOk
<1>1. p \in Player /\ p \notin here /\ IdOf(p) = i
  BY DEF BgInv, LoggedIn, Player, IdOf, HasBgPlayer
<1>2. bgId[p] = 0
  BY <1>1 DEF BgInv, Membership
<1>3. BgOK'
  <2>1. here' \subseteq Player /\ up' \subseteq Conn /\ client' \in [Conn -> Id \cup {NoId}]
    BY DEF BgInv, BgOK, Player
  <2> QED
    BY <2>1 DEF BgInv, BgOK, stateVars, fightVars, memberVars, joinVars, boundVars
<1>4. Membership'
  BY DEF BgInv, Membership
<1>5. LoggedIn'
  <2>1. \A q \in here' : IdOf(q) \in bgPlayerMap'
    BY <1>1 DEF BgInv, LoggedIn
  <2>2. \A q, r \in here' : IdOf(q) = IdOf(r) => q = r
    BY <1>1 DEF BgInv, LoggedIn, HasBgPlayer
  <2>3. \A d \in Conn : client'[d] # NoId => d \in up' /\ <<d, client'[d]>> \in here'
    BY DEF BgInv, BgOK, LoggedIn
  <2>4. \A q \in here' \ orphans' : client'[q[1]] = q[2]
    <3> SUFFICES ASSUME NEW q \in here', q \notin orphans' PROVE client'[q[1]] = q[2]
      OBVIOUS
    <3>1. CASE q = p
      BY <3>1 DEF BgInv, BgOK
    <3>2. CASE q # p
      <4>1. q \in here /\ q \notin orphans /\ q \in Player
        BY <3>2 DEF BgInv, BgOK
      <4>2. client[q[1]] = q[2] /\ q[2] # NoId /\ q[1] \in Conn /\ q = <<q[1], q[2]>>
        BY <4>1, LoongBgSrvAssumption DEF BgInv, LoggedIn, Player
      <4>3. q[1] # c
        BY <4>2
      <4> QED
        BY <4>2, <4>3 DEF BgInv, BgOK
    <3> QED
      BY <3>1, <3>2
  <2> QED
    BY <2>1, <2>2, <2>3, <2>4 DEF LoggedIn
<1>6. \A b \in Bg : {q \in here' : bgId'[q] = b} = {q \in here : bgId[q] = b}
  BY <1>2, BattlegroundAssumption
<1>7. InScene'
  BY <1>6 DEF BgInv, InScene, memberVars
<1>8. TeamsRight'
  <2>1. \A b \in Bg, t \in Team : MembersOf(b, t)' = MembersOf(b, t)
    BY <1>2, BattlegroundAssumption DEF MembersOf
  <2> QED
    BY <2>1 DEF BgInv, TeamsRight, memberVars
<1> QED
  BY <1>3, <1>4, <1>5, <1>7, <1>8, Frames
     DEF BgInv, stateVars, fightVars, memberVars, joinVars

-----------------------------------------------------------------------------
(* Leaving a battleground                                                   *)

\* No two players of a scene share an id, so a player is taken out of it alone, and
\* its team has one less: the counter, a uint8, does not pass 0.
LEMMA Leaves ==
    ASSUME BgInv, NEW p \in here, bgId[p] # 0, ClosePlayer(p),
           here' = here \/ here' = here \ {p}
    PROVE  /\ scene' = [scene EXCEPT ![bgId[p]] = @ \ {p}]
           /\ teamNum' = [teamNum EXCEPT ![bgId[p]][team[p]] = @ - 1]
           /\ bgId[p] \in Bg /\ team[p] \in Team /\ p \in scene[bgId[p]]
           /\ InScene' /\ TeamsRight'
<1> USE DEF ClosePlayer
<1>a. bgId[p] \in Bg /\ team[p] \in Team
  BY DEF BgInv, BgOK, Membership
<1>b. PICK b \in Bg : b = bgId[p]
  BY <1>a
<1>c. PICK u \in Team : u = team[p]
  BY <1>a
<1>1. p \in Player /\ b \in Bg /\ u \in Team /\ b = bgId[p] /\ u = team[p] /\ b # 0
  BY <1>b, <1>c DEF BgInv, BgOK
<1>2. bgId' = [bgId EXCEPT ![p] = 0] /\ team' = [team EXCEPT ![p] = "none"]
  BY <1>1
<1>3. {q \in scene[b] : IdOf(q) # IdOf(p)} = scene[b] \ {p}
  BY <1>1 DEF BgInv, InScene, LoggedIn
<1>4. scene' = [scene EXCEPT ![b] = @ \ {p}]
  BY <1>1, <1>3
<1>5. MembersOf(b, u) \ {p} = MembersOf(b, u)'
  <2>1. \A q \in Player : q # p => bgId'[q] = bgId[q] /\ team'[q] = team[q]
    BY <1>1, <1>2 DEF BgInv, BgOK
  <2>2. bgId'[p] # b
    BY <1>1, <1>2, BattlegroundAssumption DEF BgInv, BgOK
  <2>3. here \subseteq Player
    BY DEF BgInv, BgOK
  <2> HIDE DEF ClosePlayer
  <2> QED
    BY <2>1, <2>2, <2>3 DEF MembersOf
<1>6. \A d \in Bg, t \in Team : d # b \/ t # u => MembersOf(d, t)' = MembersOf(d, t)
  BY <1>1, <1>2, BattlegroundAssumption DEF MembersOf, BgInv, BgOK, Team
<1>7. p \in MembersOf(b, u) /\ IsFiniteSet(MembersOf(b, u))
  <2>1. here \subseteq Player
    BY DEF BgInv, BgOK
  <2>2. p \in MembersOf(b, u)
    BY <1>1 DEF MembersOf
  <2> QED
    BY <2>1, <2>2, TeamsFinite
<1>8. /\ Cardinality(MembersOf(b, u)) \in Nat \ {0}
      /\ Cardinality(MembersOf(b, u)') = Cardinality(MembersOf(b, u)) - 1
  <2>1. Cardinality(MembersOf(b, u) \ {p}) = Cardinality(MembersOf(b, u)) - 1
    BY <1>7, FS_RemoveElement
  <2>2. Cardinality(MembersOf(b, u)) \in Nat
    BY <1>7, FS_CardinalityType
  <2>3. Cardinality(MembersOf(b, u)) # 0
    BY <1>7, FS_EmptySet
  <2> QED
    BY <2>1, <2>2, <2>3, <1>5
<1>9. teamNum[b][u] = Cardinality(MembersOf(b, u)) /\ teamNum[b][u] <= sMaxTeamNum
  BY <1>1 DEF BgInv, TeamsRight
<1>10. teamNum[b][u] \in 1 .. 254
  BY <1>8, <1>9, BattlegroundAssumption
<1>11. (teamNum[b][u] + 255) % 256 = teamNum[b][u] - 1
  BY <1>10
<1>12. teamNum' = [teamNum EXCEPT ![b][u] = @ - 1]
  BY <1>1, <1>11
<1>13. TeamsRight'
  <2> SUFFICES ASSUME NEW d \in Bg, NEW t \in Team
               PROVE  /\ teamNum'[d][t] = Cardinality(MembersOf(d, t)')
                      /\ teamNum'[d][t] <= sMaxTeamNum
    BY DEF TeamsRight
  <2>1. CASE d = b /\ t = u
    <3>1. teamNum'[d][t] = teamNum[b][u] - 1
      BY <1>1, <1>12, <2>1 DEF BgInv, BgOK
    <3> QED
      BY <3>1, <2>1, <1>8, <1>9, <1>10, BattlegroundAssumption
  <2>2. CASE d # b \/ t # u
    <3>1. teamNum'[d][t] = teamNum[d][t]
      <4> HIDE DEF ClosePlayer
      <4>1. teamNum \in [Bg -> [Team -> Nat]]
        BY DEF BgInv, BgOK
      <4> QED
        BY <4>1, <1>1, <1>12, <2>2 DEF Team
    <3>2. teamNum[d][t] = Cardinality(MembersOf(d, t)) /\ teamNum[d][t] <= sMaxTeamNum
      BY DEF BgInv, TeamsRight
    <3> QED
      BY <3>1, <3>2, <1>6, <2>2
  <2> QED
    BY <2>1, <2>2
<1>14. InScene'
  <2> SUFFICES ASSUME NEW d \in Bg PROVE scene'[d] = {q \in here' : bgId'[q] = d}
    BY DEF InScene
  <2>1. scene[d] = {q \in here : bgId[q] = d}
    BY DEF BgInv, InScene
  <2>2. scene'[d] = IF d = b THEN scene[d] \ {p} ELSE scene[d]
    BY <1>4 DEF BgInv, BgOK
  <2> QED
    BY <2>1, <2>2, <1>1, <1>2, BattlegroundAssumption DEF BgInv, BgOK
<1>15. p \in scene[b]
  BY <1>1 DEF BgInv, InScene
<1> HIDE DEF ClosePlayer
<1> QED
  BY <1>1, <1>4, <1>12, <1>13, <1>14, <1>15

\* What else there is to a player that leaves, however it leaves.
LEMMA LeavesRest ==
    ASSUME BgInv, NEW p \in here, bgId[p] # 0, ClosePlayer(p),
           here' = here \/ here' = here \ {p},
           UNCHANGED <<stateVars, bFirst, fightVars>>
    PROVE  /\ bgId' \in [Player -> Bg \cup {0}] /\ team' \in [Player -> Team \cup {"none"}]
           /\ teamNum' \in [Bg -> [Team -> Nat]]
           /\ scene' \in [Bg -> SUBSET Player] /\ charged' \in [Bg -> SUBSET Id]
           /\ Told' /\ Settled' /\ Fresh'
<1> DEFINE b == bgId[p]
<1> DEFINE u == team[p]
<1>1. b \in Bg /\ u \in Team /\ p \in Player /\ p \in scene[b]
  BY Leaves DEF BgInv, BgOK
<1>2. scene' = [scene EXCEPT ![b] = @ \ {p}]
  BY Leaves
<1>3. teamNum' = [teamNum EXCEPT ![b][u] = @ - 1]
  BY Leaves
<1>4. charged' = [charged EXCEPT ![b] = @ \ {IdOf(p)}]
  BY DEF ClosePlayer
<1>5. bgId' \in [Player -> Bg \cup {0}] /\ team' \in [Player -> Team \cup {"none"}]
  BY DEF ClosePlayer, BgInv, BgOK
<1>6. teamNum' \in [Bg -> [Team -> Nat]]
  <2>1. (teamNum[b][u] + 255) % 256 \in Nat
    BY <1>1 DEF BgInv, BgOK
  <2> QED
    BY SMTT(30), <2>1, <1>1 DEF ClosePlayer, BgInv, BgOK
<1>7. scene' \in [Bg -> SUBSET Player] /\ charged' \in [Bg -> SUBSET Id]
  BY <1>2, <1>4 DEF BgInv, BgOK
<1>8. Told'
  <2>1. told' = [told EXCEPT ![b] = Info(teamNum'[b], state[b])]
    BY DEF ClosePlayer
  <2>2. \A d \in Bg : d # b => teamNum'[d] = teamNum[d]
    BY <1>3 DEF BgInv, BgOK
  <2> QED
    BY <2>1, <2>2, <1>1 DEF BgInv, Told, stateVars
<1>9. Settled'
  <2> SUFFICES ASSUME NEW d \in Bg, state[d] = "run"
               PROVE  IdsOf(scene'[d]) \subseteq charged'[d]
    BY DEF BgInv, Settled, stateVars, fightVars
  <2>1. IdsOf(scene[d]) \subseteq charged[d]
    BY DEF BgInv, Settled
  <2>2. \A q \in scene[b] \ {p} : IdOf(q) # IdOf(p)
    BY <1>1 DEF BgInv, InScene, LoggedIn
  <2>3. CASE d = b
    <3>1. scene'[d] = scene[b] \ {p} /\ charged'[d] = charged[b] \ {IdOf(p)}
      BY <1>2, <1>4, <2>3 DEF BgInv, BgOK
    <3> QED
      BY <3>1, <2>1, <2>2, <2>3 DEF IdsOf
  <2>4. CASE d # b
    BY <2>1, <2>4, <1>2, <1>4 DEF BgInv, BgOK
  <2> QED
    BY <2>3, <2>4
<1>10. Fresh'
  <2>1. state[b] # "none"
    BY <1>1 DEF BgInv, Fresh
  <2>2. \A d \in Bg : d # b => scene'[d] = scene[d]
    BY <1>2 DEF BgInv, BgOK
  <2> QED
    BY <2>1, <2>2 DEF BgInv, Fresh, stateVars, fightVars
<1> QED
  BY <1>5, <1>6, <1>7, <1>8, <1>9, <1>10

\* onExitBattle.
LEMMA StepExit ==
    ASSUME BgInv, NEW p, ExitBattle(p), UNCHANGED srvVars
    PROVE  BgInv'
<1>1. p \in here /\ bgId[p] # 0 /\ ClosePlayer(p) /\ here' = here
  BY DEF ExitBattle
<1>2. UNCHANGED <<stateVars, bFirst, fightVars>>
  BY DEF ExitBattle
<1>3. InScene' /\ TeamsRight'
  BY <1>1, Leaves
<1>4. /\ bgId' \in [Player -> Bg \cup {0}] /\ team' \in [Player -> Team \cup {"none"}]
      /\ teamNum' \in [Bg -> [Team -> Nat]]
      /\ scene' \in [Bg -> SUBSET Player] /\ charged' \in [Bg -> SUBSET Id]
      /\ Told' /\ Settled' /\ Fresh'
  BY <1>1, <1>2, LeavesRest
<1>5. BgOK'
  BY <1>4 DEF ExitBattle, BgInv, BgOK, stateVars, fightVars, srvVars, boundVars
<1>6. Membership'
  BY SMTT(30), <1>1 DEF ExitBattle, ClosePlayer, BgInv, BgOK, Membership
<1>7. LoggedIn'
  BY <1>1, Frames
<1> QED
  BY <1>3, <1>4, <1>5, <1>6, <1>7 DEF BgInv

\* The end of a connection, with the player it has.
LEMMA StepDown ==
    ASSUME BgInv, NEW c \in Conn, ConnectionDown(c)
    PROVE  BgInv'
<1> DEFINE p == <<c, client[c]>>
<1>1. c \in up /\ up' = up \ {c} /\ client' = [client EXCEPT ![c] = NoId] /\ orphans' = orphans
  BY DEF ConnectionDown
<1>2. up' \subseteq Conn /\ client' \in [Conn -> Id \cup {NoId}]
  BY <1>1 DEF BgInv, BgOK
<1>3. CASE client[c] = NoId
  <2>1. UNCHANGED <<bgVars, bgPlayerMap>>
    BY <1>3 DEF ConnectionDown
  <2>2. BgOK'
    BY <1>2, <2>1 DEF BgInv, BgOK, bgVars, playerVars, stateVars, fightVars, memberVars,
                      joinVars, boundVars
  <2>3. LoggedIn'
    BY <1>1, <1>3, <2>1 DEF BgInv, BgOK, LoggedIn, bgVars, playerVars
  <2> QED
    BY <2>1, <2>2, <2>3, Frames
       DEF BgInv, bgVars, playerVars, stateVars, fightVars, memberVars, joinVars
<1>4. CASE client[c] # NoId
  <2>1. /\ bgPlayerMap' = bgPlayerMap \ {client[c]} /\ here' = here \ {p}
        /\ ClosePlayer(p) /\ pScene' = [pScene EXCEPT ![p] = 0]
        /\ UNCHANGED <<stateVars, fightVars, bFirst, joinTimes, sameDay, boundVars>>
    BY <1>4 DEF ConnectionDown
  <2>2. p \in here /\ p \in Player /\ IdOf(p) = client[c]
    BY <1>4 DEF BgInv, BgOK, LoggedIn, IdOf
  <2>3. LoggedIn'
    <3>1. \A q \in here' : IdOf(q) \in bgPlayerMap'
      <4> SUFFICES ASSUME NEW q \in here, q # p PROVE IdOf(q) \in bgPlayerMap \ {client[c]}
        BY <2>1
      <4>1. IdOf(q) \in bgPlayerMap
        BY DEF BgInv, LoggedIn
      <4>2. IdOf(q) # IdOf(p)
        BY <2>2 DEF BgInv, LoggedIn
      <4> QED
        BY <4>1, <4>2, <2>2
    <3>2. \A q, r \in here' : IdOf(q) = IdOf(r) => q = r
      BY <2>1 DEF BgInv, LoggedIn
    <3>3. \A d \in Conn : client'[d] # NoId => d \in up' /\ <<d, client'[d]>> \in here'
      BY <1>1, <2>1 DEF BgInv, BgOK, LoggedIn
    <3>4. \A q \in here' \ orphans' : client'[q[1]] = q[2]
      <4> SUFFICES ASSUME NEW q \in here, q # p, q \notin orphans PROVE client'[q[1]] = q[2]
        BY <1>1, <2>1
      <4>1. client[q[1]] = q[2] /\ q[1] \in Conn /\ q = <<q[1], q[2]>>
        BY DEF BgInv, BgOK, LoggedIn, Player
      <4>2. q[1] # c
        BY <4>1
      <4> QED
        BY <4>1, <4>2, <1>1 DEF BgInv, BgOK
    <3> QED
      BY <3>1, <3>2, <3>3, <3>4 DEF LoggedIn
  <2>4. ASSUME bgId[p] = 0 PROVE BgInv'
    <3>1. UNCHANGED <<bgId, team, teamNum, scene, charged, told>>
      BY <2>1, <2>4 DEF ClosePlayer
    <3>2. BgOK'
      BY <1>2, <2>1, <3>1 DEF BgInv, BgOK, stateVars, fightVars, boundVars
    <3>3. Membership'
      BY <2>1, <2>2, <2>4, <3>1 DEF BgInv, BgOK, Membership
    <3>4. InScene'
      BY <2>1, <2>4, <3>1, BattlegroundAssumption DEF BgInv, InScene
    <3>5. TeamsRight'
      <4>1. \A b \in Bg, t \in Team : MembersOf(b, t)' = MembersOf(b, t)
        BY <2>1, <2>4, <3>1, BattlegroundAssumption DEF MembersOf
      <4> QED
        BY <4>1, <3>1 DEF BgInv, TeamsRight
    <3> QED
      BY <2>1, <2>3, <3>1, <3>2, <3>3, <3>4, <3>5, Frames DEF BgInv, stateVars, fightVars
  <2>5. ASSUME bgId[p] # 0 PROVE BgInv'
    <3>1. InScene' /\ TeamsRight'
      BY <2>1, <2>2, <2>5, Leaves
    <3>2. UNCHANGED <<stateVars, bFirst, fightVars>>
      BY <2>1
    <3>3. /\ bgId' \in [Player -> Bg \cup {0}] /\ team' \in [Player -> Team \cup {"none"}]
          /\ teamNum' \in [Bg -> [Team -> Nat]]
          /\ scene' \in [Bg -> SUBSET Player] /\ charged' \in [Bg -> SUBSET Id]
          /\ Told' /\ Settled' /\ Fresh'
      BY <2>1, <2>2, <2>5, <3>2, LeavesRest
    <3>4. BgOK'
      BY <1>2, <2>1, <3>3 DEF BgInv, BgOK, stateVars, fightVars, boundVars
    <3>5. Membership'
      <4>1. bgId' = [bgId EXCEPT ![p] = 0] /\ team' = [team EXCEPT ![p] = "none"]
        BY <2>1, <2>5 DEF ClosePlayer
      <4>2. here' = here \ {p} /\ pScene' = [pScene EXCEPT ![p] = 0] /\ p \in Player
        BY <2>1, <2>2
      <4> HIDE DEF p
      <4> QED
        BY <4>1, <4>2 DEF BgInv, BgOK, Membership
    <3> QED
      BY <2>3, <3>1, <3>3, <3>4, <3>5 DEF BgInv
  <2> QED
    BY <2>4, <2>5
<1> QED
  BY <1>3, <1>4

-----------------------------------------------------------------------------
(* Entering and fighting                                                    *)

\* onEnterBattle: the room a team has keeps its uint8 counter from wrapping, and
\* no player of the scene is pushed out of playerMgr_ by one with the same id.
LEMMA StepEnter ==
    ASSUME BgInv, NEW p, NEW b \in Bg, NEW t \in Team, EnterBattle(p, b, t), UNCHANGED srvVars
    PROVE  BgInv'
<1>1. p \in here /\ bgId[p] = 0 /\ here' = here /\ p \in Player /\ b # 0
  BY BattlegroundAssumption DEF EnterBattle, BgInv, BgOK
<1>2. bgId' = [bgId EXCEPT ![p] = b] /\ team' = [team EXCEPT ![p] = t]
      /\ pScene' = [pScene EXCEPT ![p] = b]
  BY DEF EnterBattle
<1>3. {q \in scene[b] : IdOf(q) # IdOf(p)} = scene[b]
  <2>1. p \notin scene[b]
    BY <1>1 DEF BgInv, InScene
  <2> QED
    BY <1>1, <2>1 DEF BgInv, InScene, LoggedIn
<1>4. scene' = [scene EXCEPT ![b] = @ \cup {p}]
  BY <1>3 DEF EnterBattle
<1>5. teamNum[b][t] \in Nat /\ teamNum[b][t] < sMaxTeamNum
  BY DEF EnterBattle, HasRoom, BgInv, BgOK
<1>6. (teamNum[b][t] + 1) % 256 = teamNum[b][t] + 1
  BY <1>5, BattlegroundAssumption
<1>7. teamNum' = [teamNum EXCEPT ![b][t] = @ + 1]
  BY <1>6 DEF EnterBattle
<1>8. /\ state[b] # "exit"
      /\ bFirst' = [bFirst EXCEPT ![b] = FALSE]
      /\ told' = [told EXCEPT ![b] = Info(teamNum'[b], state'[b])]
      /\ UNCHANGED fightVars
  BY DEF EnterBattle
<1>9. \/ state[b] = "none" /\ Switch(b, "wait")
      \/ state[b] # "none" /\ UNCHANGED stateVars
  BY DEF EnterBattle, BgInv, BgOK, Fresh
<1>10. state' = [state EXCEPT ![b] = IF @ = "none" THEN "wait" ELSE @]
  BY <1>9 DEF Switch, stateVars, BgInv, BgOK
<1>11. /\ charged' \in [Bg -> SUBSET Id]
       /\ \A d \in Bg : charged[d] \subseteq charged'[d]
       /\ state[b] = "run" => IdOf(p) \in charged'[b]
  <2>1. IdOf(p) \in Id
    BY <1>1 DEF Player, IdOf
  <2>2. CASE state[b] = "run"
    <3>1. charged' = [charged EXCEPT ![b] = @ \cup {IdOf(p)}]
      BY <2>2 DEF EnterBattle, CountEntry, IncJoinTimes
    <3> QED
      BY <2>1, <3>1 DEF BgInv, BgOK
  <2>3. CASE state[b] # "run"
    BY <2>3 DEF EnterBattle, CountEntry, joinVars, BgInv, BgOK
  <2> QED
    BY <2>2, <2>3
<1>12. BgOK'
  <2>1. state' \in [Bg -> States] /\ over' \in [Bg -> BOOLEAN]
        /\ wait' \in [Bg -> {"off", "on", "late"}]
    BY <1>9 DEF Switch, stateVars, BgInv, BgOK, States
  <2>2. bgId' \in [Player -> Bg \cup {0}] /\ team' \in [Player -> Team \cup {"none"}]
        /\ pScene' \in [Player -> Bg \cup {0}]
    BY <1>2 DEF BgInv, BgOK
  <2>3. teamNum' \in [Bg -> [Team -> Nat]]
    BY <1>5, <1>7 DEF BgInv, BgOK
  <2>4. scene' \in [Bg -> SUBSET Player] /\ bFirst' \in [Bg -> BOOLEAN]
    BY <1>1, <1>4, <1>8 DEF BgInv, BgOK
  <2>5. nenter' \in Nat /\ nplant' = nplant
    BY DEF EnterBattle, BgInv, BgOK
  <2> QED
    BY <1>1, <1>8, <1>11, <2>1, <2>2, <2>3, <2>4, <2>5 DEF BgInv, BgOK, fightVars, srvVars
<1>13. Membership'
  BY <1>1, <1>2 DEF BgInv, BgOK, Membership, Team
<1>14. LoggedIn'
  BY <1>1, Frames
<1>15. InScene'
  BY <1>1, <1>2, <1>4, BattlegroundAssumption DEF BgInv, BgOK, InScene
<1>16. TeamsRight'
  <2> SUFFICES ASSUME NEW d \in Bg, NEW u \in Team
               PROVE  /\ teamNum'[d][u] = Cardinality(MembersOf(d, u)')
                      /\ teamNum'[d][u] <= sMaxTeamNum
    BY DEF TeamsRight
  <2>1. teamNum[d][u] = Cardinality(MembersOf(d, u)) /\ teamNum[d][u] <= sMaxTeamNum
    BY DEF BgInv, TeamsRight
  <2>2. teamNum \in [Bg -> [Team -> Nat]]
    BY DEF BgInv, BgOK
  <2>3. CASE d = b /\ u = t
    <3>1. MembersOf(d, u)' = MembersOf(d, u) \cup {p} /\ p \notin MembersOf(d, u)
      BY <1>1, <1>2, <2>3, BattlegroundAssumption DEF MembersOf, BgInv, BgOK
    <3>2. IsFiniteSet(MembersOf(d, u))
      BY TeamsFinite DEF BgInv, BgOK
    <3>3. Cardinality(MembersOf(d, u)') = Cardinality(MembersOf(d, u)) + 1
      BY <3>1, <3>2, FS_AddElement
    <3>4. teamNum'[d][u] = teamNum[d][u] + 1
      BY <1>7, <2>2, <2>3
    <3> QED
      BY <1>5, <2>1, <2>3, <3>3, <3>4, BattlegroundAssumption
  <2>4. CASE d # b \/ u # t
    <3>1. MembersOf(d, u)' = MembersOf(d, u)
      BY <1>1, <1>2, <2>4, BattlegroundAssumption DEF MembersOf, BgInv, BgOK
    <3>2. teamNum'[d][u] = teamNum[d][u]
      BY <1>7, <2>2, <2>4
    <3> QED
      BY <2>1, <3>1, <3>2
  <2> QED
    BY <2>3, <2>4
<1>17. Told'
  <2>1. \A d \in Bg : d # b => teamNum'[d] = teamNum[d] /\ state'[d] = state[d]
    BY <1>7, <1>10 DEF BgInv, BgOK
  <2> QED
    BY <1>8, <2>1 DEF BgInv, Told
<1>18. Settled'
  <2> SUFFICES ASSUME NEW d \in Bg
               PROVE  /\ settled[d] # <<>> =>
                             state'[d] = "exit" /\ \E s : settled[d] = <<s>> /\ Fair(s)
                      /\ state'[d] = "run" => IdsOf(scene'[d]) \subseteq charged'[d]
    BY <1>8 DEF Settled, fightVars
  <2>1. /\ settled[d] # <<>> => state[d] = "exit" /\ \E s : settled[d] = <<s>> /\ Fair(s)
        /\ state[d] = "run" => IdsOf(scene[d]) \subseteq charged[d]
    BY DEF BgInv, Settled
  <2>2. state[d] = "exit" => state'[d] = "exit"
    BY <1>10 DEF BgInv, BgOK
  <2>3. state'[d] = "run" => state[d] = "run"
    BY <1>10 DEF BgInv, BgOK
  <2>4. scene'[d] = IF d = b THEN scene[d] \cup {p} ELSE scene[d]
    BY <1>4 DEF BgInv, BgOK
  <2> QED
    BY <2>1, <2>2, <2>3, <2>4, <1>11 DEF IdsOf
<1>19. Fresh'
  BY <1>4, <1>8, <1>10 DEF BgInv, BgOK, Fresh, fightVars
<1> QED
  BY <1>12, <1>13, <1>14, <1>15, <1>16, <1>17, <1>18, <1>19 DEF BgInv

\* onUseSkill on a building.
LEMMA StepBuilding ==
    ASSUME BgInv, NEW p, NEW t \in Team, DestroyBuilding(p, t), UNCHANGED srvVars
    PROVE  BgInv'
<1>1. /\ p \in here /\ bgId[p] # 0 /\ down' = [down EXCEPT ![bgId[p]] = @ \cup {t}]
      /\ UNCHANGED <<playerVars, stateVars, result, flowers, sStartId, settled, memberVars,
                     joinVars, told, boundVars>>
  BY DEF DestroyBuilding
<1>2. bgId[p] \in Bg /\ p \in scene[bgId[p]]
  BY <1>1 DEF BgInv, BgOK, InScene
<1>3. BgOK'
  <2>1. down' \in [Bg -> SUBSET Team]
    BY <1>1 DEF BgInv, BgOK
  <2> QED
    BY <1>1, <2>1 DEF BgInv, BgOK, playerVars, stateVars, memberVars, joinVars, boundVars, srvVars
<1>4. Fresh'
  <2>1. state[bgId[p]] # "none"
    BY <1>2 DEF BgInv, Fresh
  <2>2. \A b \in Bg : b # bgId[p] => down'[b] = down[b]
    BY <1>1 DEF BgInv, BgOK
  <2> QED
    BY <1>1, <2>1, <2>2 DEF BgInv, Fresh, stateVars, memberVars
<1> QED
  BY <1>1, <1>3, <1>4, Frames
     DEF BgInv, playerVars, stateVars, memberVars, joinVars

\* onPlantFlower: in a battleground nobody fights in, only by who has left it.
LEMMA StepPlant ==
    ASSUME BgInv, NEW p, PlantFlower(p), UNCHANGED srvVars
    PROVE  BgInv'
<1> DEFINE b == pScene[p]
<1> DEFINE f == [no |-> nplant, id |-> sStartId, team |-> team[p]]
<1>1. /\ p \in here /\ b # 0
      /\ flowers' = [flowers EXCEPT ![b] = @ \cup {f}]
      /\ nplant' = nplant + 1 /\ sStartId' = sStartId + 1
      /\ UNCHANGED <<playerVars, stateVars, result, down, settled, memberVars, joinVars, told,
                     nenter>>
  BY DEF PlantFlower
<1>2. p \in Player /\ b \in Bg /\ f \in Flower
  BY <1>1 DEF BgInv, BgOK, Flower
<1>3. BgOK'
  <2>1. flowers' \in [Bg -> SUBSET Flower] /\ nplant' \in Nat /\ sStartId' \in Nat
    BY <1>1, <1>2 DEF BgInv, BgOK
  <2> QED
    BY <1>1, <2>1 DEF BgInv, BgOK, playerVars, stateVars, memberVars, joinVars, srvVars
<1>4. Fresh'
  <2>1. state[b] = "none" => team[p] = "none"
    <3>1. bgId[p] # 0 => p \in scene[b]
      BY <1>1, <1>2 DEF BgInv, Membership, InScene
    <3>2. state[b] = "none" => scene[b] = {}
      BY <1>2 DEF BgInv, Fresh
    <3> QED
      BY <3>1, <3>2, <1>2 DEF BgInv, Membership
  <2>2. \A d \in Bg : flowers'[d] = IF d = b THEN flowers[d] \cup {f} ELSE flowers[d]
    BY <1>1 DEF BgInv, BgOK
  <2>3. f.team = team[p]
    OBVIOUS
  <2>4. UNCHANGED <<bFirst, state, result, scene, down>>
    BY <1>1 DEF stateVars, memberVars
  <2> HIDE DEF f, b
  <2> QED
    BY ZenonT(30), <2>1, <2>2, <2>3, <2>4 DEF BgInv, Fresh
<1> QED
  BY <1>1, <1>3, <1>4, Frames
     DEF BgInv, playerVars, stateVars, memberVars, joinVars

-----------------------------------------------------------------------------
(* Battleground::run                                                        *)

\* closeBattleground lets go of exactly the players that name this battleground.
LEMMA StepClose ==
    ASSUME BgInv, NEW b \in Bg, CloseBattleground(b), UNCHANGED srvVars
    PROVE  BgInv'
<1>1. /\ state[b] = "exit" /\ here' = here /\ pScene' = pScene
      /\ bgId' = [p \in Player |-> IF p \in scene[b] THEN 0 ELSE bgId[p]]
      /\ team' = [p \in Player |-> IF p \in scene[b] THEN "none" ELSE team[p]]
  BY DEF CloseBattleground, ReleasePlayers
<1>2. /\ state' = [state EXCEPT ![b] = "none"]
      /\ over' = [over EXCEPT ![b] = FALSE] /\ wait' = [wait EXCEPT ![b] = "off"]
  BY DEF CloseBattleground, Switch
<1>3. /\ bFirst' = [bFirst EXCEPT ![b] = TRUE]
      /\ teamNum' = [teamNum EXCEPT ![b] = NoTeams]
      /\ result' = [result EXCEPT ![b] = "none"]
      /\ scene' = [scene EXCEPT ![b] = {}]
      /\ down' = [down EXCEPT ![b] = {}]
      /\ flowers' = [flowers EXCEPT ![b] = {}] /\ sStartId' = 1
  BY DEF CloseBattleground, InitBattleground, InitFlowers
<1>4. /\ told' = [told EXCEPT ![b] = Info(teamNum'[b], "none")]
      /\ settled' = [settled EXCEPT ![b] = <<>>]
      /\ charged' = [charged EXCEPT ![b] = {}]
      /\ UNCHANGED boundVars
  BY DEF CloseBattleground
<1>5. BgOK'
  <2>1. bgId' \in [Player -> Bg \cup {0}] /\ team' \in [Player -> Team \cup {"none"}]
    BY <1>1 DEF BgInv, BgOK
  <2>2. state' \in [Bg -> States] /\ over' \in [Bg -> BOOLEAN]
        /\ wait' \in [Bg -> {"off", "on", "late"}]
    BY <1>2 DEF BgInv, BgOK, States
  <2>3. bFirst' \in [Bg -> BOOLEAN] /\ result' \in [Bg -> Results]
        /\ scene' \in [Bg -> SUBSET Player] /\ down' \in [Bg -> SUBSET Team]
        /\ flowers' \in [Bg -> SUBSET Flower] /\ sStartId' \in Nat
    BY <1>3 DEF BgInv, BgOK, Results
  <2>4. teamNum' \in [Bg -> [Team -> Nat]]
    BY <1>3 DEF BgInv, BgOK, NoTeams
  <2>5. charged' \in [Bg -> SUBSET Id] /\ settled' = [d \in Bg |-> settled'[d]]
    BY <1>4 DEF BgInv, BgOK
  <2> QED
    BY <1>1, <1>4, <2>1, <2>2, <2>3, <2>4, <2>5 DEF BgInv, BgOK, boundVars, srvVars
<1>6. Membership'
  BY <1>1 DEF BgInv, Membership
<1>7. LoggedIn'
  BY <1>1, Frames
<1>8. \A d \in Bg : scene'[d] = IF d = b THEN {} ELSE scene[d]
  BY <1>3 DEF BgInv, BgOK
<1>9. \A p \in here : bgId'[p] = IF bgId[p] = b THEN 0 ELSE bgId[p]
  BY <1>1 DEF BgInv, BgOK, InScene
<1>10. InScene'
  BY <1>1, <1>8, <1>9, BattlegroundAssumption DEF BgInv, InScene
<1>11. TeamsRight'
  <2> SUFFICES ASSUME NEW d \in Bg, NEW t \in Team
               PROVE  /\ teamNum'[d][t] = Cardinality(MembersOf(d, t)')
                      /\ teamNum'[d][t] <= sMaxTeamNum
    BY DEF TeamsRight
  <2>1. CASE d = b
    <3>1. MembersOf(d, t)' = {}
      BY <1>1, <1>9, <2>1, BattlegroundAssumption DEF MembersOf
    <3>2. teamNum'[d][t] = 0
      BY <1>3, <2>1 DEF BgInv, BgOK, NoTeams
    <3> QED
      BY <3>1, <3>2, FS_EmptySet, BattlegroundAssumption
  <2>2. CASE d # b
    <3>1. here \subseteq Player /\ \A p \in here : bgId[p] = d => p \notin scene[b]
      BY <2>2 DEF BgInv, BgOK, InScene
    <3>2. MembersOf(d, t)' = MembersOf(d, t)
      BY <1>1, <1>9, <2>2, <3>1, BattlegroundAssumption DEF MembersOf
    <3>3. teamNum'[d] = teamNum[d]
      BY <1>3, <2>2 DEF BgInv, BgOK
    <3> QED
      BY <3>2, <3>3 DEF BgInv, TeamsRight
  <2> QED
    BY <2>1, <2>2
<1>12. Told'
  <2>1. \A d \in Bg : d # b => teamNum'[d] = teamNum[d] /\ state'[d] = state[d]
    BY <1>2, <1>3 DEF BgInv, BgOK
  <2>2. state'[b] = "none"
    BY <1>2 DEF BgInv, BgOK
  <2> QED
    BY <1>4, <2>1, <2>2 DEF BgInv, Told
<1>13. Settled'
  <2>1. \A d \in Bg : d # b => settled'[d] = settled[d] /\ state'[d] = state[d]
                               /\ charged'[d] = charged[d]
    BY <1>2, <1>4 DEF BgInv, BgOK
  <2>2. settled'[b] = <<>> /\ state'[b] = "none"
    BY <1>2, <1>4 DEF BgInv, BgOK
  <2> QED
    BY <2>1, <2>2, <1>8 DEF BgInv, Settled
<1>14. Fresh'
  <2>1. \A d \in Bg : d # b =>
            /\ state'[d] = state[d] /\ bFirst'[d] = bFirst[d] /\ result'[d] = result[d]
            /\ down'[d] = down[d] /\ flowers'[d] = flowers[d]
    BY <1>2, <1>3 DEF BgInv, BgOK
  <2>2. /\ state'[b] = "none" /\ bFirst'[b] = TRUE /\ result'[b] = "none"
        /\ down'[b] = {} /\ flowers'[b] = {}
    BY <1>2, <1>3 DEF BgInv, BgOK
  <2> QED
    BY <2>1, <2>2, <1>8 DEF BgInv, Fresh
<1> QED
  BY <1>5, <1>6, <1>7, <1>10, <1>11, <1>12, <1>13, <1>14 DEF BgInv

\* What a state's run can do, whichever state it is: nothing to the state, the next
\* state of a battle that gathers, its beginning, its end without a settlement, or
\* the settlement of a fight with somebody in both teams.
GoesOn(b) ==
    /\ UNCHANGED <<state, over, told, joinVars, result, settled>>
    /\ wait' \in [Bg -> {"off", "on", "late"}]

Gathers(b) ==
    /\ state[b] \in {"wait", "countdown"}
    /\ \E s \in {"countdown", "start"} : SwitchAndTell(b, s)
    /\ UNCHANGED <<joinVars, result, settled>>

Begins(b) ==
    /\ state[b] \in {"countdown", "start"} /\ ~HaveOtherTeamEmpty(b)
    /\ SwitchRun(b)
    /\ UNCHANGED <<result, settled>>

CalledOff(b) ==
    /\ state[b] \in {"wait", "start", "run"}
    /\ SwitchAndTell(b, "exit")
    /\ \E r \in Results : result' = [result EXCEPT ![b] = r]
    /\ UNCHANGED <<joinVars, settled>>

SettledNow(b) ==
    /\ state[b] = "run" /\ ~HaveOtherTeamEmpty(b)
    /\ SwitchAndTell(b, "exit")
    /\ result' = [result EXCEPT ![b] = ResultNow(b)]
    /\ settled' = [settled EXCEPT ![b] = Append(@, Settlement(b))]
    /\ UNCHANGED joinVars

LEMMA ResultNowType == ASSUME NEW b PROVE ResultNow(b) \in Results \ {"none"}
BY DEF ResultNow, Results

LEMMA RunEffect ==
    ASSUME BgInv, NEW b \in Bg, StateRun(b)
    PROVE  GoesOn(b) \/ Gathers(b) \/ Begins(b) \/ CalledOff(b) \/ SettledNow(b)
<1>1. Stay => GoesOn(b)
  BY DEF Stay, GoesOn, BgInv, BgOK, stateVars
<1>2. result[b] \in Results /\ result = [result EXCEPT ![b] = result[b]]
  BY DEF BgInv, BgOK
<1>3. ASSUME SwitchExit(b), UNCHANGED <<joinVars, result>>,
             state[b] \in {"wait", "start"} \/ (state[b] = "run" /\ HaveOtherTeamEmpty(b))
      PROVE  CalledOff(b)
  <2>1. UNCHANGED settled
    BY <1>3 DEF SwitchExit
  <2> QED
    BY <1>2, <1>3, <2>1 DEF CalledOff, SwitchExit
<1>4. RunWait(b) => GoesOn(b) \/ Gathers(b) \/ CalledOff(b)
  BY <1>1, <1>3 DEF RunWait, Gathers
<1>5. RunCountDown(b) => GoesOn(b) \/ Gathers(b) \/ Begins(b)
  BY <1>1 DEF RunCountDown, Gathers, Begins
<1>6. RunStart(b) => GoesOn(b) \/ Begins(b) \/ CalledOff(b)
  BY <1>1, <1>3 DEF RunStart, Begins
<1>7. RunRunWaiting(b) => GoesOn(b) \/ CalledOff(b)
  <2>1. ASSUME wait' = [wait EXCEPT ![b] = "off"],
               UNCHANGED <<state, over, told, joinVars, result, settled>>
        PROVE  GoesOn(b)
    BY <2>1 DEF GoesOn, BgInv, BgOK
  <2> QED
    BY <1>1, <1>3, <2>1 DEF RunRunWaiting
<1>8. RunRun(b) => GoesOn(b) \/ CalledOff(b) \/ SettledNow(b)
  <2>1. ASSUME wait' = [wait EXCEPT ![b] = "on"],
               UNCHANGED <<state, over, told, joinVars, result, settled>>
        PROVE  GoesOn(b)
    BY <2>1 DEF GoesOn, BgInv, BgOK
  <2>2. ASSUME state[b] = "run", result' = [result EXCEPT ![b] = ResultNow(b)],
               SwitchExit(b), UNCHANGED joinVars
        PROVE  CalledOff(b) \/ SettledNow(b)
    <3>1. CASE HaveOtherTeamEmpty(b)
      BY <2>2, <3>1, ResultNowType DEF CalledOff, SwitchExit
    <3>2. CASE ~HaveOtherTeamEmpty(b)
      BY <2>2, <3>2 DEF SettledNow, SwitchExit
    <3> QED
      BY <3>1, <3>2
  <2> QED
    BY <1>1, <2>1, <2>2 DEF RunRun
<1>9. RunExit(b) => GoesOn(b)
  BY <1>1 DEF RunExit
<1> QED
  BY <1>4, <1>5, <1>6, <1>7, <1>8, <1>9 DEF StateRun

\* A counter above zero counts somebody.
LEMMA TeamsThere ==
    ASSUME BgInv, NEW b \in Bg, ~HaveOtherTeamEmpty(b), NEW t \in Team
    PROVE  \E p \in scene[b] : team[p] = t
<1>1. teamNum[b][t] # 0 /\ teamNum[b][t] = Cardinality(MembersOf(b, t))
  BY DEF HaveOtherTeamEmpty, BgInv, TeamsRight
<1>2. MembersOf(b, t) # {}
  BY <1>1, FS_EmptySet
<1> QED
  BY <1>2 DEF MembersOf, BgInv, InScene

\* What a fight is settled with follows from its buildings.
LEMMA SettlementFair ==
    ASSUME BgInv, NEW b \in Bg, ~HaveOtherTeamEmpty(b), down' \in [Bg -> SUBSET Team],
           result' = [result EXCEPT ![b] = ResultNow(b)]
    PROVE  Fair(Settlement(b))
<1> DEFINE d == down'[b]
<1> DEFINE r == result'[b]
<1> DEFINE s == Settlement(b)
<1>1. s.down = d /\ s.result = r
      /\ s.awards = {<<team[p], Award(r, team[p])>> : p \in scene[b]}
  BY DEF Settlement
<1>2. r = ResultNow(b)
  BY DEF BgInv, BgOK
<1>3. d \subseteq Team
  OBVIOUS
<1>4. \A p \in scene[b] : team[p] \in Team
  BY BattlegroundAssumption DEF BgInv, BgOK, InScene, Membership
<1>5. s.awards = {<<t, Award(r, t)>> : t \in Team}
  BY <1>1, <1>4, TeamsThere
<1>6. d = {} \/ d = {"black"} \/ d = {"white"} \/ d = Team
  BY <1>3 DEF Team
<1>7. r = Verdict(d)
  BY <1>2, <1>6 DEF ResultNow, Verdict, Team
<1>8. CASE d = {} \/ d = Team
  <2>1. Cardinality({}) = 0 /\ Cardinality(Team) = 2
    <3>1. Cardinality({}) = 0 /\ IsFiniteSet({})
      BY FS_EmptySet
    <3>2. Cardinality({} \cup {"black"}) = 1 /\ IsFiniteSet({} \cup {"black"})
      BY <3>1, FS_AddElement
    <3>3. Cardinality(({} \cup {"black"}) \cup {"white"}) = 2
      BY <3>2, FS_AddElement
    <3>4. ({} \cup {"black"}) \cup {"white"} = Team
      BY DEF Team
    <3> QED
      BY <3>1, <3>3, <3>4
  <2>2. Cardinality(d) # 1
    BY <1>8, <2>1
  <2>3. r = "draw"
    BY <1>7, <1>8 DEF Verdict, Team
  <2>4. \A t \in Team : Award(r, t) = 3
    BY <2>3 DEF Award
  <2> QED
    BY <1>1, <1>3, <1>5, <1>7, <2>2, <2>4 DEF Fair
<1>9. CASE d = {"black"} \/ d = {"white"}
  <2>1. Cardinality(d) = 1
    <3>1. Cardinality({}) = 0 /\ IsFiniteSet({})
      BY FS_EmptySet
    <3>2. Cardinality({} \cup {"black"}) = 1 /\ Cardinality({} \cup {"white"}) = 1
      BY <3>1, FS_AddElement
    <3>3. {} \cup {"black"} = {"black"} /\ {} \cup {"white"} = {"white"}
      OBVIOUS
    <3> QED
      BY <1>9, <3>2, <3>3
  <2>2. \A t \in Team : Award(r, t) = IF t \in d THEN 2 ELSE 1
    BY <1>7, <1>9 DEF Award, Verdict, Team
  <2> QED
    BY <1>1, <1>3, <1>5, <1>7, <2>1, <2>2 DEF Fair
<1> QED
  BY <1>6, <1>8, <1>9

\* A switch of the state of b, as the invariant sees it.
LEMMA Switches ==
    ASSUME BgInv, NEW b \in Bg, NEW s \in States, SwitchAndTell(b, s), UNCHANGED teamNum
    PROVE  /\ state' = [state EXCEPT ![b] = s]
           /\ state' \in [Bg -> States] /\ over' \in [Bg -> BOOLEAN]
           /\ wait' \in [Bg -> {"off", "on", "late"}]
           /\ Told'
<1>1. /\ state' = [state EXCEPT ![b] = s] /\ over' = [over EXCEPT ![b] = FALSE]
      /\ wait' = [wait EXCEPT ![b] = "off"] /\ told' = [told EXCEPT ![b] = Info(teamNum[b], s)]
  BY DEF SwitchAndTell, Switch
<1>2. /\ state' \in [Bg -> States] /\ over' \in [Bg -> BOOLEAN]
      /\ wait' \in [Bg -> {"off", "on", "late"}]
  BY <1>1 DEF BgInv, BgOK
<1>3. Told'
  <2>1. \A d \in Bg : state'[d] = IF d = b THEN s ELSE state[d]
    BY <1>1 DEF BgInv, BgOK
  <2> QED
    BY <1>1, <2>1 DEF BgInv, Told
<1> QED
  BY <1>1, <1>2, <1>3

\* Battleground::run but for closeBattleground: who is where does not change.
LEMMA StepRun ==
    ASSUME BgInv, NEW b \in Bg, NEW left \in SUBSET flowers[b], NEW d \in SUBSET Team,
           SceneRun(b, left, d), StateRun(b),
           UNCHANGED <<playerVars, memberVars, boundVars, srvVars>>
    PROVE  BgInv'
<1>1. /\ flowers' = [flowers EXCEPT ![b] = left] /\ down' = [down EXCEPT ![b] = d]
      /\ sStartId' = sStartId
  BY DEF SceneRun
<1>2. down' \in [Bg -> SUBSET Team] /\ flowers' \in [Bg -> SUBSET Flower]
  BY <1>1 DEF BgInv, BgOK
<1>3. /\ UNCHANGED <<here, bgId, team, pScene, bFirst, teamNum, scene, nenter, nplant>>
      /\ UNCHANGED <<up, client, orphans, bgPlayerMap>>
  BY DEF playerVars, memberVars, boundVars, srvVars
<1>4. Membership' /\ LoggedIn' /\ InScene' /\ TeamsRight'
  BY <1>3, Frames DEF playerVars, srvVars
<1>5. state[b] # "none"
  BY DEF StateRun, RunWait, RunCountDown, RunStart, RunRunWaiting, RunRun, RunExit
<1>6. \A e \in Bg : e # b => flowers'[e] = flowers[e] /\ down'[e] = down[e]
  BY <1>1 DEF BgInv, BgOK
<1>7. ASSUME NEW s \in States \ {"none"}, state' = [state EXCEPT ![b] = s],
             \/ UNCHANGED result
             \/ s = "exit" /\ \E r \in Results : result' = [result EXCEPT ![b] = r],
             state[b] = "exit" => s = "exit"
      PROVE  Fresh'
  <2>1. \A e \in Bg : state'[e] = IF e = b THEN s ELSE state[e]
    BY <1>7 DEF BgInv, BgOK
  <2>2. \A e \in Bg : e # b => result'[e] = result[e]
    BY <1>7 DEF BgInv, BgOK
  <2>3. result'[b] = result[b] \/ s = "exit"
    BY <1>7
  <2> QED
    BY <1>3, <1>5, <1>6, <1>7, <2>1, <2>2, <2>3 DEF BgInv, Fresh
<1>8. CASE GoesOn(b)
  <2>1. /\ UNCHANGED <<state, over, told, charged, result, settled>>
        /\ wait' \in [Bg -> {"off", "on", "late"}]
    BY <1>8 DEF GoesOn, joinVars
  <2>2. BgOK'
    BY <1>1, <1>2, <1>3, <2>1 DEF BgInv, BgOK
  <2>3. Fresh'
    BY <1>3, <1>5, <1>6, <2>1 DEF BgInv, Fresh
  <2> QED
    BY <1>3, <1>4, <2>1, <2>2, <2>3, Frames DEF BgInv
<1>9. CASE Gathers(b)
  <2>1. PICK s \in {"countdown", "start"} : SwitchAndTell(b, s)
    BY <1>9 DEF Gathers
  <2>2. /\ UNCHANGED <<charged, result, settled>>
        /\ state[b] \in {"wait", "countdown"} /\ s \in States \ {"none"}
    BY <1>9 DEF Gathers, joinVars, States
  <2>3. /\ state' = [state EXCEPT ![b] = s]
        /\ state' \in [Bg -> States] /\ over' \in [Bg -> BOOLEAN]
        /\ wait' \in [Bg -> {"off", "on", "late"}] /\ Told'
    BY <1>3, <2>1, <2>2, Switches
  <2>4. BgOK'
    BY <1>1, <1>2, <1>3, <2>2, <2>3 DEF BgInv, BgOK
  <2>5. Fresh'
    BY <1>7, <2>2, <2>3
  <2>6. Settled'
    BY <1>3, <2>1, <2>2, <2>3 DEF BgInv, BgOK, Settled
  <2> QED
    BY <1>4, <2>3, <2>4, <2>5, <2>6 DEF BgInv
<1>10. CASE Begins(b)
  <2>1. /\ SwitchAndTell(b, "run") /\ IncJoinTimes(b, IdsOf(scene[b]))
        /\ UNCHANGED <<result, settled>>
        /\ state[b] \in {"countdown", "start"} /\ "run" \in States \ {"none"}
    BY <1>10 DEF Begins, SwitchRun, States
  <2>2. /\ state' = [state EXCEPT ![b] = "run"]
        /\ state' \in [Bg -> States] /\ over' \in [Bg -> BOOLEAN]
        /\ wait' \in [Bg -> {"off", "on", "late"}] /\ Told'
    BY <1>3, <2>1, Switches
  <2>3. IdsOf(scene[b]) \subseteq Id
    BY DEF BgInv, BgOK, IdsOf, IdOf, Player
  <2>4. charged' = [charged EXCEPT ![b] = @ \cup IdsOf(scene[b])]
    BY <2>1 DEF IncJoinTimes
  <2>5. charged' \in [Bg -> SUBSET Id]
    BY <2>3, <2>4 DEF BgInv, BgOK
  <2>6. BgOK'
    BY <1>1, <1>2, <1>3, <2>1, <2>2, <2>5 DEF BgInv, BgOK
  <2>7. Fresh'
    BY <1>7, <2>1, <2>2
  <2>8. Settled'
    <3>1. \A e \in Bg : charged'[e] = IF e = b THEN charged[e] \cup IdsOf(scene[e]) ELSE charged[e]
      BY <2>4 DEF BgInv, BgOK
    <3>2. \A e \in Bg : state'[e] = IF e = b THEN "run" ELSE state[e]
      BY <2>2 DEF BgInv, BgOK
    <3>3. settled' = settled /\ scene' = scene
      BY <1>3, <2>1
    <3> QED
      BY <2>1, <3>1, <3>2, <3>3 DEF BgInv, Settled
  <2> QED
    BY <1>4, <2>2, <2>6, <2>7, <2>8 DEF BgInv
<1>11. CASE CalledOff(b)
  <2>1. /\ SwitchAndTell(b, "exit") /\ UNCHANGED <<charged, settled>>
        /\ state[b] \in {"wait", "start", "run"} /\ "exit" \in States \ {"none"}
    BY <1>11 DEF CalledOff, joinVars, States
  <2>2. PICK r \in Results : result' = [result EXCEPT ![b] = r]
    BY <1>11 DEF CalledOff
  <2>3. /\ state' = [state EXCEPT ![b] = "exit"]
        /\ state' \in [Bg -> States] /\ over' \in [Bg -> BOOLEAN]
        /\ wait' \in [Bg -> {"off", "on", "late"}] /\ Told'
    BY <1>3, <2>1, Switches
  <2>4. result' \in [Bg -> Results]
    BY <2>2 DEF BgInv, BgOK
  <2>5. BgOK'
    BY <1>1, <1>2, <1>3, <2>1, <2>3, <2>4 DEF BgInv, BgOK
  <2>6. Fresh'
    BY <1>7, <2>1, <2>2, <2>3
  <2>7. Settled'
    BY <1>3, <2>1, <2>3 DEF BgInv, BgOK, Settled
  <2> QED
    BY <1>4, <2>3, <2>5, <2>6, <2>7 DEF BgInv
<1>12. CASE SettledNow(b)
  <2>1. /\ SwitchAndTell(b, "exit") /\ UNCHANGED charged
        /\ state[b] = "run" /\ ~HaveOtherTeamEmpty(b) /\ "exit" \in States \ {"none"}
        /\ result' = [result EXCEPT ![b] = ResultNow(b)]
        /\ settled' = [settled EXCEPT ![b] = Append(@, Settlement(b))]
    BY <1>12 DEF SettledNow, joinVars, States
  <2>2. ResultNow(b) \in Results
    BY ResultNowType
  <2>3. /\ state' = [state EXCEPT ![b] = "exit"]
        /\ state' \in [Bg -> States] /\ over' \in [Bg -> BOOLEAN]
        /\ wait' \in [Bg -> {"off", "on", "late"}] /\ Told'
    BY <1>3, <2>1, Switches
  <2>4. result' \in [Bg -> Results]
    BY <2>1, <2>2 DEF BgInv, BgOK
  <2>5. settled' = [e \in Bg |-> settled'[e]]
    BY <2>1 DEF BgInv, BgOK
  <2>6. BgOK'
    BY <1>1, <1>2, <1>3, <2>1, <2>3, <2>4, <2>5 DEF BgInv, BgOK
  <2>7. Fresh'
    BY <1>7, <2>1, <2>2, <2>3
  <2>8. Fair(Settlement(b))
    BY <1>2, <2>1, SettlementFair
  <2>9. settled[b] = <<>>
    BY <2>1 DEF BgInv, Settled
  <2>10. settled = [e \in Bg |-> settled[e]]
    BY DEF BgInv, BgOK
  <2>11. settled'[b] = <<Settlement(b)>> /\ \A e \in Bg : e # b => settled'[e] = settled[e]
    <3>1. Append(<<>>, Settlement(b)) = <<Settlement(b)>>
      OBVIOUS
    <3> QED
      BY <2>1, <2>9, <2>10, <3>1
  <2>12. \A e \in Bg : state'[e] = IF e = b THEN "exit" ELSE state[e]
    BY <2>3 DEF BgInv, BgOK
  <2>13. Settled'
    <3> SUFFICES ASSUME NEW e \in Bg
                 PROVE  /\ settled'[e] # <<>> =>
                               state'[e] = "exit" /\ \E s : settled'[e] = <<s>> /\ Fair(s)
                        /\ state'[e] = "run" => IdsOf(scene'[e]) \subseteq charged'[e]
      BY DEF Settled
    <3>1. CASE e = b
      BY <2>8, <2>11, <2>12, <3>1
    <3>2. CASE e # b
      BY <1>3, <2>1, <2>11, <2>12, <3>2 DEF BgInv, Settled
    <3> QED
      BY <3>1, <3>2
  <2> QED
    BY <1>4, <2>3, <2>6, <2>7, <2>13 DEF BgInv
<1> QED
  BY <1>8, <1>9, <1>10, <1>11, <1>12, RunEffect

LEMMA StepBattleground ==
    ASSUME BgInv, NEW b \in Bg, RunBattleground(b), UNCHANGED srvVars
    PROVE  BgInv'
<1>1. CASE CloseBattleground(b)
  BY <1>1, StepClose
<1>2. CASE ~CloseBattleground(b)
  <2>1. /\ \E left \in SUBSET flowers[b], d \in SUBSET Team : SceneRun(b, left, d)
        /\ StateRun(b) /\ UNCHANGED <<playerVars, memberVars, boundVars>>
    BY <1>2 DEF RunBattleground
  <2>2. PICK left \in SUBSET flowers[b], d \in SUBSET Team : SceneRun(b, left, d)
    BY <2>1
  <2> QED
    BY <2>1, <2>2, StepRun
<1> QED
  BY <1>1, <1>2

\* The clocks of the states, and midnight.
LEMMA StepTime ==
    ASSUME BgInv, UNCHANGED srvVars,
           NewDay \/ \E b \in Bg : TimeLimit(b) \/ WaitLimit(b)
    PROVE  BgInv'
<1>1. /\ UNCHANGED <<playerVars, state, fightVars, memberVars, charged, told, boundVars>>
      /\ over' \in [Bg -> BOOLEAN] /\ wait' \in [Bg -> {"off", "on", "late"}]
  <2>1. CASE NewDay
    BY <2>1 DEF NewDay, stateVars, BgInv, BgOK
  <2>2. ASSUME NEW b \in Bg, TimeLimit(b) \/ WaitLimit(b)
        PROVE  /\ UNCHANGED <<playerVars, state, fightVars, memberVars, charged, told, boundVars>>
               /\ over' \in [Bg -> BOOLEAN] /\ wait' \in [Bg -> {"off", "on", "late"}]
    BY <2>2 DEF TimeLimit, WaitLimit, joinVars, BgInv, BgOK
  <2> QED
    BY <2>1, <2>2
<1>2. BgOK'
  BY <1>1 DEF BgInv, BgOK, playerVars, fightVars, memberVars, boundVars, srvVars
<1> QED
  BY <1>1, <1>2, Frames DEF BgInv, playerVars, fightVars, memberVars

LEMMA StepBg ==
    ASSUME BgInv, [Next]_vars
    PROVE  BgInv'
<1>1. ASSUME NEW c \in Conn, ConnectionUp(c) PROVE BgInv'
  BY <1>1, StepUp
<1>2. ASSUME NEW c \in Conn, ConnectionDown(c) PROVE BgInv'
  BY <1>2, StepDown
<1>3. ASSUME NEW c \in Conn, LoginRefused(c) PROVE BgInv'
  BY <1>3, StepDown DEF LoginRefused
<1>4. ASSUME NEW c \in Conn, Message(c) PROVE BgInv'
  <2> DEFINE p == <<c, client[c]>>
  <2>1. UNCHANGED srvVars
    BY <1>4 DEF Message
  <2>2. ASSUME NEW b \in Bg, NEW t \in Team, EnterBattle(p, b, t) PROVE BgInv'
    BY <2>1, <2>2, StepEnter
  <2>3. ASSUME ExitBattle(p) PROVE BgInv'
    BY <2>1, <2>3, StepExit
  <2>4. ASSUME NEW t \in Team, DestroyBuilding(p, t) PROVE BgInv'
    BY <2>1, <2>4, StepBuilding
  <2>5. ASSUME PlantFlower(p) PROVE BgInv'
    BY <2>1, <2>5, StepPlant
  <2> QED
    BY <1>4, <2>2, <2>3, <2>4, <2>5 DEF Message
<1>5. ASSUME NEW c \in Conn, NEW i \in Id, LoginTwice(c, i) PROVE BgInv'
  BY <1>5, StepDown DEF LoginTwice
<1>6. ASSUME NEW c \in Conn, NEW i \in Id, LoginOk(c, i) PROVE BgInv'
  BY <1>6, StepLogin
<1>7. ASSUME NEW b \in Bg, RunBattleground(b), UNCHANGED srvVars PROVE BgInv'
  BY <1>7, StepBattleground
<1>8. ASSUME NEW b \in Bg, TimeLimit(b) \/ WaitLimit(b), UNCHANGED srvVars PROVE BgInv'
  BY <1>8, StepTime
<1>9. ASSUME NewDay, UNCHANGED srvVars PROVE BgInv'
  BY <1>9, StepTime
<1>10. ASSUME UNCHANGED vars PROVE BgInv'
  <2>1. BgOK'
    BY <1>10 DEF BgInv, BgOK, vars, bgVars, playerVars, stateVars, fightVars, memberVars,
                 joinVars, boundVars, srvVars
  <2> QED
    BY <1>10, <2>1, Frames
       DEF BgInv, vars, bgVars, playerVars, stateVars, fightVars, memberVars, joinVars
<1> QED
  BY <1>1, <1>2, <1>3, <1>4, <1>5, <1>6, <1>7, <1>8, <1>9, <1>10 DEF Next

LEMMA BgInvariant == Spec => []BgInv
BY InitBg, StepBg, PTL DEF Spec

-----------------------------------------------------------------------------
(* The properties                                                           *)

\* However players enter, leave, lose their connection or are released, the counters
\* that start and end a battle count its members, no team outgrows its room, and php
\* was told of every change.
THEOREM MembersAreCounted == Spec => []TeamsCounted
<1>1. ASSUME BgInv PROVE TeamsCounted
  <2>1. \A b \in Bg : told[b] = Info(teamNum[b], state[b])
    BY <1>1 DEF BgInv, Told
  <2> QED
    BY <1>1, <2>1 DEF BgInv, TeamsRight, TeamsCounted
<1> QED
  BY <1>1, BgInvariant, PTL

\* A scene broadcasts to the players of its battleground and to nobody else; each
\* is there, once, behind a connection that is up, unless that connection logged in
\* again.
THEOREM ScenesHoldTheirBattle == Spec => []SceneIsBattle
<1>1. ASSUME BgInv PROVE SceneIsBattle
  <2> SUFFICES ASSUME NEW b \in Bg
               PROVE  /\ scene[b] = {p \in here : bgId[p] = b}
                      /\ \A p, q \in scene[b] : IdOf(p) = IdOf(q) => p = q
                      /\ \A p \in scene[b] \ orphans : p[1] \in up /\ client[p[1]] = p[2]
    BY DEF SceneIsBattle
  <2>1. scene[b] = {p \in here : bgId[p] = b}
    BY <1>1 DEF BgInv, InScene
  <2>2. \A p \in here \ orphans : p[1] \in up /\ client[p[1]] = p[2]
    <3> SUFFICES ASSUME NEW p \in here, p \notin orphans
                 PROVE  p[1] \in up /\ client[p[1]] = p[2]
      OBVIOUS
    <3>1. client[p[1]] = p[2] /\ p[1] \in Conn /\ p[2] \in Id
      BY <1>1 DEF BgInv, BgOK, LoggedIn, Player
    <3> QED
      BY <1>1, <3>1, LoongBgSrvAssumption DEF BgInv, LoggedIn
  <2> QED
    BY <1>1, <2>1, <2>2 DEF BgInv, LoggedIn
<1> QED
  BY <1>1, BgInvariant, PTL

\* A fight is settled at most once, as its buildings say, for players who were all
\* counted.
THEOREM FightsAreSettledRight == Spec => []SettledRight
<1>1. ASSUME BgInv PROVE SettledRight
  <2> SUFFICES ASSUME NEW b \in Bg
               PROVE  /\ Len(settled[b]) <= 1
                      /\ \A i \in DOMAIN settled[b] : Fair(settled[b][i])
                      /\ state[b] = "run" => IdsOf(scene[b]) \subseteq charged[b]
    BY DEF SettledRight, Fair
  <2>1. settled[b] = <<>> \/ \E s : settled[b] = <<s>> /\ Fair(s)
    BY <1>1 DEF BgInv, Settled
  <2>2. CASE settled[b] = <<>>
    BY <1>1, <2>2 DEF BgInv, Settled
  <2>3. CASE \E s : settled[b] = <<s>> /\ Fair(s)
    <3>1. PICK s : settled[b] = <<s>> /\ Fair(s)
      BY <2>3
    <3>2. Len(settled[b]) = 1 /\ DOMAIN settled[b] = {1} /\ settled[b][1] = s
      BY <3>1
    <3> QED
      BY <1>1, <3>1, <3>2 DEF BgInv, Settled
  <2> QED
    BY <2>1, <2>2, <2>3
<1> QED
  BY <1>1, BgInvariant, PTL

\* A battleground that is used again shows nothing of the battle before.
THEOREM BattlegroundsStartFresh == Spec => []FreshStart
<1>1. ASSUME BgInv PROVE FreshStart
  <2> SUFFICES ASSUME NEW b \in Bg, state[b] = "none"
               PROVE  /\ bFirst[b] /\ IsEmpty(b) /\ scene[b] = {}
                      /\ down[b] = {} /\ result[b] = "none" /\ settled[b] = <<>>
                      /\ \A f \in flowers[b] : f.team = "none"
    BY DEF FreshStart
  <2>1. /\ bFirst[b] = TRUE /\ scene[b] = {} /\ down[b] = {} /\ result[b] = "none"
        /\ \A f \in flowers[b] : f.team = "none"
    BY <1>1 DEF BgInv, Fresh
  <2>2. settled[b] = <<>>
    BY <1>1 DEF BgInv, Settled
  <2>3. ASSUME NEW t \in Team PROVE teamNum[b][t] = 0
    <3>1. MembersOf(b, t) = {}
      BY <1>1, <2>1 DEF BgInv, InScene, MembersOf
    <3>2. teamNum[b][t] = Cardinality(MembersOf(b, t))
      BY <1>1 DEF BgInv, TeamsRight
    <3> QED
      BY <3>1, <3>2, FS_EmptySet
  <2> QED
    BY <2>1, <2>2, <2>3 DEF IsEmpty
<1> QED
  BY <1>1, BgInvariant, PTL

-----------------------------------------------------------------------------
(* The refinement of Battle                                                 *)

PhaseOf(s) ==
    CASE s = "none" -> "idle"
      [] s = "run"  -> "fight"
      [] s = "exit" -> "over"
      [] OTHER      -> "gather"
phases == [b \in Bg |-> PhaseOf(state[b])]
prizes == [b \in Bg |-> IF settled[b] = <<>> THEN "none" ELSE settled[b][1].result]

LEMMA InitBattle == Init => Abstract!Init
BY DEF Init, BgInit, Abstract!Init

\* A switch of the state of one battleground is one of its phase.
LEMMA PhaseSwitch ==
    ASSUME BgInv, NEW b \in Bg, NEW s, state' = [state EXCEPT ![b] = s]
    PROVE  phases' = [phases EXCEPT ![b] = PhaseOf(s)]
<1>1. state'[b] = s /\ \A d \in Bg : d # b => state'[d] = state[d]
  BY DEF BgInv, BgOK
<1>2. phases' = [d \in Bg |-> PhaseOf(state'[d])]
  BY DEF phases
<1>3. ASSUME NEW d \in Bg
      PROVE  PhaseOf(state'[d]) = IF d = b THEN PhaseOf(s) ELSE phases[d]
  <2>1. CASE d = b
    BY <1>1, <2>1
  <2>2. CASE d # b
    <3>1. state'[d] = state[d]
      BY <1>1, <2>2
    <3> QED
      BY <2>2, <3>1 DEF phases
  <2> QED
    BY <2>1, <2>2
<1>4. phases = [d \in Bg |-> phases[d]]
  BY DEF phases
<1> QED
  BY <1>2, <1>3, <1>4

LEMMA StutterBattle ==
    ASSUME phases' = phases, scene' = scene, settled' = settled
    PROVE  UNCHANGED Abstract!vars
BY DEF phases, PhaseOf, Abstract!vars

LEMMA SameState ==
    ASSUME UNCHANGED <<state, scene, settled>>
    PROVE  UNCHANGED Abstract!vars
BY StutterBattle DEF phases

\* A player that leaves, alone or with its connection.
LEMMA LeaveBattle ==
    ASSUME BgInv, NEW p \in here, ClosePlayer(p), here' = here \/ here' = here \ {p},
           UNCHANGED <<state, settled>>
    PROVE  [Abstract!Next]_(Abstract!vars)
<1>1. CASE bgId[p] = 0
  BY <1>1, SameState DEF ClosePlayer
<1>2. CASE bgId[p] # 0
  <2>1. /\ scene' = [scene EXCEPT ![bgId[p]] = @ \ {p}]
        /\ bgId[p] \in Bg /\ p \in scene[bgId[p]]
    BY <1>2, Leaves
  <2>2. Abstract!Leave(p, bgId[p])
    BY <2>1 DEF Abstract!Leave
  <2>3. p \in Player
    BY DEF BgInv, BgOK
  <2> QED
    BY <2>1, <2>2, <2>3 DEF Abstract!Next
<1> QED
  BY <1>1, <1>2

\* A player is in one battle at a time, and enters none that is over.
LEMMA JoinBattle ==
    ASSUME BgInv, NEW p, NEW b \in Bg, NEW t \in Team, EnterBattle(p, b, t)
    PROVE  Abstract!Next
<1>1. p \in here /\ bgId[p] = 0 /\ p \in Player /\ state[b] # "exit" /\ settled' = settled
  BY DEF EnterBattle, BgInv, BgOK, fightVars
<1>2. \A d \in Bg : p \notin scene[d]
  BY <1>1, BattlegroundAssumption DEF BgInv, InScene
<1>3. {q \in scene[b] : IdOf(q) # IdOf(p)} = scene[b]
  BY <1>1, <1>2 DEF BgInv, InScene, LoggedIn
<1>4. scene' = [scene EXCEPT ![b] = @ \cup {p}]
  BY <1>3 DEF EnterBattle
<1>5. \/ state[b] = "none" /\ state' = [state EXCEPT ![b] = "wait"]
      \/ state[b] # "none" /\ state' = state
  BY DEF EnterBattle, Switch, stateVars, BgInv, Fresh
<1>6. phases[b] # "over"
  BY <1>1 DEF phases, PhaseOf, BgInv, BgOK, States
<1>7. phases' = [phases EXCEPT ![b] = IF @ = "idle" THEN "gather" ELSE @]
  <2>1. CASE state[b] = "none" /\ state' = [state EXCEPT ![b] = "wait"]
    <3>1. phases' = [phases EXCEPT ![b] = PhaseOf("wait")]
      BY <2>1, PhaseSwitch
    <3> QED
      BY <2>1, <3>1 DEF phases, PhaseOf
  <2>2. CASE state[b] # "none" /\ state' = state
    <3>1. phases' = phases /\ phases[b] # "idle"
      BY <2>2 DEF phases, PhaseOf, BgInv, BgOK, States
    <3> QED
      BY <3>1 DEF phases
  <2> QED
    BY <1>5, <2>1, <2>2
<1>8. Abstract!Join(p, b)
  BY <1>1, <1>2, <1>4, <1>6, <1>7 DEF Abstract!Join, phases, PhaseOf
<1> QED
  BY <1>1, <1>8 DEF Abstract!Next

\* A fight has somebody in both teams when it begins and when it is settled.
LEMMA TwoThere ==
    ASSUME BgInv, NEW b \in Bg, ~HaveOtherTeamEmpty(b)
    PROVE  \E p, q \in scene[b] : p # q
<1>1. \E p \in scene[b] : team[p] = "black"
  BY TeamsThere DEF Team
<1>2. \E q \in scene[b] : team[q] = "white"
  BY TeamsThere DEF Team
<1> QED
  BY <1>1, <1>2

LEMMA RunsBattle ==
    ASSUME BgInv, NEW b \in Bg, StateRun(b), UNCHANGED scene
    PROVE  [Abstract!Next]_(Abstract!vars)
<1>1. CASE GoesOn(b)
  BY <1>1, SameState DEF GoesOn
<1>2. CASE Gathers(b)
  <2>1. PICK s \in {"countdown", "start"} : SwitchAndTell(b, s)
    BY <1>2 DEF Gathers
  <2>2. state' = [state EXCEPT ![b] = s]
    BY <2>1 DEF SwitchAndTell, Switch
  <2>3. phases' = [phases EXCEPT ![b] = PhaseOf(s)]
    BY <2>2, PhaseSwitch
  <2>4. PhaseOf(s) = "gather" /\ phases[b] = "gather"
    BY <1>2 DEF Gathers, phases, PhaseOf
  <2>5. phases' = phases
    BY <2>3, <2>4 DEF phases
  <2> QED
    BY <1>2, <2>5, StutterBattle DEF Gathers
<1>3. CASE Begins(b)
  <2>1. /\ state' = [state EXCEPT ![b] = "run"]
        /\ state[b] \in {"countdown", "start"} /\ settled' = settled
    BY <1>3 DEF Begins, SwitchRun, SwitchAndTell, Switch
  <2>2. phases' = [phases EXCEPT ![b] = "fight"]
    BY <2>1, PhaseSwitch DEF PhaseOf
  <2>3. phases[b] = "gather"
    BY <2>1 DEF phases, PhaseOf
  <2>4. \E p, q \in scene[b] : p # q
    BY <1>3, TwoThere DEF Begins
  <2>5. Abstract!Begin(b)
    BY <2>1, <2>2, <2>3, <2>4 DEF Abstract!Begin, phases, PhaseOf
  <2> QED
    BY <2>5 DEF Abstract!Next
<1>4. CASE CalledOff(b)
  <2>1. /\ state' = [state EXCEPT ![b] = "exit"]
        /\ state[b] \in {"wait", "start", "run"} /\ settled' = settled
    BY <1>4 DEF CalledOff, SwitchAndTell, Switch
  <2>2. phases' = [phases EXCEPT ![b] = "over"]
    BY <2>1, PhaseSwitch DEF PhaseOf
  <2>3. phases[b] \in {"gather", "fight"}
    BY <2>1 DEF phases, PhaseOf
  <2>4. Abstract!CallOff(b)
    BY <2>1, <2>2, <2>3 DEF Abstract!CallOff, phases, PhaseOf
  <2> QED
    BY <2>4 DEF Abstract!Next
<1>5. CASE SettledNow(b)
  <2>1. /\ state' = [state EXCEPT ![b] = "exit"] /\ state[b] = "run"
        /\ result' = [result EXCEPT ![b] = ResultNow(b)]
        /\ settled' = [settled EXCEPT ![b] = Append(@, Settlement(b))]
    BY <1>5 DEF SettledNow, SwitchAndTell, Switch
  <2>2. phases' = [phases EXCEPT ![b] = "over"] /\ phases[b] = "fight"
    BY <2>1, PhaseSwitch DEF phases, PhaseOf
  <2>3. \E p, q \in scene[b] : p # q
    BY <1>5, TwoThere DEF SettledNow
  <2>4. Settlement(b).result = ResultNow(b)
    BY <2>1 DEF Settlement, BgInv, BgOK
  <2>5. ResultNow(b) \in {"black", "white", "draw"}
    BY ResultNowType DEF Results
  <2>6. settled[b] = <<>> /\ settled = [d \in Bg |-> settled[d]]
    BY <2>1 DEF BgInv, BgOK, Settled
  <2>7. settled'[b] = <<Settlement(b)>> /\ \A d \in Bg : d # b => settled'[d] = settled[d]
    <3>1. Append(<<>>, Settlement(b)) = <<Settlement(b)>>
      OBVIOUS
    <3> QED
      BY <2>1, <2>6, <3>1
  <2>8. settled'[b] # <<>> /\ settled'[b][1].result = ResultNow(b)
    BY <2>4, <2>7
  <2>9. prizes' = [prizes EXCEPT ![b] = ResultNow(b)]
    BY <2>7, <2>8 DEF prizes
  <2>10. \E r \in {"black", "white", "draw"} : prizes' = [prizes EXCEPT ![b] = r]
    BY <2>5, <2>9
  <2>11. Abstract!Settle(b)
    BY <2>2, <2>3, <2>10 DEF Abstract!Settle, phases, PhaseOf, prizes
  <2> QED
    BY <2>11 DEF Abstract!Next
<1> QED
  BY <1>1, <1>2, <1>3, <1>4, <1>5, RunEffect

LEMMA ReleaseBattle ==
    ASSUME BgInv, NEW b \in Bg, CloseBattleground(b)
    PROVE  Abstract!Next
<1>1. /\ state[b] = "exit" /\ state' = [state EXCEPT ![b] = "none"]
      /\ scene' = [scene EXCEPT ![b] = {}] /\ settled' = [settled EXCEPT ![b] = <<>>]
  BY DEF CloseBattleground, Switch, InitBattleground
<1>2. phases' = [phases EXCEPT ![b] = "idle"] /\ phases[b] = "over"
  BY <1>1, PhaseSwitch DEF phases, PhaseOf
<1>3. prizes' = [prizes EXCEPT ![b] = "none"]
  <2>1. settled = [d \in Bg |-> settled[d]]
    BY DEF BgInv, BgOK
  <2>2. \A d \in Bg : settled'[d] = IF d = b THEN <<>> ELSE settled[d]
    BY <1>1, <2>1
  <2> QED
    BY <2>2 DEF prizes
<1>4. Abstract!Release(b)
  BY <1>1, <1>2, <1>3 DEF Abstract!Release, phases, PhaseOf, prizes
<1> QED
  BY <1>4 DEF Abstract!Next

LEMMA StepBattle ==
    ASSUME BgInv, [Next]_vars
    PROVE  [Abstract!Next]_(Abstract!vars)
<1>1. ASSUME NEW c \in Conn, ConnectionUp(c) PROVE UNCHANGED Abstract!vars
  BY <1>1, SameState DEF ConnectionUp, bgVars, stateVars, memberVars, fightVars
<1>2. ASSUME NEW c \in Conn, ConnectionDown(c) PROVE [Abstract!Next]_(Abstract!vars)
  <2> DEFINE p == <<c, client[c]>>
  <2>1. CASE client[c] = NoId
    BY <1>2, <2>1, SameState DEF ConnectionDown, bgVars, stateVars, memberVars, fightVars
  <2>2. CASE client[c] # NoId
    <3>1. /\ here' = here \ {p} /\ ClosePlayer(p)
          /\ UNCHANGED <<state, settled>>
      BY <1>2, <2>2 DEF ConnectionDown, stateVars, fightVars
    <3>2. p \in here
      BY <2>2 DEF BgInv, LoggedIn
    <3> QED
      BY <3>1, <3>2, LeaveBattle
  <2> QED
    BY <2>1, <2>2
<1>3. ASSUME NEW c \in Conn, Message(c) PROVE [Abstract!Next]_(Abstract!vars)
  <2> DEFINE p == <<c, client[c]>>
  <2>1. ASSUME NEW b \in Bg, NEW t \in Team, EnterBattle(p, b, t) PROVE Abstract!Next
    BY <2>1, JoinBattle
  <2>2. ASSUME ExitBattle(p) PROVE [Abstract!Next]_(Abstract!vars)
    <3>1. p \in here /\ ClosePlayer(p) /\ here' = here /\ UNCHANGED <<state, settled>>
      BY <2>2 DEF ExitBattle, stateVars, fightVars
    <3> QED
      BY <3>1, LeaveBattle
  <2>3. ASSUME NEW t \in Team, DestroyBuilding(p, t) PROVE UNCHANGED Abstract!vars
    BY <2>3, SameState DEF DestroyBuilding, stateVars, memberVars
  <2>4. ASSUME PlantFlower(p) PROVE UNCHANGED Abstract!vars
    BY <2>4, SameState DEF PlantFlower, stateVars, memberVars
  <2> QED
    BY <1>3, <2>1, <2>2, <2>3, <2>4 DEF Message
<1>4. ASSUME NEW c \in Conn, NEW i \in Id, LoginOk(c, i) PROVE UNCHANGED Abstract!vars
  BY <1>4, SameState DEF LoginOk, stateVars, memberVars, fightVars
<1>5. ASSUME NEW b \in Bg, RunBattleground(b) PROVE [Abstract!Next]_(Abstract!vars)
  BY <1>5, ReleaseBattle, RunsBattle DEF RunBattleground, memberVars
<1>6. ASSUME NEW b \in Bg, TimeLimit(b) \/ WaitLimit(b) PROVE UNCHANGED Abstract!vars
  BY <1>6, SameState DEF TimeLimit, WaitLimit, memberVars, fightVars
<1>7. ASSUME NewDay PROVE UNCHANGED Abstract!vars
  BY <1>7, SameState DEF NewDay, stateVars, memberVars, fightVars
<1>8. ASSUME UNCHANGED vars PROVE UNCHANGED Abstract!vars
  BY <1>8, SameState DEF vars, bgVars, stateVars, memberVars, fightVars
<1> QED
  BY <1>1, <1>2, <1>3, <1>4, <1>5, <1>6, <1>7, <1>8 DEF Next, LoginRefused, LoginTwice

\* The battlegrounds behave as Battle has them: one battle at a time for a player, a
\* prize only at the end of a fight with somebody on both sides, everyone released.
THEOREM BattlesKeepPromise == Spec => Promise
BY InitBattle, StepBattle, BgInvariant, PTL DEF Spec, Promise, Abstract!Spec

-----------------------------------------------------------------------------
(* The clients of LoongBgSrv in the order of their last messages             *)

ClientState == [up : BOOLEAN, lastRecv : Nat, lastSec : Nat, packets : Nat]

\* The clients that are up are in the list, once each, and who is behind another has
\* not been silent for longer than that one and the length of a round.
InLine(list, c) ==
    /\ list \in Seq(Peer)
    /\ \A i, j \in 1..Len(list) : i # j => list[i] # list[j]
    /\ \A p \in Peer : c[p].up <=> \E i \in 1..Len(list) : list[i] = p
    /\ \A i, j \in 1..Len(list) : i < j => c[list[j]].lastRecv <= c[list[i]].lastRecv + MaxLag

LEMMA LeastOf ==
    ASSUME NEW T \in SUBSET Nat, T # {}
    PROVE  Min(T) \in T
<1>1. \E x \in T : \A y \in T : x <= y
  <2>1. IsWellFoundedOn(OpToRel(<, Nat), Nat)
    BY NatLessThanWellFounded
  <2>2. PICK x \in T : \A y \in T : ~(<<y, x>> \in OpToRel(<, Nat))
    BY <2>1, WFMin
  <2>3. \A y \in T : ~(y < x)
    BY <2>2 DEF OpToRel
  <2> QED
    BY <2>3
<1> QED
  BY <1>1 DEF Min

LEMMA TakenOut ==
    ASSUME NEW S, NEW list \in Seq(S), NEW p,
           NEW k \in 1..Len(list), list[k] = p, \A i \in 1..Len(list) : list[i] = p => i = k
    PROVE  /\ RemoveFirst(list, p) \in Seq(S) /\ Len(RemoveFirst(list, p)) = Len(list) - 1
           /\ \A j \in 1..(Len(list) - 1) :
                 RemoveFirst(list, p)[j] = IF j < k THEN list[j] ELSE list[j + 1]
<1> DEFINE I == {i \in 1..Len(list) : list[i] = p}
<1>1. I = {k} /\ Len(list) \in Nat
  OBVIOUS
<1>2. SelectInSeq(list, LAMBDA v : v = p) = k
  <2>1. SelectInSeq(list, LAMBDA v : v = p) = IF I # {} THEN Min(I) ELSE 0
    BY DEF SelectInSeq
  <2>2. Min({k}) = k
    BY DEF Min
  <2> HIDE DEF I
  <2> QED
    BY <1>1, <2>1, <2>2
<1>3. RemoveFirst(list, p) = RemoveAt(list, k)
  BY <1>2 DEF RemoveFirst
<1>4. PICK a : a = SubSeq(list, 1, k - 1)
  OBVIOUS
<1>5. PICK b : b = SubSeq(list, k + 1, Len(list))
  OBVIOUS
<1>6. a \in Seq(S) /\ Len(a) = k - 1 /\ \A j \in 1..(k - 1) : a[j] = list[j]
  BY <1>1, <1>4
<1>7. b \in Seq(S) /\ Len(b) = Len(list) - k /\ \A j \in 1..(Len(list) - k) : b[j] = list[k + j]
  BY <1>1, <1>5
<1>8. RemoveFirst(list, p) = a \o b
  BY <1>3, <1>4, <1>5 DEF RemoveAt
<1>9. /\ a \o b \in Seq(S) /\ Len(a \o b) = Len(a) + Len(b)
      /\ \A i \in 1 .. Len(a) + Len(b) : (a \o b)[i] = IF i <= Len(a) THEN a[i] ELSE b[i - Len(a)]
  BY <1>6, <1>7, ConcatProperties
<1>10. PICK r : r = RemoveFirst(list, p)
  OBVIOUS
<1> HIDE DEF I
<1>13. r = a \o b
  BY <1>8, <1>10
<1>14. PICK m : m = Len(list)
  OBVIOUS
<1>15. /\ r \in Seq(S) /\ Len(r) = Len(a) + Len(b)
       /\ \A i \in 1 .. Len(a) + Len(b) : r[i] = IF i <= Len(a) THEN a[i] ELSE b[i - Len(a)]
  BY <1>9, <1>13
<1>11. /\ r \in Seq(S) /\ Len(r) = Len(list) - 1
       /\ \A i \in 1..(Len(list) - 1) : r[i] = IF i <= k - 1 THEN a[i] ELSE b[i - (k - 1)]
  <2>1. m \in Nat /\ k \in 1..m /\ Len(a) = k - 1 /\ Len(b) = m - k /\ Len(a) + Len(b) = m - 1
    BY <1>1, <1>6, <1>7, <1>14
  <2> QED
    BY <1>14, <1>15, <2>1
<1>12. ASSUME NEW j \in 1..(Len(list) - 1)
       PROVE  r[j] = IF j < k THEN list[j] ELSE list[j + 1]
  <2>1. r[j] = IF j <= k - 1 THEN a[j] ELSE b[j - (k - 1)]
    BY <1>11
  <2>2. CASE j < k
    <3>1. j \in 1..(k - 1)
      BY <1>1, <2>2
    <3> QED
      BY <1>6, <2>1, <2>2, <3>1
  <2>3. CASE j >= k
    <3>1. j - (k - 1) \in 1..(Len(list) - k) /\ k + (j - (k - 1)) = j + 1
      BY <1>1, <2>3
    <3>2. b[j - (k - 1)] = list[k + (j - (k - 1))]
      BY <1>7, <3>1
    <3>3. ~(j <= k - 1) /\ ~(j < k)
      BY <1>1, <2>3
    <3> QED
      BY <2>1, <3>1, <3>2, <3>3
  <2> QED
    BY <2>2, <2>3
<1> QED
  BY <1>10, <1>11, <1>12

LEMMA LineWithout ==
    ASSUME NEW list, NEW c, InLine(list, c), NEW p \in Peer, c[p].up,
           NEW d, ~d[p].up, \A q \in Peer \ {p} : d[q] = c[q]
    PROVE  InLine(RemoveFirst(list, p), d)
<1>1. PICK k \in 1..Len(list) : list[k] = p
  BY DEF InLine
<1>2. /\ list \in Seq(Peer) /\ Len(list) \in Nat
      /\ \A i, j \in 1..Len(list) : i # j => list[i] # list[j]
      /\ \A i \in 1..Len(list) : list[i] \in Peer
  BY DEF InLine
<1>3. PICK r : r = RemoveFirst(list, p)
  OBVIOUS
<1>4. \A i \in 1..Len(list) : list[i] = p => i = k
  BY <1>1, <1>2
<1>5. /\ r \in Seq(Peer) /\ Len(r) = Len(list) - 1
      /\ \A j \in 1..Len(r) : r[j] = IF j < k THEN list[j] ELSE list[j + 1]
  <2>1. /\ r \in Seq(Peer) /\ Len(r) = Len(list) - 1
        /\ \A j \in 1..(Len(list) - 1) : r[j] = IF j < k THEN list[j] ELSE list[j + 1]
    BY <1>1, <1>2, <1>3, <1>4, TakenOut
  <2> QED
    BY <2>1
<1> DEFINE From(j) == IF j < k THEN j ELSE j + 1
<1>6. /\ \A j \in 1..Len(r) : From(j) \in 1..Len(list) /\ r[j] = list[From(j)] /\ From(j) # k
      /\ \A i, j \in 1..Len(r) : i < j => From(i) < From(j)
  BY <1>1, <1>2, <1>5
<1>7. \A i \in 1..Len(list) : i # k => \E j \in 1..Len(r) : From(j) = i
  <2>1. ASSUME NEW i \in 1..Len(list), i < k PROVE i \in 1..Len(r) /\ From(i) = i
    BY <1>1, <1>2, <1>5, <2>1
  <2>2. ASSUME NEW i \in 1..Len(list), i > k PROVE i - 1 \in 1..Len(r) /\ From(i - 1) = i
    BY <1>1, <1>2, <1>5, <2>2
  <2> QED
    BY <1>1, <2>1, <2>2
<1> HIDE DEF From
<1>8. \A j \in 1..Len(r) : r[j] # p /\ r[j] \in Peer /\ d[r[j]] = c[r[j]]
  BY <1>1, <1>2, <1>6
<1>9. ASSUME NEW i \in 1..Len(r), NEW j \in 1..Len(r), i # j
      PROVE  r[i] # r[j]
  <2>1. From(i) # From(j)
    <3>1. From(i) \in Int /\ From(j) \in Int
      BY <1>6
    <3>2. i < j \/ j < i
      BY <1>9, <1>5
    <3> QED
      BY <1>6, <3>1, <3>2
  <2> QED
    BY <1>2, <1>6, <2>1
<1>10. ASSUME NEW q \in Peer
       PROVE  d[q].up <=> \E j \in 1..Len(r) : r[j] = q
  <2>1. CASE q = p
    BY <1>8, <2>1
  <2>2. CASE q # p
    <3>1. d[q] = c[q] /\ (c[q].up <=> \E i \in 1..Len(list) : list[i] = q)
      BY <2>2 DEF InLine
    <3>2. (\E i \in 1..Len(list) : list[i] = q) => \E j \in 1..Len(r) : r[j] = q
      BY <1>1, <1>6, <1>7, <2>2
    <3>3. (\E j \in 1..Len(r) : r[j] = q) => \E i \in 1..Len(list) : list[i] = q
      BY <1>6
    <3> QED
      BY <3>1, <3>2, <3>3
  <2> QED
    BY <2>1, <2>2
<1>11. ASSUME NEW i \in 1..Len(r), NEW j \in 1..Len(r), i < j
       PROVE  d[r[j]].lastRecv <= d[r[i]].lastRecv + MaxLag
  <2>1. From(i) \in 1..Len(list) /\ From(j) \in 1..Len(list) /\ From(i) < From(j)
    BY <1>6, <1>11
  <2>2. c[list[From(j)]].lastRecv <= c[list[From(i)]].lastRecv + MaxLag
    BY <2>1 DEF InLine
  <2> QED
    BY <1>6, <1>8, <2>2
<1> QED
  BY <1>3, <1>5, <1>9, <1>10, <1>11 DEF InLine

LEMMA LineWith ==
    ASSUME NEW list, NEW c, InLine(list, c), NEW p \in Peer, ~c[p].up,
           \A q \in Peer : c[q].lastRecv \in Nat,
           NEW d, d[p].up, d[p].lastRecv \in 0..MaxLag, \A q \in Peer \ {p} : d[q] = c[q]
    PROVE  InLine(Append(list, p), d)
<1>1. PICK r : r = Append(list, p)
  OBVIOUS
<1>2. /\ list \in Seq(Peer) /\ Len(list) \in Nat
      /\ \A i, j \in 1..Len(list) : i # j => list[i] # list[j]
      /\ \A i \in 1..Len(list) : list[i] \in Peer
  BY DEF InLine
<1>3. /\ r \in Seq(Peer) /\ Len(r) = Len(list) + 1 /\ r[Len(list) + 1] = p
      /\ \A i \in 1..Len(list) : r[i] = list[i]
  BY <1>1, <1>2
<1>4. \A i \in 1..Len(list) : list[i] # p
  BY DEF InLine
<1>5. \A i \in 1..Len(r) : i \in 1..Len(list) \/ i = Len(list) + 1
  BY <1>2, <1>3
<1>6. \A i, j \in 1..Len(r) : i # j => r[i] # r[j]
  BY <1>2, <1>3, <1>4, <1>5
<1>7. ASSUME NEW q \in Peer
      PROVE  d[q].up <=> \E i \in 1..Len(r) : r[i] = q
  <2>1. CASE q = p
    <3>1. Len(list) + 1 \in 1..Len(r)
      BY <1>2, <1>3
    <3> QED
      BY <1>3, <2>1, <3>1
  <2>2. CASE q # p
    <3>1. d[q] = c[q] /\ (c[q].up <=> \E i \in 1..Len(list) : list[i] = q)
      BY <2>2 DEF InLine
    <3>2. \A i \in 1..Len(list) : i \in 1..Len(r)
      BY <1>2, <1>3
    <3> QED
      BY <1>3, <1>5, <2>2, <3>1, <3>2
  <2> QED
    BY <2>1, <2>2
<1>8. ASSUME NEW i \in 1..Len(r), NEW j \in 1..Len(r), i < j
      PROVE  d[r[j]].lastRecv <= d[r[i]].lastRecv + MaxLag
  <2>1. i \in 1..Len(list)
    BY <1>2, <1>3, <1>8
  <2>2. r[i] = list[i] /\ list[i] \in Peer /\ d[list[i]] = c[list[i]] /\ c[list[i]].lastRecv \in Nat
    BY <1>2, <1>3, <1>4, <2>1
  <2>3. CASE j \in 1..Len(list)
    <3>1. r[j] = list[j] /\ d[list[j]] = c[list[j]]
      BY <1>2, <1>3, <1>4, <2>3
    <3>2. c[list[j]].lastRecv <= c[list[i]].lastRecv + MaxLag
      BY <1>8, <2>1, <2>3 DEF InLine
    <3> QED
      BY <2>2, <3>1, <3>2
  <2>4. CASE j = Len(list) + 1
    <3>1. r[j] = p
      BY <1>3, <2>4
    <3> QED
      BY <2>2, <3>1, BgClientsAssumption
  <2> QED
    BY <1>5, <2>3, <2>4
<1> QED
  BY <1>1, <1>3, <1>6, <1>7, <1>8 DEF InLine

LEMMA ReceivedNow ==
    ASSUME NEW k \in ClientState, lag \in 0..MaxLag
    PROVE  Received(k) \in ClientState /\ Received(k).up = k.up /\ Received(k).lastRecv = lag
<1>1. k.lastRecv \in Nat /\ k.lastSec \in Nat /\ k.up \in BOOLEAN /\ k.packets \in Nat /\ lag \in Nat
  BY BgClientsAssumption DEF ClientState
<1>2. k = [up |-> k.up, lastRecv |-> k.lastRecv, lastSec |-> k.lastSec, packets |-> k.packets]
  BY DEF ClientState
<1>3. CASE k.lastSec - lag < Second
  <2>1. Received(k) = [up |-> k.up, lastRecv |-> lag, lastSec |-> k.lastSec,
                       packets |-> k.packets + 1]
    BY <1>2, <1>3 DEF Received
  <2> QED
    BY <1>1, <2>1 DEF ClientState
<1>4. CASE ~(k.lastSec - lag < Second)
  <2>1. Received(k) = [up |-> k.up, lastRecv |-> lag, lastSec |-> lag, packets |-> 1]
    BY <1>2, <1>4 DEF Received
  <2> QED
    BY <1>1, <2>1 DEF ClientState
<1> QED
  BY <1>3, <1>4

LEMMA OlderByOne ==
    ASSUME NEW k \in ClientState, k.lastRecv <= AgeLimit
    PROVE  /\ Older(k) \in ClientState /\ Older(k).up = k.up
           /\ Older(k).lastRecv = IF k.up THEN k.lastRecv + 1 ELSE k.lastRecv
<1>1. AgeLimit \in Nat /\ Second \in Nat /\ MaxLag \in Nat
  BY BgClientsAssumption DEF AgeLimit
<1>2. k.lastRecv \in Nat /\ k.lastSec \in Nat /\ k.up \in BOOLEAN /\ k.packets \in Nat
  BY DEF ClientState
<1>3. Aged(k.lastRecv, AgeLimit + 1) = k.lastRecv + 1 /\ Aged(k.lastSec, Second + MaxLag) \in Nat
  BY <1>1, <1>2 DEF Aged
<1>4. k = [up |-> k.up, lastRecv |-> k.lastRecv, lastSec |-> k.lastSec, packets |-> k.packets]
  BY DEF ClientState
<1>5. Older(k) = IF k.up THEN [k EXCEPT !.lastRecv = k.lastRecv + 1,
                                        !.lastSec = Aged(k.lastSec, Second + MaxLag)] ELSE k
  BY <1>3, <1>4 DEF Older
<1>6. PICK s \in Nat : s = Aged(k.lastSec, Second + MaxLag)
  BY <1>3
<1>7. CASE k.up
  <2>1. Older(k) = [up |-> k.up, lastRecv |-> k.lastRecv + 1, lastSec |-> s, packets |-> k.packets]
    BY <1>4, <1>5, <1>6, <1>7
  <2> QED
    BY <1>2, <1>7, <2>1 DEF ClientState
<1>8. CASE ~k.up
  BY <1>5, <1>8
<1> QED
  BY <1>7, <1>8

ClientsOK ==
    /\ bgClient \in [Peer -> ClientState]
    /\ \A p \in Peer : ~bgClient[p].up => bgClient[p].lastRecv = 0
    /\ lag \in 0..MaxLag /\ sinceTimer \in 0..(TimerPeriod + MaxLag)

\* Whoever was not idle when onTimer ran has got no older than the time since then.
AgedSince == \A p \in Peer : bgClient[p].lastRecv <= IdleLimit + MaxLag + sinceTimer

ClientsInv == ClientsOK /\ InLine(bgClientList, bgClient) /\ AgedSince

LEMMA ClientsStart == BgClientsInit => ClientsInv
<1> SUFFICES ASSUME BgClientsInit PROVE ClientsInv
  OBVIOUS
<1>1. Away \in ClientState /\ ~Away.up /\ Away.lastRecv = 0
  BY DEF Away, ClientState
<1>2. bgClient \in [Peer -> ClientState] /\ \A p \in Peer : bgClient[p] = Away
  BY <1>1 DEF BgClientsInit
<1>3. ClientsOK
  BY <1>1, <1>2, BgClientsAssumption DEF BgClientsInit, ClientsOK
<1>4. InLine(bgClientList, bgClient)
  <2>1. bgClientList = <<>> /\ Len(bgClientList) = 0 /\ bgClientList \in Seq(Peer)
    BY DEF BgClientsInit
  <2>2. 1..Len(bgClientList) = {}
    BY <2>1
  <2> QED
    BY <1>1, <1>2, <2>1, <2>2 DEF InLine
<1>5. AgedSince
  BY <1>1, <1>2, BgClientsAssumption DEF BgClientsInit, AgedSince
<1> QED
  BY <1>3, <1>4, <1>5 DEF ClientsInv

LEMMA ClientLeaves ==
    ASSUME ClientsInv, NEW p \in Peer, bgClient[p].up,
           bgClientList' = RemoveFirst(bgClientList, p), bgClient' = [bgClient EXCEPT ![p] = Away],
           UNCHANGED <<lag, sinceTimer>>
    PROVE  ClientsInv'
<1>1. Away \in ClientState /\ ~Away.up /\ Away.lastRecv = 0
  BY DEF Away, ClientState
<1>2. PICK d : d = bgClient'
  OBVIOUS
<1>3. d \in [Peer -> ClientState] /\ d[p] = Away /\ \A q \in Peer \ {p} : d[q] = bgClient[q]
  BY <1>1, <1>2 DEF ClientsInv, ClientsOK
<1>4. ClientsOK'
  BY <1>1, <1>2, <1>3 DEF ClientsInv, ClientsOK
<1>5. InLine(RemoveFirst(bgClientList, p), d)
  BY <1>1, <1>3, LineWithout DEF ClientsInv
<1>6. AgedSince'
  <2>1. sinceTimer \in Nat
    BY BgClientsAssumption DEF ClientsInv, ClientsOK
  <2>2. \A q \in Peer : d[q].lastRecv <= IdleLimit + MaxLag + sinceTimer
    BY <1>1, <1>3, <2>1, BgClientsAssumption DEF ClientsInv, AgedSince
  <2> QED
    BY <1>2, <2>2 DEF AgedSince
<1> QED
  BY <1>2, <1>4, <1>5, <1>6 DEF ClientsInv

LEMMA ClientCounted ==
    ASSUME ClientsInv, NEW p \in Peer,
           NEW k \in ClientState, k.up, k.lastRecv \in 0..MaxLag,
           bgClient' = [bgClient EXCEPT ![p] = k], UNCHANGED <<lag, sinceTimer>>,
           NEW list, NEW e, InLine(list, e), ~e[p].up, e \in [Peer -> ClientState],
           \A q \in Peer \ {p} : e[q] = bgClient[q],
           bgClientList' = Append(list, p)
    PROVE  ClientsInv'
<1>1. PICK d : d = bgClient'
  OBVIOUS
<1>2. d \in [Peer -> ClientState] /\ d[p] = k /\ \A q \in Peer \ {p} : d[q] = bgClient[q]
  BY <1>1 DEF ClientsInv, ClientsOK
<1>3. ClientsOK'
  BY <1>1, <1>2 DEF ClientsInv, ClientsOK
<1>4. \A q \in Peer : e[q].lastRecv \in Nat
  BY DEF ClientState
<1>5. InLine(Append(list, p), d)
  <2>1. d[p].up /\ d[p].lastRecv \in 0..MaxLag /\ \A q \in Peer \ {p} : d[q] = e[q]
    BY <1>2
  <2> QED
    BY <1>4, <2>1, LineWith
<1>6. AgedSince'
  <2>1. sinceTimer \in Nat /\ k.lastRecv \in 0..MaxLag
    BY BgClientsAssumption DEF ClientsInv, ClientsOK
  <2>2. \A q \in Peer : d[q].lastRecv <= IdleLimit + MaxLag + sinceTimer
    BY <1>2, <2>1, BgClientsAssumption DEF ClientsInv, AgedSince
  <2> QED
    BY <1>1, <2>2 DEF AgedSince
<1> QED
  BY <1>1, <1>3, <1>5, <1>6 DEF ClientsInv

LEMMA ClientComes ==
    ASSUME ClientsInv, NEW p \in Peer, PeerUp(p)
    PROVE  ClientsInv'
<1>1. PICK k : k = [Away EXCEPT !.up = TRUE]
  OBVIOUS
<1>2. k \in ClientState /\ k.up /\ k.lastRecv \in 0..MaxLag
  <2>1. k = [up |-> TRUE, lastRecv |-> 0, lastSec |-> 0, packets |-> 0]
    BY <1>1 DEF Away
  <2> QED
    BY <2>1, BgClientsAssumption DEF ClientState
<1>3. bgClient' = [bgClient EXCEPT ![p] = k] /\ UNCHANGED <<lag, sinceTimer>>
      /\ bgClientList' = Append(bgClientList, p) /\ ~bgClient[p].up
  BY <1>1 DEF PeerUp
<1>4. InLine(bgClientList, bgClient) /\ bgClient \in [Peer -> ClientState]
  BY DEF ClientsInv, ClientsOK
<1> QED
  BY <1>2, <1>3, <1>4, ClientCounted

LEMMA ClientSends ==
    ASSUME ClientsInv, NEW p \in Peer, PeerMessage(p)
    PROVE  ClientsInv'
<1>1. bgClient[p] \in ClientState /\ bgClient[p].up /\ lag \in 0..MaxLag
  BY DEF ClientsInv, ClientsOK, PeerMessage
<1>2. PICK k : k = Received(bgClient[p])
  OBVIOUS
<1>3. k \in ClientState /\ k.up /\ k.lastRecv \in 0..MaxLag
  BY <1>1, <1>2, ReceivedNow
<1>4. CASE k.packets > MaxLimit
  <2>1. /\ bgClientList' = RemoveFirst(bgClientList, p) /\ bgClient' = [bgClient EXCEPT ![p] = Away]
        /\ UNCHANGED <<lag, sinceTimer>>
    BY <1>2, <1>4 DEF PeerMessage
  <2> QED
    BY <1>1, <2>1, ClientLeaves
<1>5. CASE ~(k.packets > MaxLimit)
  <2>1. /\ bgClientList' = Append(RemoveFirst(bgClientList, p), p)
        /\ bgClient' = [bgClient EXCEPT ![p] = k]
        /\ UNCHANGED <<lag, sinceTimer>>
    BY <1>2, <1>5 DEF PeerMessage
  <2>2. PICK e : e = [bgClient EXCEPT ![p] = Away]
    OBVIOUS
  <2>3. /\ e \in [Peer -> ClientState] /\ ~e[p].up
        /\ \A q \in Peer \ {p} : e[q] = bgClient[q]
    <3>1. Away \in ClientState /\ ~Away.up
      BY DEF Away, ClientState
    <3> QED
      BY <2>2, <3>1 DEF ClientsInv, ClientsOK
  <2>4. PICK list : list = RemoveFirst(bgClientList, p)
    OBVIOUS
  <2>5. InLine(list, e)
    BY <1>1, <2>3, <2>4, LineWithout DEF ClientsInv
  <2> QED
    BY <1>3, <2>1, <2>3, <2>4, <2>5, ClientCounted
<1> QED
  BY <1>4, <1>5

\* onTimer leaves the first client that is not idle and those behind it, who are not
\* idle either but for the length of a round.
LEMMA IdleGo ==
    ASSUME ClientsInv, OnTimer
    PROVE  ClientsInv'
<1> DEFINE list == bgClientList
           NotIdle(q) == bgClient[q].lastRecv <= IdleLimit
           I == {i \in 1..Len(list) : NotIdle(list[i])}
<1>1. PICK f : f = SelectInSeq(bgClientList, LAMBDA q : bgClient[q].lastRecv <= IdleLimit)
  OBVIOUS
<1>2. PICK idle : idle = IF f = 0 THEN bgClientList ELSE SubSeq(bgClientList, 1, f - 1)
  OBVIOUS
<1>3. /\ sinceTimer' = 0 /\ lag' = lag
      /\ bgClientList' = SubSeq(bgClientList, Len(idle) + 1, Len(bgClientList))
      /\ bgClient' = [q \in Peer |-> IF Contains(idle, q) THEN Away ELSE bgClient[q]]
  BY <1>1, <1>2 DEF OnTimer
<1>4. /\ list \in Seq(Peer) /\ Len(list) \in Nat
      /\ \A i \in 1..Len(list) : list[i] \in Peer
      /\ \A i, j \in 1..Len(list) : i # j => list[i] # list[j]
  BY DEF ClientsInv, InLine
<1>5. f \in 0..Len(list) /\ (f # 0 => NotIdle(list[f]))
  <2>1. f = IF I # {} THEN Min(I) ELSE 0
    BY <1>1 DEF SelectInSeq
  <2>2. CASE I # {}
    <3>1. I \in SUBSET Nat
      BY <1>4
    <3>2. Min(I) \in I
      BY <2>2, <3>1, LeastOf
    <3> QED
      BY <2>1, <2>2, <3>2
  <2>3. CASE I = {}
    <3>1. f = 0 /\ Len(list) \in Nat
      BY <1>4, <2>1, <2>3
    <3> HIDE DEF list, I, NotIdle
    <3> QED
      BY <3>1
  <2> HIDE DEF I
  <2> QED
    BY <2>2, <2>3
<1> HIDE DEF list, I
<1>6. PICK n : n = Len(idle)
  OBVIOUS
<1>7. /\ n \in 0..Len(list) /\ \A i \in 1..n : idle[i] = list[i]
      /\ n < Len(list) => NotIdle(list[n + 1])
  <2>1. CASE f = 0
    BY <1>2, <1>4, <1>5, <1>6, <2>1 DEF list
  <2>2. CASE f # 0
    <3>1. /\ idle = SubSeq(list, 1, f - 1) /\ f - 1 \in 0..Len(list)
      BY <1>2, <1>5, <2>2 DEF list
    <3>2. Len(idle) = f - 1 /\ \A i \in 1..(f - 1) : idle[i] = list[i]
      BY <1>4, <3>1
    <3>3. n + 1 = f
      BY <1>5, <1>6, <3>2
    <3> QED
      BY <1>5, <1>6, <2>2, <3>1, <3>2, <3>3
  <2> QED
    BY <2>1, <2>2
<1>8. PICK r : r = bgClientList'
  OBVIOUS
<1>9. r \in Seq(Peer) /\ Len(r) = Len(list) - n /\ \A j \in 1..Len(r) : r[j] = list[n + j]
  <2>1. r = SubSeq(list, n + 1, Len(list))
    BY <1>3, <1>6, <1>8 DEF list
  <2> QED
    BY <1>4, <1>7, <2>1
<1>10. PICK d : d = bgClient'
  OBVIOUS
<1>11. Away \in ClientState /\ ~Away.up /\ Away.lastRecv = 0
  BY DEF Away, ClientState
<1>12. d \in [Peer -> ClientState]
       /\ \A q \in Peer : d[q] = IF \E i \in 1..n : list[i] = q THEN Away ELSE bgClient[q]
  <2>1. \A q \in Peer : Contains(idle, q) <=> \E i \in 1..n : list[i] = q
    BY <1>6, <1>7 DEF Contains
  <2>2. d = [q \in Peer |-> IF \E i \in 1..n : list[i] = q THEN Away ELSE bgClient[q]]
    BY <1>3, <1>10, <2>1
  <2> QED
    BY <1>11, <2>2 DEF ClientsInv, ClientsOK
<1>13. \A j \in 1..Len(r) : n + j \in 1..Len(list) /\ n + j > n
  BY <1>4, <1>7, <1>9
<1>14. \A j \in 1..Len(r) : r[j] \in Peer /\ d[r[j]] = bgClient[r[j]]
  <2>1. ASSUME NEW j \in 1..Len(r), NEW i \in 1..n PROVE list[i] # r[j]
    <3>1. i \in 1..Len(list) /\ n + j \in 1..Len(list) /\ i # n + j
      BY <1>4, <1>7, <1>13
    <3> QED
      BY <1>4, <1>9, <3>1
  <2> QED
    BY <1>4, <1>9, <1>12, <1>13, <2>1
<1>15. InLine(r, d)
  <2>1. ASSUME NEW i \in 1..Len(r), NEW j \in 1..Len(r), i # j PROVE r[i] # r[j]
    <3>1. n + i # n + j
      BY <1>4, <1>7, <1>9, <2>1
    <3> QED
      BY <1>4, <1>9, <1>13, <3>1
  <2>2. ASSUME NEW q \in Peer PROVE d[q].up <=> \E i \in 1..Len(r) : r[i] = q
    <3>1. CASE \E i \in 1..n : list[i] = q
      <4>1. \A j \in 1..Len(r) : r[j] # q
        <5>1. PICK i \in 1..n : list[i] = q
          BY <3>1
        <5>2. ASSUME NEW j \in 1..Len(r) PROVE r[j] # q
          <6>1. i \in 1..Len(list) /\ n + j \in 1..Len(list) /\ i # n + j
            BY <1>4, <1>7, <1>13
          <6> QED
            BY <1>4, <1>9, <5>1, <6>1
        <5> QED
          BY <5>2
      <4> QED
        BY <1>11, <1>12, <3>1, <4>1
    <3>2. CASE ~\E i \in 1..n : list[i] = q
      <4>1. d[q] = bgClient[q] /\ (bgClient[q].up <=> \E i \in 1..Len(list) : list[i] = q)
        BY <1>12, <3>2 DEF ClientsInv, InLine, list
      <4>2. ASSUME NEW i \in 1..Len(list), list[i] = q PROVE \E j \in 1..Len(r) : r[j] = q
        <5>1. i > n
          BY <1>4, <1>7, <3>2, <4>2
        <5>2. i - n \in 1..Len(r) /\ n + (i - n) = i
          BY <1>4, <1>7, <1>9, <5>1
        <5>3. r[i - n] = list[n + (i - n)]
          BY <1>9, <5>2
        <5> QED
          BY <4>2, <5>2, <5>3
      <4> QED
        BY <1>9, <1>13, <4>1, <4>2
    <3> QED
      BY <3>1, <3>2
  <2>3. ASSUME NEW i \in 1..Len(r), NEW j \in 1..Len(r), i < j
        PROVE  d[r[j]].lastRecv <= d[r[i]].lastRecv + MaxLag
    <3>1. n + i < n + j /\ n + i \in 1..Len(list) /\ n + j \in 1..Len(list)
      BY <1>4, <1>7, <1>9, <1>13, <2>3
    <3>2. bgClient[list[n + j]].lastRecv <= bgClient[list[n + i]].lastRecv + MaxLag
      BY <3>1 DEF ClientsInv, InLine, list
    <3> QED
      BY <1>9, <1>14, <3>2
  <2> QED
    BY <1>9, <2>1, <2>2, <2>3 DEF InLine
<1>16. ASSUME NEW q \in Peer PROVE d[q].lastRecv <= IdleLimit + MaxLag
  <2>1. CASE ~d[q].up
    <3>1. d[q].lastRecv = 0
      BY <1>11, <1>12, <2>1 DEF ClientsInv, ClientsOK
    <3> QED
      BY <3>1, BgClientsAssumption
  <2>2. CASE d[q].up
    <3>1. PICK j \in 1..Len(r) : r[j] = q
      BY <1>15, <2>2 DEF InLine
    <3>2. n < Len(list) /\ 1 \in 1..Len(r) /\ r[1] = list[n + 1]
      BY <1>4, <1>7, <1>9, <3>1
    <3>3. d[r[1]].lastRecv <= IdleLimit
      BY <1>7, <1>14, <3>2
    <3>4. \A i \in 1..Len(r) : d[r[i]].lastRecv \in Nat
      BY <1>12, <1>14 DEF ClientState
    <3>5. j = 1 \/ 1 < j
      OBVIOUS
    <3>6. d[r[j]].lastRecv <= d[r[1]].lastRecv + MaxLag \/ j = 1
      BY <1>15, <3>2, <3>5 DEF InLine
    <3> QED
      BY SMTT(30), <3>1, <3>2, <3>3, <3>4, <3>6, BgClientsAssumption
  <2> QED
    BY <2>1, <2>2
<1>17. ClientsOK'
  <2>1. \A q \in Peer : ~d[q].up => d[q].lastRecv = 0
    BY <1>11, <1>12 DEF ClientsInv, ClientsOK
  <2> QED
    BY <1>3, <1>10, <1>12, <2>1, BgClientsAssumption DEF ClientsInv, ClientsOK
<1>18. AgedSince'
  <2>1. \A q \in Peer : d[q].lastRecv \in Nat
    BY <1>12 DEF ClientState
  <2> QED
    BY <1>3, <1>10, <1>16, <2>1, BgClientsAssumption DEF AgedSince
<1> QED
  BY <1>8, <1>10, <1>15, <1>17, <1>18 DEF ClientsInv

LEMMA ClientsAge ==
    ASSUME ClientsInv, BgTimePasses
    PROVE  ClientsInv'
<1>1. /\ bgClientList' = bgClientList /\ sinceTimer' = sinceTimer + 1
      /\ bgClient' = [q \in Peer |-> Older(bgClient[q])]
      /\ lag' \in 0..MaxLag /\ sinceTimer' \in 0..(TimerPeriod + MaxLag)
  BY BgClientsAssumption DEF ClientsInv, ClientsOK, BgTimePasses
<1>2. sinceTimer \in 0..(TimerPeriod + MaxLag) /\ \A q \in Peer : bgClient[q] \in ClientState
  BY DEF ClientsInv, ClientsOK
<1>3. \A q \in Peer : bgClient[q].lastRecv \in Nat /\ bgClient[q].lastRecv <= AgeLimit
  BY <1>2, BgClientsAssumption DEF ClientsInv, AgedSince, AgeLimit, ClientState
<1>4. PICK d : d = bgClient'
  OBVIOUS
<1>5. d \in [Peer -> ClientState]
  BY <1>1, <1>2, <1>3, <1>4, OlderByOne
<1>6. \A q \in Peer : /\ d[q].up = bgClient[q].up
                      /\ d[q].lastRecv = IF bgClient[q].up THEN bgClient[q].lastRecv + 1
                                                           ELSE bgClient[q].lastRecv
  <2>1. \A q \in Peer : d[q] = Older(bgClient[q])
    BY <1>1, <1>4
  <2> QED
    BY <1>2, <1>3, <2>1, OlderByOne
<1>7. ClientsOK'
  BY <1>1, <1>4, <1>5, <1>6 DEF ClientsInv, ClientsOK
<1>8. InLine(bgClientList, d)
  <2>1. /\ bgClientList \in Seq(Peer) /\ \A i \in 1..Len(bgClientList) : bgClientList[i] \in Peer
        /\ \A i \in 1..Len(bgClientList) : bgClient[bgClientList[i]].up
    BY DEF ClientsInv, InLine
  <2>2. ASSUME NEW i \in 1..Len(bgClientList), NEW j \in 1..Len(bgClientList), i < j
        PROVE  d[bgClientList[j]].lastRecv <= d[bgClientList[i]].lastRecv + MaxLag
    <3>1. bgClient[bgClientList[j]].lastRecv <= bgClient[bgClientList[i]].lastRecv + MaxLag
      BY <2>2 DEF ClientsInv, InLine
    <3>2. PICK p \in Peer, q \in Peer : p = bgClientList[i] /\ q = bgClientList[j]
      BY <2>1
    <3>3. bgClient[p].up /\ bgClient[q].up
      BY <2>1, <3>2
    <3>4. d[q].lastRecv = bgClient[q].lastRecv + 1 /\ d[p].lastRecv = bgClient[p].lastRecv + 1
      BY <1>6, <3>3
    <3>5. bgClient[p].lastRecv \in Nat /\ bgClient[q].lastRecv \in Nat
      BY <1>3
    <3>6. d[q].lastRecv <= d[p].lastRecv + MaxLag
      <4>1. PICK x \in Nat, y \in Nat : x = bgClient[p].lastRecv /\ y = bgClient[q].lastRecv
        BY <3>5
      <4>2. y <= x + MaxLag
        BY <3>1, <3>2, <4>1
      <4>3. d[q].lastRecv = y + 1 /\ d[p].lastRecv = x + 1
        BY <3>4, <4>1
      <4>4. y + 1 <= (x + 1) + MaxLag
        BY <4>2, BgClientsAssumption
      <4> QED
        BY <4>3, <4>4
    <3> QED
      BY <3>2, <3>6
  <2>3. \A q \in Peer : d[q].up <=> \E i \in 1..Len(bgClientList) : bgClientList[i] = q
    BY <1>6 DEF ClientsInv, InLine
  <2> QED
    BY <2>1, <2>2, <2>3 DEF ClientsInv, InLine
<1>9. AgedSince'
  <2>1. \A q \in Peer : d[q].lastRecv <= IdleLimit + MaxLag + (sinceTimer + 1)
    BY <1>2, <1>3, <1>6, BgClientsAssumption DEF ClientsInv, AgedSince
  <2> QED
    BY <1>1, <1>4, <2>1 DEF AgedSince
<1> QED
  BY <1>1, <1>4, <1>7, <1>8, <1>9 DEF ClientsInv

LEMMA ClientsStep == ClientsInv /\ [BgClientsNext]_bgClientsVars => ClientsInv'
<1> SUFFICES ASSUME ClientsInv, [BgClientsNext]_bgClientsVars PROVE ClientsInv'
  OBVIOUS
<1>1. ASSUME UNCHANGED <<bgClientList, bgClient, lag, sinceTimer>> PROVE ClientsInv'
  BY <1>1 DEF ClientsInv, ClientsOK, InLine, AgedSince
<1>2. ASSUME NEW p \in Peer, PeerUp(p) PROVE ClientsInv'
  BY <1>2, ClientComes
<1>3. ASSUME NEW p \in Peer, PeerDown(p) PROVE ClientsInv'
  BY <1>3, ClientLeaves DEF PeerDown
<1>4. ASSUME NEW p \in Peer, PeerMessage(p) PROVE ClientsInv'
  BY <1>4, ClientSends
<1>5. CASE NextRound
  BY <1>5, BgClientsAssumption DEF NextRound, ClientsInv, ClientsOK, InLine, AgedSince
<1>6. CASE BgTickMe \/ StopBg \/ JoinBgPhp \/ PhpTest \/ PhpTake \/ Sigterm \/ UNCHANGED bgClientsVars
  BY <1>1, <1>6 DEF BgTickMe, StopBg, JoinBgPhp, PhpTest, PhpTake, Sigterm, bgClientsVars
<1> QED
  BY <1>2, <1>3, <1>4, <1>5, <1>6, IdleGo, ClientsAge DEF BgClientsNext

LEMMA InvIdleAreClosed == ClientsInv => IdleAreClosed
<1> SUFFICES ASSUME ClientsInv PROVE IdleAreClosed
  OBVIOUS
<1>1. bgClientList \in Seq(Peer) /\ DOMAIN bgClientList = 1..Len(bgClientList)
      /\ \A i \in 1..Len(bgClientList) : bgClientList[i] \in Peer
  BY DEF ClientsInv, InLine
<1>2. ToSet(bgClientList) = {p \in Peer : bgClient[p].up}
  <2>1. \A p : p \in ToSet(bgClientList) <=> \E i \in 1..Len(bgClientList) : bgClientList[i] = p
    BY <1>1 DEF ToSet
  <2> QED
    BY <1>1, <2>1 DEF ClientsInv, InLine
<1>3. \A i, j \in DOMAIN bgClientList : i < j =>
          /\ bgClientList[i] # bgClientList[j]
          /\ bgClient[bgClientList[j]].lastRecv <= bgClient[bgClientList[i]].lastRecv + MaxLag
  <2>1. ASSUME NEW i \in 1..Len(bgClientList), NEW j \in 1..Len(bgClientList), i < j
        PROVE  /\ bgClientList[i] # bgClientList[j]
               /\ bgClient[bgClientList[j]].lastRecv <= bgClient[bgClientList[i]].lastRecv + MaxLag
    <3>1. i # j
      BY <2>1
    <3> QED
      BY <2>1, <3>1 DEF ClientsInv, InLine
  <2> QED
    BY <1>1, <2>1
<1>4. ASSUME NEW p \in Peer PROVE bgClient[p].lastRecv <= AgeLimit
  <2>1. bgClient[p].lastRecv \in Nat /\ sinceTimer \in 0..(TimerPeriod + MaxLag)
    BY DEF ClientsInv, ClientsOK, ClientState
  <2> QED
    BY <2>1, BgClientsAssumption DEF ClientsInv, AgedSince, AgeLimit
<1> QED
  BY <1>2, <1>3, <1>4 DEF IdleAreClosed

\* LoongBgSrv's list of clients is what it should be, whatever they send and however long
\* the rounds of the loop are, and onTimer closes every client within bounds:
\* onConnectionCallback, onKaBuMessage and onTimer keep it so together.
THEOREM IdleClientsGo == BgClientsSpec => []IdleAreClosed
<1>1. ClientsInv /\ [BgClientsNext]_bgClientsVars => ClientsInv'
  BY ClientsStep
<1> QED
  BY <1>1, ClientsStart, InvIdleAreClosed, PTL DEF BgClientsSpec
=============================================================================
