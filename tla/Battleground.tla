--------------------------- MODULE Battleground ---------------------------
(***************************************************************************)
(* The battlegrounds of LoongBgSrv (src/game/LoongBgSrv): who is in one,   *)
(* the states a battle goes through, the buildings that decide it, the     *)
(* flowers planted in its scene, and the count of battles a player took    *)
(* part in today. Everything runs in one event loop; an action is a        *)
(* message handler or what BattlegroundMgr::run does for one battleground. *)
(*                                                                         *)
(* Hit points are abstracted to dead or not, clocks to whether a limit has *)
(* passed; pets, buffs, skills and dropped items are left out. Module      *)
(* LoongBgSrv adds the connections and gives Next.                         *)
(***************************************************************************)
EXTENDS Naturals, FiniteSets, Sequences

CONSTANTS
    Bg,              \* the battlegrounds (bgList_)
    Conn,            \* connections
    Id,              \* playerIds
    sMaxTeamNum,     \* players a team has room for
    sMaxIFlowerNum,  \* flowers, see PlantFlower
    MaxEnter,        \* bound: players let into a battleground
    MaxPlant         \* bound: flowers planted

ASSUME BattlegroundAssumption ==
    /\ 0 \notin Bg
    /\ IsFiniteSet(Conn) /\ IsFiniteSet(Id)
    /\ sMaxTeamNum \in 1 .. 254
    /\ sMaxIFlowerNum \in Nat
    /\ MaxEnter \in Nat /\ MaxPlant \in Nat

Player == Conn \X Id  \* a BgPlayer, named by who logged in on which connection
IdOf(p) == p[2]
IdsOf(S) == {IdOf(p) : p \in S}
Team == {"black", "white"}

VARIABLES
    \* the BgPlayer objects: which exist, and their battlegroundId_ (0 for
    \* none), team_ and pScene (0 for NULL)
    here, bgId, team, pScene,
    \* each Battleground: pState_ ("none" for NULL), has the time limit of that
    \* state passed, bWaitState_ of StateBattlegroundRun ("late" after 10 s),
    \* bFirst_, bgResult_ and teamNum_
    state, over, wait, bFirst, result, teamNum,
    \* each Scene: playerMgr_, buildings without hit points, flowerList_
    scene, down, flowers,
    sStartId,   \* the id of the next flower, of all scenes
    joinTimes,  \* playerMap_ of JoinTimesMgr
    sameDay,    \* lastTimes_ of JoinTimesMgr is a time of today
    \* what was last put into the queue of the php thread for a battleground
    told,
    \* history: the settlements of a battle, the ids counted for it
    settled, charged,
    \* use of the bounds
    nenter, nplant

playerVars == <<here, bgId, team, pScene>>
stateVars == <<state, over, wait>>
fightVars == <<result, down, flowers, sStartId, settled>>
memberVars == <<bFirst, teamNum, scene>>
joinVars == <<joinTimes, sameDay, charged>>
boundVars == <<nenter, nplant>>
bgVars == <<playerVars, stateVars, fightVars, memberVars, joinVars, told, boundVars>>

Flower == [no : Nat, id : Nat, team : Team \cup {"none"}]
NoTeams == [t \in Team |-> 0]

\* TellPhpBattleInfo: a battleground without a state is reported as waiting.
Info(num, s) == [black |-> num["black"], white |-> num["white"],
                 state |-> IF s = "none" THEN "wait" ELSE s]

BgInit ==
    /\ here = {}
    /\ bgId = [p \in Player |-> 0]
    /\ team = [p \in Player |-> "none"]
    /\ pScene = [p \in Player |-> 0]
    /\ state = [b \in Bg |-> "none"]
    /\ over = [b \in Bg |-> FALSE]
    /\ wait = [b \in Bg |-> "off"]
    /\ bFirst = [b \in Bg |-> TRUE]
    /\ result = [b \in Bg |-> "none"]
    /\ teamNum = [b \in Bg |-> NoTeams]
    /\ scene = [b \in Bg |-> {}]
    /\ down = [b \in Bg |-> {}]
    /\ flowers = [b \in Bg |-> {}]
    /\ sStartId = 1
    /\ joinTimes = [i \in Id |-> 0]
    /\ sameDay = TRUE
    /\ told = [b \in Bg |-> Info(NoTeams, "none")]
    /\ settled = [b \in Bg |-> <<>>]
    /\ charged = [b \in Bg |-> {}]
    /\ nenter = 0 /\ nplant = 0

-----------------------------------------------------------------------------
(* The count of battles                                                     *)

\* incJoinTimes for the ids of S, for the sake of battleground b.
IncJoinTimes(b, S) ==
    /\ joinTimes' = [i \in Id |->
                        (IF sameDay \/ S = {} THEN joinTimes[i] ELSE 0)
                        + (IF i \in S THEN 1 ELSE 0)]
    /\ sameDay' = (sameDay \/ S # {})
    /\ charged' = [charged EXCEPT ![b] = @ \cup S]

\* Midnight: the counts stay until a battle is counted on the new day.
NewDay ==
    /\ sameDay
    /\ sameDay' = FALSE
    /\ UNCHANGED <<playerVars, stateVars, fightVars, memberVars, joinTimes, charged, told,
                   boundVars>>

-----------------------------------------------------------------------------
(* Entering and leaving                                                     *)

\* setBattlegroundState: a new state object, its clock starts, php is told.
Switch(b, s) ==
    /\ state' = [state EXCEPT ![b] = s]
    /\ over' = [over EXCEPT ![b] = FALSE]
    /\ wait' = [wait EXCEPT ![b] = "off"]

HasRoom(b, t) == teamNum[b][t] < sMaxTeamNum

\* Entering a battle that is on counts.
CountEntry(p, b) ==
    IF state[b] = "run" THEN IncJoinTimes(b, {IdOf(p)}) ELSE UNCHANGED joinVars

\* onEnterBattle and addBgPlayer, for a player who is let in.
EnterBattle(p, b, t) ==
    /\ nenter < MaxEnter /\ nenter' = nenter + 1
    /\ p \in here /\ bgId[p] = 0
    /\ state[b] # "exit"
    /\ HasRoom(b, t)
    /\ IF bFirst[b] THEN Switch(b, "wait") ELSE UNCHANGED stateVars
    /\ bFirst' = [bFirst EXCEPT ![b] = FALSE]
    /\ teamNum' = [teamNum EXCEPT ![b][t] = (@ + 1) % 256]
    /\ bgId' = [bgId EXCEPT ![p] = b]
    /\ team' = [team EXCEPT ![p] = t]
    /\ told' = [told EXCEPT ![b] = Info(teamNum'[b], state'[b])]
    /\ CountEntry(p, b)
    /\ scene' = [scene EXCEPT ![b] = {q \in @ : IdOf(q) # IdOf(p)} \cup {p}]
    /\ pScene' = [pScene EXCEPT ![p] = b]
    /\ UNCHANGED <<here, fightVars, nplant>>

\* MUTANT of ClosePlayer: php is not told.
ClosePlayerUntold(p) ==
    LET b == bgId[p] IN
    IF b = 0
    THEN UNCHANGED <<bgId, team, teamNum, scene, charged, told>>
    ELSE /\ teamNum' = [teamNum EXCEPT ![b][team[p]] = (@ + 255) % 256]
         /\ bgId' = [bgId EXCEPT ![p] = 0]
         /\ team' = [team EXCEPT ![p] = "none"]
         /\ scene' = [scene EXCEPT ![b] = {q \in @ : IdOf(q) # IdOf(p)}]
         /\ charged' = [charged EXCEPT ![b] = @ \ {IdOf(p)}]
         /\ UNCHANGED told

\* BgPlayer::close and removeBgPlayer. The player keeps its pScene.
ClosePlayer(p) ==
    LET b == bgId[p] IN
    IF b = 0
    THEN UNCHANGED <<bgId, team, teamNum, scene, charged, told>>
    ELSE /\ teamNum' = [teamNum EXCEPT ![b][team[p]] = (@ + 255) % 256]
         /\ bgId' = [bgId EXCEPT ![p] = 0]
         /\ team' = [team EXCEPT ![p] = "none"]
         /\ scene' = [scene EXCEPT ![b] = {q \in @ : IdOf(q) # IdOf(p)}]
         /\ charged' = [charged EXCEPT ![b] = @ \ {IdOf(p)}]
         /\ told' = [told EXCEPT ![b] = Info(teamNum'[b], state[b])]

\* onExitBattle of a player who is in a battleground.
ExitBattle(p) ==
    /\ p \in here /\ bgId[p] # 0
    /\ ClosePlayer(p)
    /\ UNCHANGED <<here, pScene, stateVars, bFirst, fightVars, joinTimes, sameDay, boundVars>>

-----------------------------------------------------------------------------
(* Fighting                                                                 *)

\* onUseSkill on the building of team t, when the blow takes its last points.
DestroyBuilding(p, t) ==
    LET b == bgId[p] IN
    /\ p \in here /\ b # 0
    /\ t \notin down[b] /\ team[p] # t
    /\ down' = [down EXCEPT ![b] = @ \cup {t}]
    /\ UNCHANGED <<playerVars, stateVars, result, flowers, sStartId, settled, memberVars,
                   joinVars, told, boundVars>>

\* onPlantFlower of a player who carries a seed: into the scene it was last in.
PlantFlower(p) ==
    LET b == pScene[p] IN
    /\ p \in here /\ b # 0
    /\ nplant < MaxPlant /\ nplant' = nplant + 1
    /\ Cardinality(flowers[b]) <= sMaxIFlowerNum
    /\ flowers' = [flowers EXCEPT ![b] =
                      @ \cup {[no |-> nplant, id |-> sStartId, team |-> team[p]]}]
    /\ sStartId' = sStartId + 1
    /\ UNCHANGED <<playerVars, stateVars, result, down, settled, memberVars, joinVars, told,
                   nenter>>

-----------------------------------------------------------------------------
(* Battleground::run: the scene runs, then the state.                       *)

IsFull(b) == \A t \in Team : teamNum[b][t] >= sMaxTeamNum
IsEmpty(b) == \A t \in Team : teamNum[b][t] = 0
HaveOtherTeamEmpty(b) == \E t \in Team : teamNum[b][t] = 0

\* Scene::run: flowers that are dead or past their time (all but those left)
\* disappear; the others may strike the building of the other team.
SceneRun(b, left, d) ==
    /\ left \subseteq flowers[b]
    /\ down[b] \subseteq d
    /\ \A t \in d \ down[b] : \E f \in left : f.team \in Team \ {t}
    /\ flowers' = [flowers EXCEPT ![b] = left]
    /\ down' = [down EXCEPT ![b] = d]
    /\ UNCHANGED sStartId

SwitchAndTell(b, s) ==
    /\ Switch(b, s)
    /\ told' = [told EXCEPT ![b] = Info(teamNum[b], s)]

\* switchRunState counts the battle for everyone in the scene.
SwitchRun(b) == SwitchAndTell(b, "run") /\ IncJoinTimes(b, IdsOf(scene[b]))

\* serializeResult: what php is to give a player: 3 after a draw, 1 to a winner, 2 to a
\* loser.
Award(r, t) == IF r = "draw" THEN 3 ELSE IF r = t THEN 1 ELSE 2

\* settlement: the result, the buildings it was made from, and the awards of whoever is
\* in the scene.
Settlement(b) ==
    [result |-> result'[b], down |-> down'[b],
     awards |-> {<<team[p], Award(result'[b], team[p])>> : p \in scene[b]}]

\* MUTANT of SwitchExit: a fight is settled whoever is left.
SwitchExitSettles(b) ==
    /\ SwitchAndTell(b, "exit")
    /\ settled' = IF state[b] = "run"
                  THEN [settled EXCEPT ![b] = Append(@, Settlement(b))]
                  ELSE settled

\* switchExitState of the run state settles the battle if both teams are there.
SwitchExit(b) ==
    /\ SwitchAndTell(b, "exit")
    /\ settled' = IF state[b] = "run" /\ ~HaveOtherTeamEmpty(b)
                  THEN [settled EXCEPT ![b] = Append(@, Settlement(b))]
                  ELSE settled

Stay == UNCHANGED <<stateVars, told, joinVars, result, settled>>

RunWait(b) ==
    /\ state[b] = "wait"
    /\ \/ /\ IsFull(b) \/ (~IsEmpty(b) /\ over[b])
          /\ SwitchAndTell(b, "countdown")
          /\ UNCHANGED <<joinVars, result, settled>>
       \/ IsEmpty(b) /\ SwitchExit(b) /\ UNCHANGED <<joinVars, result>>
       \/ ~IsFull(b) /\ ~IsEmpty(b) /\ ~over[b] /\ Stay

RunCountDown(b) ==
    /\ state[b] = "countdown"
    /\ \/ /\ over[b] /\ HaveOtherTeamEmpty(b)
          /\ SwitchAndTell(b, "start")
          /\ UNCHANGED <<joinVars, result, settled>>
       \/ over[b] /\ ~HaveOtherTeamEmpty(b) /\ SwitchRun(b) /\ UNCHANGED <<result, settled>>
       \/ ~over[b] /\ Stay

RunStart(b) ==
    /\ state[b] = "start"
    /\ \/ over[b] /\ SwitchExit(b) /\ UNCHANGED <<joinVars, result>>
       \/ /\ ~over[b] /\ ~HaveOtherTeamEmpty(b)
          /\ SwitchRun(b)
          /\ UNCHANGED <<result, settled>>
       \/ ~over[b] /\ HaveOtherTeamEmpty(b) /\ Stay

\* The result that belongs to buildings d, see isGameOver.
Verdict(d) ==
    IF d = {"white"} THEN "black" ELSE IF d = {"black"} THEN "white" ELSE "draw"

\* MUTANT of ResultNow: no result when the time is over.
ResultNowUnset(b) == IF down'[b] = {} THEN result[b] ELSE Verdict(down'[b])

\* The result isGameOver sets, or a draw when the time is over.
ResultNow(b) ==
    CASE down'[b] = Team      -> "draw"
      [] down'[b] = {"black"} -> "white"
      [] down'[b] = {"white"} -> "black"
      [] OTHER                -> "draw"

\* MUTANT of RunRunWaiting: only the return of the other team ends the wait.
RunRunWaitingForever(b) ==
    /\ state[b] = "run" /\ wait[b] # "off"
    /\ \/ /\ ~HaveOtherTeamEmpty(b)
          /\ wait' = [wait EXCEPT ![b] = "off"]
          /\ UNCHANGED <<state, over, told, joinVars, result, settled>>
       \/ HaveOtherTeamEmpty(b) /\ Stay

\* StateBattlegroundRun in its wait state, which looks at nothing else.
RunRunWaiting(b) ==
    /\ state[b] = "run" /\ wait[b] # "off"
    /\ \/ /\ ~HaveOtherTeamEmpty(b)
          /\ wait' = [wait EXCEPT ![b] = "off"]
          /\ UNCHANGED <<state, over, told, joinVars, result, settled>>
       \/ /\ HaveOtherTeamEmpty(b) /\ wait[b] = "late"
          /\ SwitchExit(b)
          /\ UNCHANGED <<joinVars, result>>
       \/ HaveOtherTeamEmpty(b) /\ wait[b] = "on" /\ Stay

RunRun(b) ==
    /\ state[b] = "run" /\ wait[b] = "off"
    /\ \/ /\ down'[b] # {} \/ over[b]
          /\ result' = [result EXCEPT ![b] = ResultNow(b)]
          /\ SwitchExit(b)
          /\ UNCHANGED joinVars
       \/ /\ down'[b] = {} /\ ~over[b] /\ HaveOtherTeamEmpty(b)
          /\ wait' = [wait EXCEPT ![b] = "on"]
          /\ UNCHANGED <<state, over, told, joinVars, result, settled>>
       \/ down'[b] = {} /\ ~over[b] /\ ~HaveOtherTeamEmpty(b) /\ Stay

RunExit(b) == state[b] = "exit" /\ ~over[b] /\ Stay

\* init() of a FlowerMgr. The ids of flowers start again, in every scene.
InitFlowers(b) ==
    /\ flowers' = [flowers EXCEPT ![b] = {}]
    /\ sStartId' = 1

\* MUTANT of InitBattleground: the buildings stay as they are.
InitBattlegroundRuins(b) ==
    /\ bFirst' = [bFirst EXCEPT ![b] = TRUE]
    /\ teamNum' = [teamNum EXCEPT ![b] = NoTeams]
    /\ result' = [result EXCEPT ![b] = "none"]
    /\ scene' = [scene EXCEPT ![b] = {}]
    /\ InitFlowers(b)
    /\ UNCHANGED down

\* init of the battleground and of its scene.
InitBattleground(b) ==
    /\ bFirst' = [bFirst EXCEPT ![b] = TRUE]
    /\ teamNum' = [teamNum EXCEPT ![b] = NoTeams]
    /\ result' = [result EXCEPT ![b] = "none"]
    /\ scene' = [scene EXCEPT ![b] = {}]
    /\ down' = [down EXCEPT ![b] = {}]
    /\ InitFlowers(b)

\* closeBattleground lets go of the players in the scene.
ReleasePlayers(b) ==
    /\ bgId' = [p \in Player |-> IF p \in scene[b] THEN 0 ELSE bgId[p]]
    /\ team' = [p \in Player |-> IF p \in scene[b] THEN "none" ELSE team[p]]

\* StateBattlegroundExit at its limit: closeBattleground.
CloseBattleground(b) ==
    /\ state[b] = "exit" /\ over[b]
    /\ Switch(b, "none")
    /\ ReleasePlayers(b)
    /\ InitBattleground(b)
    /\ told' = [told EXCEPT ![b] = Info(teamNum'[b], "none")]
    /\ settled' = [settled EXCEPT ![b] = <<>>]
    /\ charged' = [charged EXCEPT ![b] = {}]
    /\ UNCHANGED <<here, pScene, joinTimes, sameDay, boundVars>>

StateRun(b) ==
    RunWait(b) \/ RunCountDown(b) \/ RunStart(b) \/ RunRunWaiting(b) \/ RunRun(b) \/ RunExit(b)

RunBattleground(b) ==
    \/ CloseBattleground(b)
    \/ /\ \E left \in SUBSET flowers[b], d \in SUBSET Team : SceneRun(b, left, d)
       /\ StateRun(b)
       /\ UNCHANGED <<playerVars, memberVars, boundVars>>

-----------------------------------------------------------------------------
(* Time                                                                     *)

\* The time limit of the state passes.
TimeLimit(b) ==
    /\ state[b] # "none" /\ ~over[b]
    /\ over' = [over EXCEPT ![b] = TRUE]
    /\ UNCHANGED <<playerVars, state, wait, fightVars, memberVars, joinVars, told, boundVars>>

\* Ten seconds with a team missing.
WaitLimit(b) ==
    /\ wait[b] = "on"
    /\ wait' = [wait EXCEPT ![b] = "late"]
    /\ UNCHANGED <<playerVars, state, over, fightVars, memberVars, joinVars, told, boundVars>>
=============================================================================
