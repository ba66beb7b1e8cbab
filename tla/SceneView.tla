----------------------------- MODULE SceneView -----------------------------
(***************************************************************************)
(* What the clients of a battle are told (BgPlayer, BgFlower, BgBuilding,  *)
(* scene/, getBgInfo of Battleground). A client that has asked for the     *)
(* list of players and for the state of the battle never asks again: from  *)
(* then on it knows the scene only by the packets that are broadcast, each *)
(* of which says one change. The server is one thread and a connection is  *)
(* in order, so a packet is applied when it is sent.                       *)
(*                                                                         *)
(* Why something happens is the subject of Combat and Battleground: here   *)
(* damage, drops and the states of the battle are any. What a client makes *)
(* of a packet is what the protocol document beside the code says of it.   *)
(***************************************************************************)
EXTENDS Integers, FiniteSets, Sequences, SequencesExt

CONSTANTS
    Fighter,       \* players
    Plant,         \* ids of flowers; two flowers may have one id
    Sowing,        \* bound: the numbers of flowers, in the order of planting, from 1
                   \* when there is none
    Spot,          \* points where items lie
    BgStage,       \* states of a battle that are told
    Throne,        \* the buildings
    FullPet,       \* hit points of a pet
    FullPlant,     \* hit points of a flower
    FullThrone,    \* hit points of a building
    MaxPlants,     \* sMaxIFlowerNum
    MaxTitle       \* bound: titles a player gets (the first is for the first kill)

\* A packet names who is hurt by kind and id, so no player, flower and building are
\* taken for one another, nor its number for an id; and only states are told, "none" is that there is none.
ASSUME ViewAssumption ==
    /\ IsFiniteSet(Fighter) /\ IsFiniteSet(Plant)
    /\ Fighter \cap Plant = {} /\ (Fighter \cup Plant) \cap Throne = {}
    /\ Sowing \subseteq Nat /\ IsFiniteSet(Sowing)
    /\ (Fighter \cup Plant \cup Throne) \cap Sowing = {}
    /\ "none" \notin BgStage

VARIABLES
    man,       \* what serialize() tells of a player: pet, hp, title, team
    inScene,   \* playerMgr_
    hasScene,  \* players whose pScene is the scene
    plants,    \* flowerList_: number -> id, hp; history: twin, whether another flower
               \* has had the id at the same time
    thrones,   \* hp of the two buildings
    lying,     \* itemList_: the points where an item lies
    stage,     \* getState()
    view       \* what the client of each member knows

viewVars == <<man, inScene, hasScene, plants, thrones, lying, stage, view>>

\* BgPlayer::BgPlayer
NewMan == [pet |-> FALSE, hp |-> 0, title |-> 0, team |-> "none"]

\* A client that has entered and asked for nothing yet.
FreshView == [listed |-> FALSE, informed |-> FALSE, men |-> <<>>, plants |-> <<>>,
          thrones |-> [b \in Throne |-> 0], lying |-> {}, stage |-> "none"]

Without(f, x) == [y \in DOMAIN f \ {x} |-> f[y]]
With(f, x, v) == [y \in DOMAIN f \cup {x} |-> IF y = x THEN v ELSE f[y]]

-----------------------------------------------------------------------------
(* The packets, and what a client does with one                             *)

Minus(f, x, n) == IF x \in DOMAIN f THEN [f EXCEPT ![x] = @ - n] ELSE f

\* A list of flowers by their ids; which of two with one id is left open.
ById(list) ==
    [f \in {list[x].id : x \in DOMAIN list} |->
        list[CHOOSE x \in DOMAIN list : list[x].id = f].hp]

\* What concerns the players counts after the list, the rest after the state of the
\* battle.
Apply(v, pkt) ==
    CASE pkt.op = "ADD_PLAYER" /\ v.listed -> [v EXCEPT !.men = With(@, pkt.id, pkt.man)]
      [] pkt.op = "REMOVE_PLAYER"    -> [v EXCEPT !.men = Without(@, pkt.id)]
      [] pkt.op = "REQ_PLAYER_LIST"  -> [v EXCEPT !.men = pkt.men, !.listed = TRUE]
      [] pkt.op = "REQ_BATTLE_INFO"  ->
            [v EXCEPT !.plants = ById(pkt.info.scene.plants),
                      !.thrones = pkt.info.scene.thrones, !.lying = pkt.info.scene.lying, !.stage = pkt.info.stage,
                      !.informed = TRUE]
      [] pkt.op = "SELCET_PET" /\ pkt.id \in DOMAIN v.men ->
            [v EXCEPT !.men[pkt.id].pet = TRUE, !.men[pkt.id].hp = pkt.hp]
      [] pkt.op = "ADD_HP" /\ pkt.id \in DOMAIN v.men -> [v EXCEPT !.men[pkt.id].hp = pkt.hp]
      [] pkt.op = "GET_TITLE" /\ pkt.id \in DOMAIN v.men ->
            [v EXCEPT !.men[pkt.id].title = pkt.title]
      [] pkt.op = "ON_HURT" /\ pkt.id \in DOMAIN v.men ->
            [v EXCEPT !.men[pkt.id].hp = @ - pkt.damage]
      [] pkt.op = "ON_HURT" /\ pkt.id \notin DOMAIN v.men /\ v.informed ->
            [v EXCEPT !.plants = Minus(@, pkt.id, pkt.damage),
                      !.thrones = Minus(@, pkt.id, pkt.damage)]
      [] pkt.op = "PLANT_FLOWER" /\ v.informed -> [v EXCEPT !.plants = With(@, pkt.id, pkt.hp)]
      [] pkt.op = "DISAPPEAR_FLOWER" -> [v EXCEPT !.plants = Without(@, pkt.id)]
      [] pkt.op = "DROP_ITEM" /\ v.informed -> [v EXCEPT !.lying = @ \cup {pkt.at}]
      [] pkt.op = "PICKUP_ITEM"      -> [v EXCEPT !.lying = @ \ {pkt.at}]
      [] pkt.op = "TELLCLIENT_STATE" /\ v.informed -> [v EXCEPT !.stage = pkt.stage]
      [] OTHER                       -> v

\* Scene::broadMsg: to the players of the scene, now.
Broad(v, members, pkt) ==
    [p \in Fighter |-> IF p \in members THEN Apply(v[p], pkt) ELSE v[p]]
BroadAll(v, members, pkts) == FoldLeft(LAMBDA x, pkt : Broad(x, members, pkt), v, pkts)
SendTo(p, pkt) == view' = [view EXCEPT ![p] = Apply(@, pkt)]

\* What serialize() of a player, a flower, the flowers, the items and the scene puts
\* into a packet; a player may have changed before, in the same step.
Serialize(q) == man'[q]
SerializeFlower(x) == [id |-> plants[x].id, hp |-> plants[x].hp]
SerializeFlowers == [x \in DOMAIN plants |-> SerializeFlower(x)]
SerializeItems == lying
SerializeScene == [plants |-> SerializeFlowers, thrones |-> thrones, lying |-> SerializeItems]

-----------------------------------------------------------------------------
(* Coming and going                                                         *)

\* addBgPlayer: the first one starts the battle, and is in no scene yet when that
\* is told; addPlayer broadcasts to everybody in the scene, the new one, too.
OnEnterBattle(p, t) ==
    /\ p \notin inScene /\ stage # "exit"
    /\ stage' = IF stage = "none" THEN "wait" ELSE stage
    /\ man' = [man EXCEPT ![p].team = t]
    /\ inScene' = inScene \cup {p} /\ hasScene' = hasScene \cup {p}
    /\ view' = Broad([view EXCEPT ![p] = FreshView], inScene',
                     [op |-> "ADD_PLAYER", id |-> p, man |-> Serialize(p)])
    /\ UNCHANGED <<plants, thrones, lying>>

\* removeBgPlayer: the one who leaves is out of the scene when it is told.
RemovePlayer(p) ==
    /\ inScene' = inScene \ {p}
    /\ view' = Broad([view EXCEPT ![p] = FreshView], inScene',
                     [op |-> "REMOVE_PLAYER", id |-> p])
    /\ UNCHANGED <<plants, thrones, lying, stage>>

OnExitBattle(p) ==
    /\ p \in inScene
    /\ RemovePlayer(p)
    /\ man' = [man EXCEPT ![p].team = "none"]
    /\ UNCHANGED hasScene

\* The connection closes: close(), and the object is deleted; the next login makes
\* another.
Gone(p) ==
    /\ p \in hasScene
    /\ RemovePlayer(p)
    /\ man' = [man EXCEPT ![p] = NewMan]
    /\ hasScene' = hasScene \ {p}

\* setBattlegroundState: start() tells the scene.
SwitchStage(s) ==
    /\ stage \notin {"none", s}
    /\ stage' = s
    /\ view' = Broad(view, inScene, [op |-> "TELLCLIENT_STATE", stage |-> s])
    /\ UNCHANGED <<man, inScene, hasScene, plants, thrones, lying>>

\* closeBattleground: MEMBER_INSUFFICIENT tells the clients that it is over; the
\* scene is as new, and nobody is in it.
BattleCloses ==
    /\ stage = "exit"
    /\ stage' = "none" /\ inScene' = {}
    /\ man' = [p \in Fighter |-> IF p \in inScene THEN [man[p] EXCEPT !.team = "none"] ELSE man[p]]
    /\ plants' = <<>> /\ lying' = {} /\ thrones' = [b \in Throne |-> FullThrone]
    /\ view' = [p \in Fighter |-> FreshView]
    /\ UNCHANGED hasScene

-----------------------------------------------------------------------------
(* Requests                                                                 *)

\* onReqPlayerList, and serialize() of every player.
OnReqPlayerList(p) ==
    /\ p \in inScene
    /\ UNCHANGED man
    /\ SendTo(p, [op |-> "REQ_PLAYER_LIST", men |-> [q \in inScene |-> Serialize(q)]])
    /\ UNCHANGED <<inScene, hasScene, plants, thrones, lying, stage>>

\* getBgInfo
BgInfo == [scene |-> SerializeScene, stage |-> stage]

OnReqBattleInfo(p) ==
    /\ p \in inScene
    /\ SendTo(p, [op |-> "REQ_BATTLE_INFO", info |-> BgInfo])
    /\ UNCHANGED <<man, inScene, hasScene, plants, thrones, lying, stage>>

\* onSelectPet: for the dead only; who has left still speaks to the scene it left.
PetSelected(p) ==
    /\ p \in hasScene /\ man[p].hp = 0
    /\ man' = [man EXCEPT ![p].pet = TRUE, ![p].hp = FullPet]
    /\ view' = Broad(view, inScene, [op |-> "SELCET_PET", id |-> p, hp |-> FullPet])
    /\ UNCHANGED <<inScene, hasScene, plants, thrones, lying, stage>>

\* onUseItem: fullHp for who has a pet; the packet has what there is now, and what
\* was added.
ItemUsed(p) ==
    /\ p \in hasScene /\ man[p].pet
    /\ man' = [man EXCEPT ![p].hp = FullPet]
    /\ view' = Broad(view, inScene, [op |-> "ADD_HP", id |-> p, hp |-> FullPet])
    /\ UNCHANGED <<inScene, hasScene, plants, thrones, lying, stage>>

\* onPlantFlower: in the scene that the player was last in, at the end of the list.
\* The ids are counted for all scenes, from 1 again when any battle closes.
FlowerPlanted(p, f, n) ==
    /\ p \in hasScene /\ Cardinality(DOMAIN plants) <= MaxPlants
    /\ n - 1 \in DOMAIN plants \cup {0} /\ \A x \in DOMAIN plants : x < n
    /\ plants' = [x \in DOMAIN plants \cup {n} |->
                     IF x = n THEN [id |-> f, hp |-> FullPlant,
                                    twin |-> \E y \in DOMAIN plants : plants[y].id = f]
                     ELSE [plants[x] EXCEPT !.twin = @ \/ plants[x].id = f]]
    /\ view' = Broad(view, inScene, [op |-> "PLANT_FLOWER", id |-> f, hp |-> FullPlant])
    /\ UNCHANGED <<man, inScene, hasScene, thrones, lying, stage>>

\* pickUpItem: everybody is told, or, if nothing lies there, only the one.
ItemPickedUp(p, x) ==
    /\ p \in hasScene
    /\ IF x \in lying
       THEN /\ lying' = lying \ {x}
            /\ view' = Broad(view, inScene, [op |-> "PICKUP_ITEM", at |-> x])
       ELSE UNCHANGED <<lying, view>>
    /\ UNCHANGED <<man, inScene, hasScene, plants, thrones, stage>>

-----------------------------------------------------------------------------
(* Blows. A world is what may be hit, and the packets of the step so far.   *)

World == [men |-> man, plants |-> plants, thrones |-> thrones, out |-> <<>>]
HpIn(w, u) == CASE u \in Fighter         -> w.men[u].hp
                [] u \in DOMAIN w.plants -> w.plants[u].hp
                [] OTHER                 -> w.thrones[u]
Say(w, pkts) == [w EXCEPT !.out = @ \o pkts]

Least2(a, b) == IF a < b THEN a ELSE b

\* incKillEnemyTime and setTitle: a title that is higher than the last is told.
Credit(w, me) ==
    IF me \in Fighter /\ w.men[me].title < MaxTitle
    THEN Say([w EXCEPT !.men[me].title = @ + 1],
             <<[op |-> "GET_TITLE", id |-> me, title |-> w.men[me].title + 1]>>)
    ELSE w

OnHurtPacket(u, d) == [op |-> "ON_HURT", id |-> u, damage |-> d]

\* MUTANT of HitMan: the damage is told as it was dealt, not as it was taken.
HitManToldInFull(w, me, p, d) ==
    LET taken == Least2(d, w.men[p].hp)
        h     == [w EXCEPT !.men[p].hp = @ - taken]
        dead  == h.men[p].hp = 0
    IN  Say(IF dead THEN Credit(h, me) ELSE h,
            (IF dead THEN <<[op |-> "PET_DEAD", id |-> p]>> ELSE <<>>)
            \o <<OnHurtPacket(p, d)>>)

\* onHurt and onBufHurt of a player: no more than there is is taken, and told; its
\* death is told before the blow, its killer's title before that.
HitMan(w, me, p, d) ==
    LET taken == Least2(d, w.men[p].hp)
        h     == [w EXCEPT !.men[p].hp = @ - taken]
        dead  == h.men[p].hp = 0
    IN  Say(IF dead THEN Credit(h, me) ELSE h,
            (IF dead THEN <<[op |-> "PET_DEAD", id |-> p]>> ELSE <<>>)
            \o <<OnHurtPacket(p, taken)>>)

\* onHurt and onBufHurt of a flower.
HitPlant(w, x, d) ==
    LET taken == Least2(d, w.plants[x].hp)
    IN  Say([w EXCEPT !.plants[x].hp = @ - taken], <<OnHurtPacket(w.plants[x].id, taken)>>)

\* onHurt of a building.
HitThrone(w, b, d) ==
    LET taken == Least2(d, w.thrones[b])
    IN  Say([w EXCEPT !.thrones[b] = @ - taken], <<OnHurtPacket(b, taken)>>)

Hit(w, me, u, d) == CASE u \in Fighter         -> HitMan(w, me, u, d)
                      [] u \in DOMAIN w.plants -> HitPlant(w, u, d)
                      [] OTHER                 -> HitThrone(w, u, d)

Become(w) ==
    /\ man' = w.men /\ plants' = w.plants /\ thrones' = w.thrones
    /\ view' = BroadAll(view, inScene, w.out)

\* getFlower: of the flowers with an id, the first in the list.
Struck ==
    inScene \cup Throne
    \cup {x \in DOMAIN plants : \A y \in DOMAIN plants : plants[y].id = plants[x].id => x <= y}

OthersOf(p) == {q \in inScene : man[q].team # man[p].team}

\* JianShe: the bystanders of another team are hurt as by a buf.
Splashed(w, p, near) ==
    FoldLeft(LAMBDA x, q : IF x.men[q].hp > 0 THEN Hit(x, "buf", q, 1) ELSE x,
             w, SetToSeq(near \cap OthersOf(p)))

\* onUseSkill: the use is told before its effect; bufs have no killer.
SkillUsed(p, u, d, near) ==
    /\ p \in inScene /\ man[p].pet /\ man[p].hp > 0
    /\ u \in Struck /\ HpIn(World, u) > 0
    /\ u \in inScene => man[u].team # man[p].team
    /\ Become(Splashed(Hit(Say(World, <<[op |-> "USE_SKILL"]>>), p, u, d), p, near))
    /\ UNCHANGED <<inScene, hasScene, lying, stage>>

\* FlowerMgr::run for one flower: its time is over, as that of those planted before,
\* or it is dead; or its bufs hurt it and it strikes.
RunPlant(w, x, over, burn, aim, d) ==
    IF x <= over \/ w.plants[x].hp = 0
    THEN Say([w EXCEPT !.plants = Without(@, x)],
             <<[op |-> "DISAPPEAR_FLOWER", id |-> w.plants[x].id]>>)
    ELSE LET h == IF burn > 0 THEN Hit(w, "buf", x, burn) ELSE w IN
         IF aim \in inScene \cup Throne /\ (aim \in inScene => h.men[aim].hp > 0)
         THEN Hit(Say(h, <<[op |-> "USE_SKILL"]>>), x, aim, d)
         ELSE h

\* runBuf of the players.
RunMan(w, p, burn) == IF w.men[p].hp > 0 /\ burn > 0 THEN Hit(w, "buf", p, burn) ELSE w

\* Scene::run: the bufs of players, one drop at most, the flowers.
SceneRuns(burn, drop, over, aim, d) ==
    LET w == FoldLeft(LAMBDA x, p : RunMan(x, p, burn), World, SetToSeq(inScene))
        y == IF drop \in Spot \ lying THEN Say(w, <<[op |-> "DROP_ITEM", at |-> drop]>>) ELSE w
        z == FoldLeft(LAMBDA x, n : RunPlant(x, n, over, burn, aim, d), y,
                      SetToSeq(DOMAIN plants))
    IN  /\ stage # "none"
        /\ Become(z)
        /\ lying' = lying \cup ({drop} \cap Spot)
        /\ UNCHANGED <<inScene, hasScene, stage>>

ViewInit ==
    /\ man = [p \in Fighter |-> NewMan]
    /\ inScene = {} /\ hasScene = {}
    /\ plants = <<>> /\ lying = {} /\ thrones = [b \in Throne |-> FullThrone]
    /\ stage = "none"
    /\ view = [p \in Fighter |-> FreshView]

ViewNext ==
    \/ \E p \in Fighter :
          \/ \E t \in {"black", "white"} : OnEnterBattle(p, t)
          \/ OnExitBattle(p) \/ Gone(p)
          \/ OnReqPlayerList(p) \/ OnReqBattleInfo(p)
          \/ PetSelected(p) \/ ItemUsed(p)
          \/ \E f \in Plant, n \in Sowing : FlowerPlanted(p, f, n)
          \/ \E x \in Spot : ItemPickedUp(p, x)
          \/ \E u \in Struck, d \in 1 .. 2, near \in SUBSET OthersOf(p) :
                SkillUsed(p, u, d, near)
    \/ \E s \in BgStage : SwitchStage(s)
    \/ BattleCloses
    \/ \E burn \in 0 .. 1, drop \in (Spot \ lying) \cup {"nowhere"} :
          \/ \E over \in DOMAIN plants \cup {0} : SceneRuns(burn, drop, over, "nobody", 2)
          \/ /\ DOMAIN plants # {}
             /\ \E aim \in inScene \cup Throne : SceneRuns(burn, drop, 0, aim, 2)

ViewSpec == ViewInit /\ [][ViewNext]_viewVars

-----------------------------------------------------------------------------
(* Properties                                                               *)

\* A client that has asked once knows the scene from the broadcasts alone: who is
\* there, in which team, with which pet, hit points and title; the buildings, what
\* lies where and the state of the battle, through blows, deaths, potions, leavers who
\* still act, and clients that come and go. It knows no flower that is not there, and
\* every flower with its hit points that has never shared its id: of flowers that
\* have shared one (ids start again at 1) it may know what it will.
ViewsAgree ==
    \A p \in inScene :
        /\ view[p].listed => view[p].men = [q \in inScene |-> man[q]]
        /\ view[p].informed =>
              /\ \A f \in DOMAIN view[p].plants : \E x \in DOMAIN plants : plants[x].id = f
              /\ \A x \in DOMAIN plants : ~plants[x].twin =>
                    /\ plants[x].id \in DOMAIN view[p].plants
                    /\ view[p].plants[plants[x].id] = plants[x].hp
              /\ view[p].thrones = thrones /\ view[p].lying = lying /\ view[p].stage = stage
=============================================================================
