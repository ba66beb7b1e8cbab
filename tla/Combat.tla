------------------------------- MODULE Combat -------------------------------
(***************************************************************************)
(* What the units of one scene of LoongBgSrv do to each other: pets,       *)
(* skills, bufs, flowers that strike by themselves, items that drop, are   *)
(* picked up and used (BgPlayer, BgFlower, BgBuilding, skill/, package/,   *)
(* scene/). Everything runs in one event loop; an action is a message      *)
(* handler or a run of the scene. Who enters when, and the states of the   *)
(* battle, are the subject of module Battleground.                         *)
(*                                                                         *)
(* A unit of time is the tick of a burn. Clocks are kept as the time since *)
(* or until, capped where the code can no longer tell the difference.      *)
(* Positions are abstracted: players move as they like, so whoever is near *)
(* something is chosen when it matters. A pet is of one kind.              *)
(***************************************************************************)
EXTENDS Integers, Sequences, FiniteSets, SequencesExt

CONSTANTS
    Player,
    FlowerName,        \* names for the BgFlower objects
    Nobody,
    Skill,             \* skills of a pet
    FlowerSkill,       \* the skill of a flower (skillId 7)
    BufId,             \* ids of the table of bufs
    TypeOf,            \* type_ of a buf: several may have the same
    Duration,          \* how long a buf lasts
    SkillBufs,         \* bufList_ of a skill: ids of bufs, in order
    Cooldown,          \* cooldownTime_ of a skill
    ItemBufs,          \* bufList_ of an item
    AttackValue,       \* what a blow may take
    SplashHp, BurnHp,  \* what a splash, and one tick of a burn, take
    PetHp, FlowerHp, BuildingHp,
    sMaxIFlowerNum, sDisappearTime, sUseSkillTimes,
    Point,             \* points where items drop
    sTenseconds, sMaxGround, sItemNum, sRandomItemNum,
    sMaxItemNum,       \* places of a package
    MaxSkill,          \* bound: skills players use
    MaxDrop,           \* bound: items that drop
    MaxWaste,          \* bound: times a player uses item 0 (curItemNum_ is an int16)
    MaxEnter           \* bound: players that enter

Building == {"blackBuilding", "whiteBuilding"}
Unit == Player \cup FlowerName \cup Building
BufType == {"hunXuan", "zhouShang", "jianShe", "mianYi", "addSpeed"}
Team == {"none", "black", "white"}
ItemId == 1 .. sItemNum
NoItem == 0            \* what an empty place holds
Seed == 4

\* An item is used on nobody (the target is NULL), which only a buf of who uses it
\* bears.
ASSUME CombatAssumption ==
    /\ IsFiniteSet(Player) /\ IsFiniteSet(FlowerName) /\ IsFiniteSet(Point)
    /\ Player \cap FlowerName = {} /\ (Player \cup FlowerName) \cap Building = {}
    /\ \A s \in Skill \cup {FlowerSkill} : SkillBufs[s] \in Seq(BufId) /\ Cooldown[s] \in Nat
    /\ \A i \in DOMAIN SkillBufs[FlowerSkill] : TypeOf[SkillBufs[FlowerSkill][i]] # "mianYi"
    /\ \A item \in ItemId :
          /\ ItemBufs[item] \in Seq(BufId)
          /\ \A i \in DOMAIN ItemBufs[item] : TypeOf[ItemBufs[item][i]] \in {"mianYi", "addSpeed"}
    /\ \A b \in BufId : TypeOf[b] \in BufType /\ Duration[b] \in Nat

ASSUME CombatAmounts ==
    /\ AttackValue \subseteq Nat
    /\ {PetHp, FlowerHp, BuildingHp, BurnHp, sItemNum} \subseteq Nat \ {0}
    /\ {SplashHp, sMaxIFlowerNum, sDisappearTime, sUseSkillTimes, sTenseconds, sMaxGround,
        sRandomItemNum, sMaxItemNum, MaxSkill, MaxDrop, MaxEnter} \subseteq Nat
    /\ MaxWaste \in 0 .. 32768

VARIABLES
    unit,      \* the fields of every unit
    scene,     \* playerMgr_ of the scene: the players in the battle
    pScene,    \* the players whose pScene is this scene, in it or not
    flowers,   \* flowerList_: name, time since planted, time since the last blow
    pack,      \* package_ of a player: itemList_, curItemNum_; history: times item 0
               \* was used
    free,      \* pointList_
    ground,    \* itemList_: what lies at which point
    left,      \* randomItemList_
    idle,      \* time since lastTime_ of DropItemMgr
    nskill, ndrop, nenter   \* use of the bounds

\* DropItemMgr, Package and Scene keep these; unit has the fields of BgUnit and
\* BgPlayer.
dropVars == <<free, ground, left, idle, ndrop>>
combatVars == <<unit, scene, pScene, flowers, pack, dropVars, nskill, nenter>>

-----------------------------------------------------------------------------
(* Units                                                                    *)

\* A BgUnit as its constructor leaves it; history: the types of which it has had two
\* bufs, till none is left.
NewUnit(t) ==
    [hp |-> 0, maxhp |-> 0, team |-> t, operation |-> TRUE, canSkillHurt |-> TRUE,
     bufs |-> <<>>, twice |-> {}, used |-> [s \in Skill |-> Cooldown[s] + 1],
     pet |-> FALSE, kills |-> 0, recent |-> 0, title |-> 0]

\* BgUnit::init
InitUnit(x) == [x EXCEPT !.operation = TRUE, !.canSkillHurt = TRUE]

NewFlower(t) == [NewUnit(t) EXCEPT !.hp = FlowerHp, !.maxhp = FlowerHp]
TeamOf(b) == IF b = "blackBuilding" THEN "black" ELSE "white"
\* BgBuilding::init sets the hit points only.
InitBuilding(x) == [x EXCEPT !.hp = BuildingHp]

Least(a, b) == IF a < b THEN a ELSE b
Dead(x) == x.hp = 0

\* onHurt and onBufHurt take no more than there is.
Hurt(x, damage) == [x EXCEPT !.hp = @ - Least(@, damage)]

\* onTitleHandle: the 1st, 3rd, 5th ... 15th enemy since the pet was chosen.
TitleFor(recent) == IF recent % 2 = 1 /\ recent <= 15 THEN (recent + 1) \div 2 ELSE 0

IncKillEnemyTime(x) ==
    LET t == TitleFor(x.recent + 1) IN
    [x EXCEPT !.kills = @ + 1, !.recent = @ + 1, !.title = IF t > @ THEN t ELSE @]

\* MUTANT of OnHurt: every blow that hits somebody counts.
OnHurtCounts(w, me, target, damage) ==
    LET h == [w EXCEPT ![target] = Hurt(@, damage)] IN
    IF me \in Player /\ target \in Player
    THEN [h EXCEPT ![me] = IncKillEnemyTime(@)]
    ELSE h

\* onHurt: the one who kills a player is credited (a flower takes no credit).
OnHurt(w, me, target, damage) ==
    LET h == [w EXCEPT ![target] = Hurt(@, damage)] IN
    IF me \in Player /\ target \in Player /\ Dead(h[target])
    THEN [h EXCEPT ![me] = IncKillEnemyTime(@)]
    ELSE h

-----------------------------------------------------------------------------
(* Bufs                                                                     *)

Buf(b) == [id |-> b, type |-> TypeOf[b], left |-> Duration[b], since |-> 0]
HasBuf(x, b) == \E i \in DOMAIN x.bufs : x.bufs[i].id = b      \* getBuf
HasType(x, t) == \E i \in DOMAIN x.bufs : x.bufs[i].type = t
ResetBuf(x, b) ==
    [x EXCEPT !.bufs = [i \in DOMAIN @ |-> IF @[i].id = b THEN Buf(b) ELSE @[i]]]

\* onCacl of the bufs that have one.
OnCacl(x, t) ==
    [x EXCEPT !.operation = @ /\ t # "hunXuan", !.canSkillHurt = @ /\ t # "mianYi"]

\* onDelete of the bufs that have one: whether another buf of the type is left is
\* not asked.
OnDelete(x, t) ==
    [x EXCEPT !.operation = @ \/ t = "hunXuan", !.canSkillHurt = @ \/ t = "mianYi"]

\* addBuf of a player or a flower.
AddBuf(x, b) ==
    [x EXCEPT !.bufs = Append(@, Buf(b)),
              !.twice = IF HasType(x, TypeOf[b]) THEN @ \cup {TypeOf[b]} ELSE @]

\* The handlers of BufHandler: the buf of that id starts again if the unit has it. A
\* building takes the effect but keeps no buf.
GiveBuf(w, u, b) ==
    [w EXCEPT ![u] =
        IF HasBuf(@, b) THEN ResetBuf(@, b)
        ELSE LET x == OnCacl(@, TypeOf[b]) IN
             IF u \in Building THEN x ELSE AddBuf(x, b)]

\* JianSheBufHandler: the living of other teams near the target.
Splash(w, me, near) ==
    [u \in Unit |-> IF /\ u \in near \ {me} /\ ~Dead(w[u])
                       /\ w[u].team # w[me].team
                    THEN Hurt(w[u], SplashHp) ELSE w[u]]

HandleBuf(w, b, me, target, near) ==
    CASE TypeOf[b] = "jianShe"                -> Splash(w, me, near)
      [] TypeOf[b] \in {"mianYi", "addSpeed"} -> GiveBuf(w, me, b)
      [] OTHER                                -> GiveBuf(w, target, b)

\* Buf::run of buf b, which stays in the list unless it is over: a burn makes up
\* for all the ticks since its last, and is over on a unit that cannot be hurt.
RunBuf(x, b) ==
    LET ticks == IF b.type = "zhouShang" THEN b.since ELSE 0
        y     == IF x.canSkillHurt THEN Hurt(x, ticks * BurnHp) ELSE x
        z     == IF b.left = 0 THEN OnDelete(y, b.type) ELSE y
        gone  == b.left = 0 \/ (ticks > 0 /\ ~x.canSkillHurt)
    IN  [z EXCEPT !.bufs = IF gone THEN @ ELSE Append(@, [b EXCEPT !.since = 0])]

\* runBuf of a flower, and of a player.
RunFlowerBufs(x) ==
    LET y == FoldLeft(RunBuf, [x EXCEPT !.bufs = <<>>], x.bufs)
    IN  [y EXCEPT !.twice = {t \in @ : HasType(y, t)}]
RunBufs(x) == IF Dead(x) THEN x ELSE RunFlowerBufs(x)

-----------------------------------------------------------------------------
(* Skills                                                                   *)

CanUseSkill(w, me, s) == me \in FlowerName \/ w[me].used[s] > Cooldown[s]
UseSkill(w, me, s) == IF me \in Player THEN [w EXCEPT ![me].used[s] = 0] ELSE w

\* SkillHandler::onEmitSkill with attack value v; a player who dies of the blow
\* takes no bufs.
OnEmitSkill(w, s, me, target, v, near) ==
    IF ~w[target].canSkillHurt \/ ~CanUseSkill(w, me, s)
    THEN w
    ELSE LET h == OnHurt(UseSkill(w, me, s), me, target, v) IN
         IF target \in Player /\ Dead(h[target])
         THEN h
         ELSE FoldLeft(LAMBDA x, b : HandleBuf(x, b, me, target, near), h, SkillBufs[s])

FlowersNamed == {flowers[i].name : i \in DOMAIN flowers}
Target == scene \cup Building \cup FlowersNamed   \* getTargetUnit

\* The skills of a player are those of its pet.
HasSkill(x) == x.pet

OnUseSkill(p, s, target) ==
    /\ p \in pScene /\ HasSkill(unit[p]) /\ ~Dead(unit[p]) /\ unit[p].operation
    /\ p \in scene
    /\ target \in Target
    /\ ~Dead(unit[target]) /\ unit[target].team # unit[p].team
    /\ nskill < MaxSkill /\ nskill' = nskill + 1
    /\ \E v \in AttackValue, near \in SUBSET scene :
          /\ {target} \cap Player \subseteq near
          /\ unit' = OnEmitSkill(unit, s, p, target, v, near)
    /\ UNCHANGED <<scene, pScene, flowers, pack, dropVars, nenter>>

\* MUTANT of Chosen: the bufs of the dead pet stay.
ChosenWithBufs(x) ==
    [InitUnit(x) EXCEPT !.pet = TRUE, !.hp = PetHp, !.maxhp = PetHp, !.recent = 0]

\* What onSelectPet does to a player: the bufs are deleted without their onDelete,
\* init() gives back what they had taken.
Chosen(x) ==
    [InitUnit(x) EXCEPT !.pet = TRUE, !.hp = PetHp, !.maxhp = PetHp, !.recent = 0,
                        !.bufs = <<>>, !.twice = {}]

OnSelectPet(p) ==
    /\ p \in pScene /\ Dead(unit[p])
    /\ unit' = [unit EXCEPT ![p] = Chosen(@)]
    /\ UNCHANGED <<scene, pScene, flowers, pack, dropVars, nskill, nenter>>

-----------------------------------------------------------------------------
(* Packages                                                                 *)

HasItem(k, item) == \E i \in 1 .. sMaxItemNum : k.items[i] = item
IsFull(k) == k.num >= sMaxItemNum
FirstPlace(k, item) ==
    CHOOSE i \in 1 .. sMaxItemNum :
        k.items[i] = item /\ \A j \in 1 .. i - 1 : k.items[j] # item

DelItem(k, item) ==
    [k EXCEPT !.items[FirstPlace(k, item)] = NoItem, !.num = @ - 1,
              !.wasted = IF item = NoItem THEN @ + 1 ELSE @]
AddItem(k, item) == [k EXCEPT !.items[FirstPlace(k, NoItem)] = item, !.num = @ + 1]
NewPackage == [items |-> [i \in 1 .. sMaxItemNum |-> NoItem], num |-> 0, wasted |-> 0]

\* fullHp wakes the dead, too.
FullHp(x) == [x EXCEPT !.hp = IF x.pet THEN PetHp ELSE @]

\* ItemHandler::onUseItem: item 1 fills the hit points; there is no target, and 0 is
\* no item (checkItemId).
ItemEffect(p, item) ==
    LET w == IF item = 1 /\ p \in pScene THEN [unit EXCEPT ![p] = FullHp(@)] ELSE unit IN
    IF item = NoItem THEN unit
    ELSE FoldLeft(LAMBDA x, b : HandleBuf(x, b, p, Nobody, {}), w, ItemBufs[item])

\* onUseItem: the client names any item, 0 as well, which every empty place holds.
\* The cooldown is never in the way: it is looked at only while no item was ever
\* used.
OnUseItem(p, item) ==
    /\ HasItem(pack[p], item)
    /\ item = NoItem => pack[p].wasted < MaxWaste
    /\ pack' = [pack EXCEPT ![p] = DelItem(@, item)]
    /\ unit' = ItemEffect(p, item)
    /\ UNCHANGED <<scene, pScene, flowers, dropVars, nskill, nenter>>

\* onPlantFlower and plantFlower: for the scene the player was last in.
OnPlantFlower(p) ==
    /\ p \in pScene /\ HasItem(pack[p], Seed)
    /\ Len(flowers) <= sMaxIFlowerNum
    /\ \E f \in FlowerName \ FlowersNamed :
          /\ unit' = [unit EXCEPT ![f] = NewFlower(unit[p].team)]
          /\ flowers' = Append(flowers, [name |-> f, age |-> 0, idle |-> sUseSkillTimes + 1])
    /\ pack' = [pack EXCEPT ![p] = DelItem(@, Seed)]
    /\ UNCHANGED <<scene, pScene, dropVars, nskill, nenter>>

\* MUTANT of PickUp: the point is not given back.
PickUpPoint(p, g) ==
    /\ pack' = [pack EXCEPT ![p] = AddItem(@, g.item)]
    /\ ground' = ground \ {g}
    /\ UNCHANGED free

\* pickUpItem: the item goes into the package, its point is free again.
PickUp(p, g) ==
    /\ pack' = [pack EXCEPT ![p] = AddItem(@, g.item)]
    /\ ground' = ground \ {g}
    /\ free' = Append(free, g.point)

OnPickUpItem(p) ==
    /\ p \in pScene /\ ~IsFull(pack[p])
    /\ \E g \in ground :
          /\ HasItem(pack[p], NoItem)
          /\ PickUp(p, g)
    /\ UNCHANGED <<unit, scene, pScene, flowers, left, idle, ndrop, nskill, nenter>>

-----------------------------------------------------------------------------
(* Battleground::run: time passes and the scene runs                        *)

\* pointList_ without its i-th point: the last takes its place.
RemovePoint(i) == SubSeq([free EXCEPT ![i] = free[Len(free)]], 1, Len(free) - 1)

ItemIdOf(k) == (k % sItemNum) + 1

DropDue ==
    /\ idle + 1 > sTenseconds /\ Cardinality(ground) <= sMaxGround
    /\ left # {} /\ free # <<>>
    /\ ndrop < MaxDrop

\* DropItemMgr::run
RunDrops ==
    \/ /\ DropDue
       /\ \E i \in DOMAIN free, k \in left :
             /\ ground' = ground \cup {[point |-> free[i], item |-> ItemIdOf(k)]}
             /\ free' = RemovePoint(i)
             /\ left' = left \ {k}
       /\ idle' = 0 /\ ndrop' = ndrop + 1
    \/ /\ ~DropDue
       /\ idle' = Least(idle + 1, sTenseconds + 1)
       /\ UNCHANGED <<free, ground, left, ndrop>>

OlderBuf(b) ==
    [b EXCEPT !.left = IF @ = 0 THEN 0 ELSE @ - 1,
              !.since = IF b.type = "zhouShang" THEN Least(@ + 1, PetHp) ELSE 0]

\* A unit of time later.
Older(x) ==
    [x EXCEPT !.used = [s \in Skill |-> Least(@[s] + 1, Cooldown[s] + 1)],
              !.bufs = [i \in DOMAIN @ |-> OlderBuf(@[i])]]

\* onAIHandle: the first living enemy in range, aim, or else the other building.
Strikes(w, f, aim) ==
    /\ f.idle > sUseSkillTimes
    /\ w[f.name].operation
    /\ \/ aim \in scene /\ ~Dead(w[aim]) /\ w[aim].team # w[f.name].team
       \/ aim \in Building /\ w[f.name].team # "none" /\ w[aim].team # w[f.name].team

\* FlowerMgr::run for one flower; s is the units and the flowers that stay.
RunFlower(s, f, aim, v) ==
    IF f.age > sDisappearTime \/ Dead(s.unit[f.name])
    THEN [s EXCEPT !.unit[f.name] = NewUnit("none")]
    ELSE LET w    == [s.unit EXCEPT ![f.name] = RunFlowerBufs(@)]
             near == {aim} \cap Player
         IN  IF Strikes(w, f, aim)
             THEN [unit |-> OnEmitSkill(w, FlowerSkill, f.name, aim, v, near),
                   flowers |-> Append(s.flowers, [f EXCEPT !.idle = 0])]
             ELSE [unit |-> w, flowers |-> Append(s.flowers, f)]

OlderFlower(f) ==
    [f EXCEPT !.age = Least(@ + 1, sDisappearTime + 1),
              !.idle = Least(@ + 1, sUseSkillTimes + 1)]

RunPlayers(w) == [u \in Unit |-> IF u \in scene THEN RunBufs(w[u]) ELSE w[u]]

\* Scene::run: players, drops, flowers.
SceneRun ==
    /\ RunDrops
    /\ \E aim \in [FlowersNamed -> scene \cup Building \cup {Nobody}], v \in AttackValue :
          LET w == RunPlayers([u \in Unit |-> Older(unit[u])])
              s == FoldLeft(LAMBDA r, f : RunFlower(r, f, aim[f.name], v),
                            [unit |-> w, flowers |-> <<>>],
                            [i \in DOMAIN flowers |-> OlderFlower(flowers[i])])
          IN  unit' = s.unit /\ flowers' = s.flowers
    /\ UNCHANGED <<scene, pScene, pack, nskill, nenter>>

-----------------------------------------------------------------------------
(* Coming and going                                                         *)

\* addBgPlayer: nothing of the player is reset.
Enter(p, t) ==
    /\ p \notin scene
    /\ nenter < MaxEnter /\ nenter' = nenter + 1
    /\ scene' = scene \cup {p}
    /\ pScene' = pScene \cup {p}
    /\ unit' = [unit EXCEPT ![p].team = t]
    /\ UNCHANGED <<flowers, pack, dropVars, nskill>>

\* removeBgPlayer: pScene stays.
Exit(p) ==
    /\ p \in scene
    /\ scene' = scene \ {p}
    /\ unit' = [unit EXCEPT ![p].team = "none"]
    /\ UNCHANGED <<pScene, flowers, pack, dropVars, nskill, nenter>>

\* The player logs out, and its object is deleted; the next to log in is new.
Relogin(p) ==
    /\ p \in pScene
    /\ scene' = scene \ {p} /\ pScene' = pScene \ {p}
    /\ unit' = [unit EXCEPT ![p] = NewUnit("none")]
    /\ pack' = [pack EXCEPT ![p] = NewPackage]
    /\ UNCHANGED <<flowers, dropVars, nskill, nenter>>

\* closeBattleground: the players go, Scene::init.
Close ==
    /\ scene # {}
    /\ scene' = {}
    /\ unit' = [u \in Unit |-> CASE u \in scene    -> [unit[u] EXCEPT !.team = "none"]
                                 [] u \in FlowerName -> NewUnit("none")
                                 [] u \in Building -> InitBuilding(unit[u])
                                 [] OTHER          -> unit[u]]
    /\ flowers' = <<>>
    /\ free' = SetToSeq(Point) /\ ground' = {} /\ left' = 0 .. sRandomItemNum - 1
    /\ idle' = 0
    /\ UNCHANGED <<pScene, pack, nskill, ndrop, nenter>>

CombatInit ==
    /\ unit = [u \in Unit |-> IF u \in Building THEN InitBuilding(NewUnit(TeamOf(u)))
                              ELSE NewUnit("none")]
    /\ scene = {} /\ pScene = {} /\ flowers = <<>>
    /\ pack = [p \in Player |-> NewPackage]
    /\ free = SetToSeq(Point) /\ ground = {} /\ left = 0 .. sRandomItemNum - 1
    /\ idle = 0
    /\ nskill = 0 /\ ndrop = 0 /\ nenter = 0

CombatNext ==
    \/ \E p \in Player :
          \/ \E s \in Skill, target \in Unit : OnUseSkill(p, s, target)
          \/ OnSelectPet(p)
          \/ \E item \in ItemId \cup {NoItem} : OnUseItem(p, item)
          \/ OnPlantFlower(p)
          \/ OnPickUpItem(p)
          \/ \E t \in Team \ {"none"} : Enter(p, t)
          \/ Exit(p)
          \/ Relogin(p)
    \/ SceneRun
    \/ Close

CombatSpec == CombatInit /\ [][CombatNext]_combatVars

-----------------------------------------------------------------------------
(* Properties                                                               *)

\* A player or flower that cannot act has a stun, and one that cannot be hurt an
\* immunity, through death, a new pet, a potion that wakes the dead, a second stun,
\* leaving the battle with a buf and coming back: nobody is left so for good. The
\* other way round as well, unless the unit has had two bufs of the type (of two ids)
\* at once: then the end of the one ends the effect of the other.
FlagsMatchBufs ==
    \A u \in Player \cup FlowerName : LET x == unit[u] IN
        /\ ~x.operation => HasType(x, "hunXuan")
        /\ ~x.canSkillHurt => HasType(x, "mianYi")
        /\ HasType(x, "hunXuan") => ~x.operation \/ "hunXuan" \in x.twice
        /\ HasType(x, "mianYi") => ~x.canSkillHurt \/ "mianYi" \in x.twice

\* incKillEnemyTime is called once for one enemy player who was alive and is dead
\* now, never for an ally, a second blow, a burn or a splash.
KillIsADeath ==
    [][\A p \in Player :
          unit'[p].kills > unit[p].kills =>
              /\ unit'[p].kills = unit[p].kills + 1
              /\ \E q \in scene : /\ ~Dead(unit[q]) /\ Dead(unit'[q])
                                  /\ unit[q].team # unit[p].team]_combatVars

OnGround(x) == {g \in ground : g.point = x}
TimesFree(x) == {i \in DOMAIN free : free[i] = x}

\* Every point is either free, once, or has one item, however often items drop,
\* are picked up and the scene is closed; curItemNum_ of a package is the number of
\* its places that are taken, less the times that item 0 was used; hit points stay
\* between nothing and what the unit has at most, through every blow, buf and potion;
\* and no unit has two bufs of an id.
FightAddsUp ==
    /\ \A x \in Point : Cardinality(OnGround(x)) + Cardinality(TimesFree(x)) = 1
    /\ \A p \in Player :
          pack[p].num + pack[p].wasted
              = Cardinality({i \in 1 .. sMaxItemNum : pack[p].items[i] # NoItem})
    /\ \A u \in Unit : LET x == unit[u] IN
          /\ x.hp \in 0 .. (IF u \in Building THEN BuildingHp ELSE x.maxhp)
          /\ \A i, j \in DOMAIN x.bufs : x.bufs[i].id = x.bufs[j].id => i = j
=============================================================================
