SPECIFICATION Spec
CONSTANTS
    Player = {p1, p2}
    FlowerName = {f1}
    Nobody = Nobody
    bite = bite
    burn = burn
    stun = stun
    splash = splash
    spit = spit
    Skill = {burn, splash}
    FlowerSkill = spit
    BufId = {"fire", "daze", "sleep", "spray", "shield", "boots"}
    TypeOf <- MCTypeOf
    SkillBufs <- MCSkillBufs
    Cooldown <- MCCooldown
    ItemBufs <- MCItemBufs
    Duration <- MCDuration
    AttackValue = {1}
    SplashHp = 1
    BurnHp = 1
    PetHp = 2
    FlowerHp = 1
    BuildingHp = 1
    sMaxIFlowerNum = 0
    sDisappearTime = 1
    sUseSkillTimes = 1
    Point = {x1}
    sTenseconds = 0
    sMaxGround = 20
    sItemNum = 4
    sRandomItemNum = 4
    sMaxItemNum = 1
    MaxSkill = 2
    MaxDrop = 1
    MaxWaste = 1
    MaxEnter = 2
    Fighter = {p1, p2}
    Plant = {f1}
    Sowing = {1, 2}
    MaxPlants = 1
    Spot = {x1}
    BgStage = {"exit"}
    Throne = {b1}
    FullPet = 2
    FullPlant = 1
    FullThrone = 1
    MaxTitle = 1
SYMMETRY Interchangeable
INVARIANTS FightAddsUp FlagsMatchBufs ViewsAgree
PROPERTIES KillIsADeath
