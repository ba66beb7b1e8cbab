---------------------------- MODULE CombatProofs ----------------------------
(***************************************************************************)
(* Proofs about the fight: bufs and the flags they leave, points and       *)
(* packages and hit points that add up, and kills; and about what the      *)
(* clients of a scene know of it.                                          *)
(***************************************************************************)
EXTENDS Combat, SceneView, Integers, FiniteSetTheorems, TLAPS

-----------------------------------------------------------------------------
(* What a unit is like                                                      *)

BufRecord ==
    {b \in [id : BufId, type : BufType, left : Nat, since : Nat] : b.type = TypeOf[b.id]}

UnitRecord ==
    [hp : Nat, maxhp : Nat, team : Team, operation : BOOLEAN, canSkillHurt : BOOLEAN,
     bufs : Seq(BufRecord), twice : SUBSET BufType, used : [Skill -> Nat],
     pet : BOOLEAN, kills : Nat, recent : Nat, title : Nat]

HpOK(u, x) ==
    /\ x.hp <= IF u \in Building THEN BuildingHp ELSE x.maxhp
    /\ x.pet => x.maxhp = PetHp

OneOfAnId(s) == \A i, j \in DOMAIN s : s[i].id = s[j].id => i = j

\* Two bufs of a type only if that is noted.
TwoAreNoted(s, twice) == \A i, j \in DOMAIN s : s[i].type = s[j].type => i = j \/ s[i].type \in twice

FlagsOK(x) ==
    /\ ~x.operation => HasType(x, "hunXuan")
    /\ ~x.canSkillHurt => HasType(x, "mianYi")
    /\ HasType(x, "hunXuan") => ~x.operation \/ "hunXuan" \in x.twice
    /\ HasType(x, "mianYi") => ~x.canSkillHurt \/ "mianYi" \in x.twice
    /\ TwoAreNoted(x.bufs, x.twice)

Good(u, x) ==
    /\ x \in UnitRecord
    /\ HpOK(u, x)
    /\ OneOfAnId(x.bufs)
    /\ u \notin Building => FlagsOK(x)

\* The units, each with as many kills as k says.
Units(k) == {w \in [Unit -> UnitRecord] : \A u \in Unit : Good(u, w[u]) /\ w[u].kills = k[u]}

LEMMA Apart ==
    /\ \A p \in Player : p \in Unit /\ p \notin Building /\ p \notin FlowerName
    /\ \A f \in FlowerName : f \in Unit /\ f \notin Building /\ f \notin Player
    /\ \A b \in Building : b \in Unit
BY CombatAssumption DEF Unit

LEMMA Amounts ==
    /\ PetHp \in Nat \ {0} /\ FlowerHp \in Nat \ {0} /\ BuildingHp \in Nat \ {0}
    /\ BurnHp \in Nat \ {0} /\ sItemNum \in Nat \ {0}
    /\ SplashHp \in Nat /\ sMaxIFlowerNum \in Nat /\ sDisappearTime \in Nat
    /\ sUseSkillTimes \in Nat /\ sTenseconds \in Nat /\ sMaxGround \in Nat
    /\ sRandomItemNum \in Nat /\ sMaxItemNum \in Nat
    /\ AttackValue \subseteq Nat
BY SMTT(30), CombatAmounts

LEMMA Coolings == \A s \in Skill : Cooldown[s] \in Nat
<1>1. \A s \in Skill \cup {FlowerSkill} : SkillBufs[s] \in Seq(BufId) /\ Cooldown[s] \in Nat
  BY CombatAssumption
<1> QED
  BY <1>1

LEMMA BufsOfItems ==
    ASSUME NEW item \in ItemId
    PROVE  /\ ItemBufs[item] \in Seq(BufId)
           /\ \A i \in DOMAIN ItemBufs[item] : TypeOf[ItemBufs[item][i]] \in {"mianYi", "addSpeed"}
<1>1. \A x \in ItemId :
         /\ ItemBufs[x] \in Seq(BufId)
         /\ \A i \in DOMAIN ItemBufs[x] : TypeOf[ItemBufs[x][i]] \in {"mianYi", "addSpeed"}
  BY CombatAssumption
<1> QED
  BY <1>1

LEMMA BufGiven ==
    ASSUME NEW b \in BufId
    PROVE  Buf(b) \in BufRecord /\ Buf(b).id = b /\ Buf(b).type = TypeOf[b] /\ TypeOf[b] \in BufType
BY CombatAssumption DEF Buf, BufRecord

LEMMA NewIsGood ==
    ASSUME NEW u \in Unit, NEW t \in Team
    PROVE  /\ Good(u, NewUnit(t)) /\ NewUnit(t).kills = 0
           /\ u \notin Building => Good(u, NewFlower(t)) /\ NewFlower(t).kills = 0
           /\ u \in Building => Good(u, InitBuilding(NewUnit(t))) /\ InitBuilding(NewUnit(t)).kills = 0
<1>1. NewUnit(t) \in UnitRecord
  BY SMTT(30), Coolings DEF NewUnit, UnitRecord, BufRecord
<1>2. NewUnit(t).hp = 0 /\ ~NewUnit(t).pet /\ NewUnit(t).bufs = <<>> /\ NewUnit(t).operation
      /\ NewUnit(t).canSkillHurt /\ NewUnit(t).maxhp = 0 /\ NewUnit(t).kills = 0
  BY DEF NewUnit
<1>3. Good(u, NewUnit(t))
  BY SMTT(30), <1>1, <1>2, Amounts DEF Good, HpOK, OneOfAnId, FlagsOK, TwoAreNoted, HasType
<1>4. PICK x : x = NewUnit(t)
  OBVIOUS
<1>5. ASSUME u \notin Building
      PROVE  Good(u, NewFlower(t)) /\ NewFlower(t).kills = 0
  <2>1. PICK y : y = [x EXCEPT !.hp = FlowerHp, !.maxhp = FlowerHp]
    OBVIOUS
  <2>2. y \in UnitRecord /\ y.hp = FlowerHp /\ y.maxhp = FlowerHp
    BY <1>1, <1>4, <2>1, Amounts DEF UnitRecord
  <2>3. ~y.pet /\ y.bufs = <<>> /\ y.operation /\ y.canSkillHurt /\ y.kills = 0
    BY <1>1, <1>2, <1>4, <2>1 DEF UnitRecord
  <2>4. y = NewFlower(t)
    BY <2>1, <1>4 DEF NewFlower
  <2>5. HpOK(u, y) /\ OneOfAnId(y.bufs)
    BY SMTT(30), <2>2, <2>3, <1>5, Amounts DEF HpOK, OneOfAnId
  <2>6. FlagsOK(y)
    BY <2>3 DEF FlagsOK, TwoAreNoted, HasType
  <2> QED
    BY <2>2, <2>3, <2>4, <2>5, <2>6 DEF Good
<1>6. ASSUME u \in Building
      PROVE  Good(u, InitBuilding(NewUnit(t))) /\ InitBuilding(NewUnit(t)).kills = 0
  <2>1. PICK y : y = [x EXCEPT !.hp = BuildingHp]
    OBVIOUS
  <2>2. y \in UnitRecord /\ y.hp = BuildingHp
    BY <1>1, <1>4, <2>1, Amounts DEF UnitRecord
  <2>3. ~y.pet /\ y.bufs = <<>> /\ y.kills = 0
    BY <1>1, <1>2, <1>4, <2>1 DEF UnitRecord
  <2>4. InitBuilding(NewUnit(t)) = y
    BY <1>4, <2>1 DEF InitBuilding
  <2>5. DOMAIN y.bufs = {}
    BY <2>3
  <2>6. OneOfAnId(y.bufs)
    BY <2>5 DEF OneOfAnId
  <2> QED
    BY <2>2, <2>3, <2>4, <2>6, <1>6 DEF Good, HpOK, UnitRecord
<1> QED
  BY <1>2, <1>3, <1>5, <1>6

\* Nothing but the hit points changes.
LEMMA HurtLeaves ==
    ASSUME NEW u, NEW x \in UnitRecord, HpOK(u, x), NEW damage \in Nat,
           NEW y, y = Hurt(x, damage)
    PROVE  /\ y \in UnitRecord /\ HpOK(u, y)
           /\ y.kills = x.kills /\ y.bufs = x.bufs /\ y.hp <= x.hp
           /\ y.operation = x.operation /\ y.canSkillHurt = x.canSkillHurt /\ y.twice = x.twice
<1>1. PICK h : h = x.hp - Least(x.hp, damage)
  OBVIOUS
<1>2. x.hp \in Nat
  BY DEF UnitRecord
<1>3. h \in Nat /\ h <= x.hp
  BY <1>1, <1>2 DEF Least
<1>4. y = [x EXCEPT !.hp = h]
  BY <1>1 DEF Hurt
<1>5. y \in UnitRecord /\ y.hp = h
  BY <1>3, <1>4 DEF UnitRecord
<1>6. /\ y.maxhp = x.maxhp /\ y.pet = x.pet /\ y.bufs = x.bufs /\ y.kills = x.kills
      /\ y.operation = x.operation /\ y.canSkillHurt = x.canSkillHurt /\ y.twice = x.twice
  BY <1>4 DEF UnitRecord
<1>7. PICK most : most = IF u \in Building THEN BuildingHp ELSE x.maxhp
  OBVIOUS
<1>8. most \in Nat /\ x.hp <= most
  BY <1>7, Amounts DEF HpOK, UnitRecord
<1>9. h <= most
  BY <1>2, <1>3, <1>8
<1>10. HpOK(u, y)
  BY <1>5, <1>6, <1>7, <1>9 DEF HpOK
<1> QED
  BY <1>3, <1>5, <1>6, <1>10

LEMMA HurtIsGood ==
    ASSUME NEW u, NEW x, Good(u, x), NEW damage \in Nat
    PROVE  Good(u, Hurt(x, damage)) /\ Hurt(x, damage).kills = x.kills
<1>1. PICK y : y = Hurt(x, damage)
  OBVIOUS
<1>2. /\ y \in UnitRecord /\ HpOK(u, y) /\ y.kills = x.kills /\ y.bufs = x.bufs
      /\ y.operation = x.operation /\ y.canSkillHurt = x.canSkillHurt /\ y.twice = x.twice
  BY <1>1, HurtLeaves DEF Good
<1>3. u \notin Building => FlagsOK(y)
  BY <1>2 DEF FlagsOK, HasType, Good
<1> QED
  BY <1>1, <1>2, <1>3 DEF Good

\* A player who kills is the same but for kills and title.
LEMMA CreditIsGood ==
    ASSUME NEW u, NEW x, Good(u, x)
    PROVE  /\ Good(u, IncKillEnemyTime(x)) /\ IncKillEnemyTime(x).kills = x.kills + 1
           /\ IncKillEnemyTime(x).hp = x.hp
<1>1. PICK y : y = IncKillEnemyTime(x)
  OBVIOUS
<1>2. x \in UnitRecord
  BY DEF Good
<1>3. PICK t : t = TitleFor(x.recent + 1)
  OBVIOUS
<1>4. t \in Nat
  <2>1. x.recent + 1 \in Nat /\ (x.recent + 1) + 1 \in Nat
    BY <1>2 DEF UnitRecord
  <2>2. ((x.recent + 1) + 1) \div 2 \in Nat
    BY <2>1
  <2> QED
    BY <1>3, <2>2 DEF TitleFor
<1>5. PICK k, n, m : k = x.kills + 1 /\ n = x.recent + 1 /\ m = IF t > x.title THEN t ELSE x.title
  OBVIOUS
<1>6. y = [x EXCEPT !.kills = k, !.recent = n, !.title = m]
  BY <1>1, <1>3, <1>5 DEF IncKillEnemyTime
<1>10. k \in Nat /\ n \in Nat /\ m \in Nat
  BY <1>2, <1>4, <1>5 DEF UnitRecord
<1>11. y \in UnitRecord
  BY <1>2, <1>6, <1>10 DEF UnitRecord
<1>7. /\ y.maxhp = x.maxhp /\ y.pet = x.pet /\ y.bufs = x.bufs /\ y.kills = x.kills + 1
      /\ y.operation = x.operation /\ y.canSkillHurt = x.canSkillHurt /\ y.hp = x.hp
      /\ y.twice = x.twice
  BY <1>2, <1>5, <1>6 DEF UnitRecord
<1>8. HpOK(u, y)
  BY <1>7 DEF HpOK, Good
<1>9. u \notin Building => FlagsOK(y)
  BY <1>7 DEF FlagsOK, HasType, Good
<1> QED
  BY <1>1, <1>7, <1>8, <1>9, <1>11 DEF Good

-----------------------------------------------------------------------------
(* Bufs                                                                     *)

\* GiveBuf for the one unit it changes.
GivenTo(u, x, b) ==
    IF HasBuf(x, b) THEN ResetBuf(x, b)
    ELSE LET y == OnCacl(x, TypeOf[b]) IN IF u \in Building THEN y ELSE AddBuf(y, b)

LEMMA GivenIsGood ==
    ASSUME NEW u, NEW x, Good(u, x), NEW b \in BufId
    PROVE  Good(u, GivenTo(u, x, b)) /\ GivenTo(u, x, b).kills = x.kills
<1>0. x \in UnitRecord /\ x.bufs \in Seq(BufRecord) /\ x.twice \subseteq BufType
  BY DEF Good, UnitRecord
<1>1. PICK n, t : n = Len(x.bufs) /\ t = TypeOf[b]
  OBVIOUS
<1>2. n \in Nat /\ DOMAIN x.bufs = 1..n /\ t \in BufType /\ Buf(b).type = t
  BY <1>0, <1>1, BufGiven
<1>3. CASE HasBuf(x, b)
  <2>1. PICK s : s = [i \in DOMAIN x.bufs |-> IF x.bufs[i].id = b THEN Buf(b) ELSE x.bufs[i]]
    OBVIOUS
  <2>2. s \in Seq(BufRecord) /\ DOMAIN s = DOMAIN x.bufs
    BY <2>1, <1>0, <1>2, BufGiven
  <2>3. ASSUME NEW i \in DOMAIN x.bufs
        PROVE  s[i].id = x.bufs[i].id /\ s[i].type = x.bufs[i].type
    <3>1. x.bufs[i] \in BufRecord
      BY <1>0
    <3>2. x.bufs[i].type = TypeOf[x.bufs[i].id]
      BY <3>1 DEF BufRecord
    <3> QED
      BY <2>1, <3>2, BufGiven
  <2>4. PICK y : y = [x EXCEPT !.bufs = s]
    OBVIOUS
  <2>5. y = GivenTo(u, x, b)
    BY <1>3, <2>1, <2>4 DEF GivenTo, ResetBuf
  <2>6. y \in UnitRecord /\ y.bufs = s
    BY <1>0, <2>2, <2>4 DEF UnitRecord
  <2>7. /\ y.maxhp = x.maxhp /\ y.pet = x.pet /\ y.kills = x.kills /\ y.hp = x.hp
        /\ y.operation = x.operation /\ y.canSkillHurt = x.canSkillHurt /\ y.twice = x.twice
    BY <1>0, <2>4 DEF UnitRecord
  <2>8. OneOfAnId(y.bufs)
    BY <2>2, <2>3, <2>6 DEF Good, OneOfAnId
  <2>9. HpOK(u, y)
    BY <2>7 DEF Good, HpOK
  <2>10. u \notin Building => FlagsOK(y)
    <3>1. \A r : HasType(y, r) <=> HasType(x, r)
      BY <2>2, <2>3, <2>6 DEF HasType
    <3>2. TwoAreNoted(x.bufs, x.twice) => TwoAreNoted(y.bufs, y.twice)
      BY <2>2, <2>3, <2>6, <2>7 DEF TwoAreNoted
    <3> QED
      BY <3>1, <3>2, <2>7 DEF Good, FlagsOK
  <2> QED
    BY <2>5, <2>6, <2>7, <2>8, <2>9, <2>10 DEF Good
<1>4. CASE ~HasBuf(x, b)
  <2>1. PICK a, c : a = (x.operation /\ t # "hunXuan") /\ c = (x.canSkillHurt /\ t # "mianYi")
    OBVIOUS
  <2>2. a \in BOOLEAN /\ c \in BOOLEAN
    BY <2>1
  <2>3. PICK y : y = [x EXCEPT !.operation = a, !.canSkillHurt = c]
    OBVIOUS
  <2>4. y = OnCacl(x, TypeOf[b])
    BY <2>1, <2>3, <1>1 DEF OnCacl
  <2>5. y \in UnitRecord /\ y.operation = a /\ y.canSkillHurt = c
    BY <1>0, <2>2, <2>3 DEF UnitRecord
  <2>6. /\ y.maxhp = x.maxhp /\ y.pet = x.pet /\ y.kills = x.kills /\ y.hp = x.hp
        /\ y.bufs = x.bufs /\ y.twice = x.twice
    BY <1>0, <2>3 DEF UnitRecord
  <2>7. HpOK(u, y)
    BY <2>6 DEF Good, HpOK
  <2>8. CASE u \in Building
    <3>1. GivenTo(u, x, b) = y
      BY <2>4, <2>8, <1>4 DEF GivenTo
    <3> QED
      BY <3>1, <2>5, <2>6, <2>7, <2>8 DEF Good
  <2>9. CASE u \notin Building
    <3>1. PICK s, w : /\ s = Append(x.bufs, Buf(b))
                      /\ w = IF HasType(x, t) THEN x.twice \cup {t} ELSE x.twice
      OBVIOUS
    <3>2. /\ s \in Seq(BufRecord) /\ DOMAIN s = 1..(n + 1) /\ s[n + 1].type = t /\ s[n + 1].id = b
          /\ \A i \in 1..n : s[i] = x.bufs[i]
      BY <3>1, <1>0, <1>1, <1>2, BufGiven
    <3>3. PICK z : z = [y EXCEPT !.bufs = s, !.twice = w]
      OBVIOUS
    <3>4. z = GivenTo(u, x, b)
      <4>1. HasType(y, t) <=> HasType(x, t)
        BY <2>6 DEF HasType
      <4>2. GivenTo(u, x, b) = AddBuf(y, b)
        BY <2>4, <2>9, <1>4 DEF GivenTo
      <4>3. z = AddBuf(y, b)
        BY <4>1, <3>1, <3>3, <2>5, <2>6, <1>1 DEF AddBuf, UnitRecord
      <4> QED
        BY <4>2, <4>3
    <3>5. z \in UnitRecord /\ z.bufs = s /\ z.twice = w
      <4>1. w \subseteq BufType
        BY <3>1, <1>0, <1>2
      <4> QED
        BY <4>1, <2>5, <3>2, <3>3 DEF UnitRecord
    <3>6. /\ z.maxhp = y.maxhp /\ z.pet = y.pet /\ z.kills = y.kills /\ z.hp = y.hp
          /\ z.operation = a /\ z.canSkillHurt = c
      BY <2>5, <3>3 DEF UnitRecord
    <3>7. \A i \in 1..n : x.bufs[i].id # b
      BY <1>2, <1>4 DEF HasBuf
    <3>13. \A i \in 1..(n + 1) : i = n + 1 \/ i \in 1..n
      BY <1>2
    <3>8. OneOfAnId(z.bufs)
      <4>1. \A i, j \in 1..n : s[i].id = s[j].id => i = j
        BY <3>2, <1>2 DEF Good, OneOfAnId
      <4>2. \A i \in 1..n : s[i].id # s[n + 1].id
        BY <3>2, <3>7
      <4> QED
        BY <4>1, <4>2, <3>13, <3>2, <3>5 DEF OneOfAnId
    <3>9. \A r : HasType(z, r) <=> HasType(x, r) \/ r = t
      <4>1. n + 1 \in 1..(n + 1) /\ \A i \in 1..n : i \in 1..(n + 1)
        BY <1>2
      <4> QED
        BY <4>1, <3>13, <3>2, <3>5, <1>2 DEF HasType
    <3>10. FlagsOK(x)
      BY <2>9 DEF Good
    <3>14. TwoAreNoted(z.bufs, z.twice)
      <4>1. x.twice \subseteq w
        BY <3>1
      <4>2. \A i, j \in 1..n : s[i].type = s[j].type => i = j \/ s[i].type \in w
        BY <4>1, <3>2, <3>10, <1>2 DEF FlagsOK, TwoAreNoted
      <4>3. ASSUME NEW i \in 1..n, s[i].type = t
            PROVE  t \in w
        <5>1. HasType(x, t)
          BY <4>3, <3>2, <1>2 DEF HasType
        <5> QED
          BY <5>1, <3>1
      <4> QED
        BY <4>2, <4>3, <3>2, <3>5, <3>13 DEF TwoAreNoted
    <3>11. FlagsOK(z)
      <4>1. x.twice \subseteq z.twice
        BY <3>1, <3>5
      <4>2. ~z.operation <=> ~x.operation \/ t = "hunXuan"
        BY <3>6, <2>1
      <4>3. ~z.canSkillHurt <=> ~x.canSkillHurt \/ t = "mianYi"
        BY <3>6, <2>1
      <4> QED
        BY <4>1, <4>2, <4>3, <3>9, <3>10, <3>14 DEF FlagsOK
    <3>12. HpOK(u, z)
      BY <2>7, <3>6 DEF HpOK
    <3> QED
      BY <3>4, <3>5, <3>6, <3>8, <3>11, <3>12, <2>6 DEF Good
  <2> QED
    BY <2>8, <2>9
<1> QED
  BY <1>3, <1>4

\* The bufs of s before the i-th have been run, those after are still to be; a type is
\* there if a buf of it has stayed or is still to be run.
IsThere(y, s, i, t) == HasType(y, t) \/ \E m \in (i + 1)..Len(s) : s[m].type = t

Halfway(u, x, s, i) ==
    {y \in UnitRecord :
        /\ HpOK(u, y) /\ y.kills = x.kills /\ y.twice = x.twice
        /\ OneOfAnId(y.bufs) /\ TwoAreNoted(y.bufs, y.twice)
        /\ \A j \in DOMAIN y.bufs : \E m \in 1..i : s[m].id = y.bufs[j].id /\ s[m].type = y.bufs[j].type
        /\ ~y.operation => IsThere(y, s, i, "hunXuan")
        /\ ~y.canSkillHurt => IsThere(y, s, i, "mianYi")
        /\ IsThere(y, s, i, "hunXuan") => ~y.operation \/ "hunXuan" \in y.twice
        /\ IsThere(y, s, i, "mianYi") => ~y.canSkillHurt \/ "mianYi" \in y.twice}

LEMMA RunBufGives ==
    ASSUME NEW u, NEW x \in UnitRecord, HpOK(u, x), NEW b \in BufRecord, NEW r, r = RunBuf(x, b)
    PROVE  /\ r \in UnitRecord /\ HpOK(u, r) /\ r.kills = x.kills /\ r.twice = x.twice
           /\ r.operation <=> x.operation \/ (b.left = 0 /\ b.type = "hunXuan")
           /\ r.canSkillHurt <=> x.canSkillHurt \/ (b.left = 0 /\ b.type = "mianYi")
           /\ \/ r.bufs = x.bufs /\ (b.left = 0 \/ b.type = "zhouShang")
              \/ r.bufs = Append(x.bufs, [b EXCEPT !.since = 0]) /\ b.left # 0
<1>1. PICK ticks : ticks = IF b.type = "zhouShang" THEN b.since ELSE 0
  OBVIOUS
<1>2. ticks \in Nat
  BY <1>1 DEF BufRecord
<1>3. PICK y : y = IF x.canSkillHurt THEN Hurt(x, ticks * BurnHp) ELSE x
  OBVIOUS
<1>4. /\ y \in UnitRecord /\ HpOK(u, y) /\ y.kills = x.kills /\ y.bufs = x.bufs /\ y.twice = x.twice
      /\ y.operation = x.operation /\ y.canSkillHurt = x.canSkillHurt
  <2>1. CASE x.canSkillHurt
    <3>1. ticks * BurnHp \in Nat
      BY <1>2, Amounts
    <3>2. y = Hurt(x, ticks * BurnHp)
      BY <1>3, <2>1
    <3> QED
      BY <3>1, <3>2, HurtLeaves
  <2> QED
    BY <1>3, <2>1
<1>5. PICK z : z = IF b.left = 0 THEN OnDelete(y, b.type) ELSE y
  OBVIOUS
<1>6. /\ z \in UnitRecord /\ HpOK(u, z) /\ z.kills = y.kills /\ z.bufs = y.bufs /\ z.twice = y.twice
      /\ (z.operation <=> y.operation \/ (b.left = 0 /\ b.type = "hunXuan"))
      /\ (z.canSkillHurt <=> y.canSkillHurt \/ (b.left = 0 /\ b.type = "mianYi"))
  <2>1. CASE b.left = 0
    <3>1. PICK a, c : a = (y.operation \/ b.type = "hunXuan") /\ c = (y.canSkillHurt \/ b.type = "mianYi")
      OBVIOUS
    <3>2. a \in BOOLEAN /\ c \in BOOLEAN
      BY <3>1
    <3>3. z = [y EXCEPT !.operation = a, !.canSkillHurt = c]
      BY <1>5, <2>1, <3>1 DEF OnDelete
    <3>4. z \in UnitRecord /\ z.operation = a /\ z.canSkillHurt = c
      BY <1>4, <3>2, <3>3 DEF UnitRecord
    <3>5. /\ z.maxhp = y.maxhp /\ z.pet = y.pet /\ z.bufs = y.bufs /\ z.kills = y.kills /\ z.hp = y.hp
          /\ z.twice = y.twice
      BY <1>4, <3>3 DEF UnitRecord
    <3>6. HpOK(u, z)
      BY <1>4, <3>5 DEF HpOK
    <3> QED
      BY <3>1, <3>4, <3>5, <3>6, <2>1
  <2>2. CASE b.left # 0
    <3>1. z = y
      BY <1>5, <2>2
    <3> QED
      BY <3>1, <1>4, <2>2
  <2> QED
    BY <2>1, <2>2
<1>8. PICK s : s = IF b.left = 0 \/ (ticks > 0 /\ ~x.canSkillHurt)
                  THEN x.bufs ELSE Append(x.bufs, [b EXCEPT !.since = 0])
  OBVIOUS
<1>9. r = [z EXCEPT !.bufs = s]
  BY <1>1, <1>3, <1>4, <1>5, <1>6, <1>8 DEF RunBuf
<1>10. x.bufs \in Seq(BufRecord) /\ [b EXCEPT !.since = 0] \in BufRecord
  BY DEF UnitRecord, BufRecord
<1>11. s \in Seq(BufRecord)
  BY <1>8, <1>10
<1>12. r \in UnitRecord /\ r.bufs = s
  BY <1>6, <1>9, <1>11 DEF UnitRecord
<1>13. /\ r.maxhp = z.maxhp /\ r.pet = z.pet /\ r.kills = z.kills /\ r.hp = z.hp
       /\ r.operation = z.operation /\ r.canSkillHurt = z.canSkillHurt /\ r.twice = z.twice
  BY <1>6, <1>9 DEF UnitRecord
<1>14. HpOK(u, r)
  BY <1>6, <1>13 DEF HpOK
<1>15. \/ s = x.bufs /\ (b.left = 0 \/ b.type = "zhouShang")
       \/ s = Append(x.bufs, [b EXCEPT !.since = 0]) /\ b.left # 0
  BY <1>1, <1>8
<1>16. r.operation <=> x.operation \/ (b.left = 0 /\ b.type = "hunXuan")
  BY ZenonT(30), <1>4, <1>6, <1>13
<1>17. r.canSkillHurt <=> x.canSkillHurt \/ (b.left = 0 /\ b.type = "mianYi")
  BY ZenonT(30), <1>4, <1>6, <1>13
<1>18. r.kills = x.kills /\ r.twice = x.twice
  BY <1>4, <1>6, <1>13
<1> QED
  BY <1>12, <1>14, <1>15, <1>16, <1>17, <1>18

LEMMA HalfwayOn ==
    ASSUME NEW u, NEW x, NEW s \in Seq(BufRecord), OneOfAnId(s), TwoAreNoted(s, x.twice),
           NEW i \in 1..Len(s), NEW y \in Halfway(u, x, s, i - 1)
    PROVE  RunBuf(y, s[i]) \in Halfway(u, x, s, i)
<1>1. PICK n, b : n = Len(s) /\ b = s[i]
  OBVIOUS
<1>2. n \in Nat /\ DOMAIN s = 1..n /\ b \in BufRecord /\ i \in 1..n /\ (i - 1) + 1 = i
  BY <1>1
<1>3. \A m \in 1..n : m # i => s[m].id # b.id /\ (s[m].type # b.type \/ b.type \in x.twice)
  BY <1>1, <1>2 DEF OneOfAnId, TwoAreNoted
<1>4. /\ y \in UnitRecord /\ HpOK(u, y) /\ y.kills = x.kills /\ y.twice = x.twice
      /\ OneOfAnId(y.bufs) /\ TwoAreNoted(y.bufs, y.twice)
  BY DEF Halfway
<1>5. \A j \in DOMAIN y.bufs :
          \E m \in 1..(i - 1) : s[m].id = y.bufs[j].id /\ s[m].type = y.bufs[j].type
  BY DEF Halfway
<1>6. /\ ~y.operation => IsThere(y, s, i - 1, "hunXuan")
      /\ IsThere(y, s, i - 1, "hunXuan") => ~y.operation \/ "hunXuan" \in y.twice
  BY DEF Halfway
<1>7. /\ ~y.canSkillHurt => IsThere(y, s, i - 1, "mianYi")
      /\ IsThere(y, s, i - 1, "mianYi") => ~y.canSkillHurt \/ "mianYi" \in y.twice
  BY DEF Halfway
<1>8. PICK r : r = RunBuf(y, b)
  OBVIOUS
<1>9. /\ r \in UnitRecord /\ HpOK(u, r) /\ r.kills = y.kills /\ r.twice = y.twice
      /\ r.operation <=> y.operation \/ (b.left = 0 /\ b.type = "hunXuan")
      /\ r.canSkillHurt <=> y.canSkillHurt \/ (b.left = 0 /\ b.type = "mianYi")
      /\ \/ r.bufs = y.bufs /\ (b.left = 0 \/ b.type = "zhouShang")
         \/ r.bufs = Append(y.bufs, [b EXCEPT !.since = 0]) /\ b.left # 0
  BY <1>2, <1>4, <1>8, RunBufGives
<1>10. \A j \in DOMAIN y.bufs :
           y.bufs[j].id # b.id /\ (y.bufs[j].type # b.type \/ b.type \in x.twice)
  <2>1. \A m \in 1..(i - 1) : m \in 1..n /\ m # i
    BY <1>2
  <2> QED
    BY <2>1, <1>3, <1>5
<1>11. \A t : IsThere(y, s, i - 1, t)
                 <=> HasType(y, t) \/ b.type = t \/ \E m \in (i + 1)..n : s[m].type = t
  <2>1. i..n = {i} \cup ((i + 1)..n)
    BY <1>2
  <2> QED
    BY <2>1, <1>1, <1>2 DEF IsThere
<1>12. \A t : b.type = t => t \in x.twice \/ ~(HasType(y, t) \/ \E m \in (i + 1)..n : s[m].type = t)
  <2>1. \A m \in (i + 1)..n : m \in 1..n /\ m # i
    BY <1>2
  <2> QED
    BY <2>1, <1>3, <1>10 DEF HasType
<1>13. (1..(i - 1)) \cup {i} = 1..i
  BY <1>2
<1>14. PICK d : d = [b EXCEPT !.since = 0]
  OBVIOUS
<1>15. d \in BufRecord /\ d.type = b.type /\ d.id = b.id
  BY <1>14, <1>2 DEF BufRecord
<1>16. PICK l : l = Len(y.bufs)
  OBVIOUS
<1>17. l \in Nat /\ DOMAIN y.bufs = 1..l /\ y.bufs \in Seq(BufRecord) /\ 1..(l + 1) = (1..l) \cup {l + 1}
  BY <1>4, <1>16 DEF UnitRecord
<1>18. \/ r.bufs = y.bufs
       \/ DOMAIN r.bufs = 1..(l + 1) /\ r.bufs[l + 1] = d /\ \A j \in 1..l : r.bufs[j] = y.bufs[j]
  BY <1>9, <1>14, <1>15, <1>16, <1>17
<1>19. \A j \in DOMAIN r.bufs :
           \E m \in 1..i : s[m].id = r.bufs[j].id /\ s[m].type = r.bufs[j].type
  <2>1. CASE r.bufs = y.bufs
    BY <2>1, <1>5, <1>13
  <2>2. CASE DOMAIN r.bufs = 1..(l + 1) /\ r.bufs[l + 1] = d /\ \A j \in 1..l : r.bufs[j] = y.bufs[j]
    BY <2>2, <1>1, <1>5, <1>13, <1>15, <1>17
  <2> QED
    BY <2>1, <2>2, <1>18
<1>20. OneOfAnId(r.bufs) /\ TwoAreNoted(r.bufs, r.twice)
  <2>1. CASE r.bufs = y.bufs
    BY <2>1, <1>4, <1>9
  <2>2. CASE DOMAIN r.bufs = 1..(l + 1) /\ r.bufs[l + 1] = d /\ \A j \in 1..l : r.bufs[j] = y.bufs[j]
    <3>1. \A j, m \in 1..l :
              /\ r.bufs[j].id = r.bufs[m].id => j = m
              /\ r.bufs[j].type = r.bufs[m].type => j = m \/ r.bufs[j].type \in r.twice
      <4>1. r.twice = y.twice
        BY <1>9
      <4>2. \A j, m \in DOMAIN y.bufs :
                /\ y.bufs[j].id = y.bufs[m].id => j = m
                /\ y.bufs[j].type = y.bufs[m].type => j = m \/ y.bufs[j].type \in r.twice
        BY <4>1, <1>4 DEF OneOfAnId, TwoAreNoted
      <4> QED
        BY <4>2, <2>2, <1>17
    <3>2. \A j \in 1..l :
              /\ r.bufs[j].id # r.bufs[l + 1].id
              /\ r.bufs[j].type # r.bufs[l + 1].type \/ b.type \in r.twice
      BY <2>2, <1>4, <1>9, <1>10, <1>15, <1>17
    <3>3. \A j \in DOMAIN r.bufs : j \in 1..l \/ j = l + 1
      BY <2>2, <1>17
    <3>4. r.bufs[l + 1].type = b.type /\ r.twice = x.twice
      BY <2>2, <1>4, <1>9, <1>15
    <3>5. OneOfAnId(r.bufs)
      BY <3>1, <3>2, <3>3 DEF OneOfAnId
    <3>6. \A j, m \in DOMAIN r.bufs :
              r.bufs[j].type = r.bufs[m].type => j = m \/ r.bufs[j].type \in r.twice
      BY <3>1, <3>2, <3>3, <3>4
    <3> QED
      BY <3>5, <3>6 DEF TwoAreNoted
  <2> QED
    BY <2>1, <2>2, <1>18
<1>21. \A t \in {"hunXuan", "mianYi"} : HasType(r, t) <=> HasType(y, t) \/ (~(b.left = 0) /\ b.type = t)
  <2>1. CASE r.bufs = y.bufs /\ (b.left = 0 \/ b.type = "zhouShang")
    BY <2>1 DEF HasType
  <2>2. CASE r.bufs = Append(y.bufs, [b EXCEPT !.since = 0]) /\ b.left # 0
    <3>1. DOMAIN r.bufs = 1..(l + 1) /\ r.bufs[l + 1] = d /\ \A j \in 1..l : r.bufs[j] = y.bufs[j]
      BY <2>2, <1>14, <1>15, <1>16, <1>17
    <3> QED
      BY <3>1, <2>2, <1>15, <1>17 DEF HasType
  <2> QED
    BY <2>1, <2>2, <1>9
<1>22. /\ ~r.operation => IsThere(r, s, i, "hunXuan")
       /\ IsThere(r, s, i, "hunXuan") => ~r.operation \/ "hunXuan" \in r.twice
  BY <1>1, <1>4, <1>6, <1>9, <1>11, <1>12, <1>21 DEF IsThere
<1>23. /\ ~r.canSkillHurt => IsThere(r, s, i, "mianYi")
       /\ IsThere(r, s, i, "mianYi") => ~r.canSkillHurt \/ "mianYi" \in r.twice
  BY <1>1, <1>4, <1>7, <1>9, <1>11, <1>12, <1>21 DEF IsThere
<1> QED
  BY <1>1, <1>4, <1>8, <1>9, <1>19, <1>20, <1>22, <1>23 DEF Halfway

RunOneBuf(c, x, b) == RunBuf(x, b)
Bufs == INSTANCE FoldFacts WITH Op <- RunOneBuf

LEMMA RunBufsIsFold == ASSUME NEW x, NEW s PROVE FoldLeft(RunBuf, x, s) = Bufs!Folded(0, x, s)
BY DEF Bufs!Folded, Bufs!FoldLeft, Bufs!MapThenFoldSet, FoldLeft, MapThenFoldSet, RunOneBuf, Max, Bufs!Max

LEMMA RunBufsIsGood ==
    ASSUME NEW u \in Player \cup FlowerName, NEW x, Good(u, x)
    PROVE  /\ Good(u, RunFlowerBufs(x)) /\ RunFlowerBufs(x).kills = x.kills
           /\ Good(u, RunBufs(x)) /\ RunBufs(x).kills = x.kills
<1>1. PICK s, n : s = x.bufs /\ n = Len(s)
  OBVIOUS
<1>2. x \in UnitRecord /\ s \in Seq(BufRecord) /\ n \in Nat /\ DOMAIN s = 1..n /\ OneOfAnId(s)
  BY <1>1 DEF Good, UnitRecord
<1>3. PICK y : y = [x EXCEPT !.bufs = <<>>]
  OBVIOUS
<1>4. y \in UnitRecord /\ y.bufs = <<>>
  <2>1. <<>> \in Seq(BufRecord)
    OBVIOUS
  <2> QED
    BY <2>1, <1>2, <1>3 DEF UnitRecord
<1>5. /\ y.maxhp = x.maxhp /\ y.pet = x.pet /\ y.kills = x.kills /\ y.hp = x.hp
      /\ y.operation = x.operation /\ y.canSkillHurt = x.canSkillHurt /\ y.twice = x.twice
  BY <1>2, <1>3 DEF UnitRecord
<1>6. u \notin Building
  BY Apart
<1>15. FlagsOK(x)
  BY <1>6 DEF Good
<1>7. y \in Halfway(u, x, s, 0)
  <2>1. HpOK(u, y)
    BY <1>5 DEF Good, HpOK
  <2>2. \A t : HasType(x, t) <=> IsThere(y, s, 0, t)
    <3>1. \A t : ~HasType(y, t)
      BY <1>4 DEF HasType
    <3>2. (0 + 1)..Len(s) = DOMAIN x.bufs
      BY <1>1, <1>2
    <3>3. \A t : HasType(x, t) <=> \E m \in (0 + 1)..Len(s) : s[m].type = t
      BY <3>2, <1>1 DEF HasType
    <3> QED
      BY <3>1, <3>3 DEF IsThere
  <2>3. /\ ~y.operation => IsThere(y, s, 0, "hunXuan")
        /\ ~y.canSkillHurt => IsThere(y, s, 0, "mianYi")
        /\ IsThere(y, s, 0, "hunXuan") => ~y.operation \/ "hunXuan" \in y.twice
        /\ IsThere(y, s, 0, "mianYi") => ~y.canSkillHurt \/ "mianYi" \in y.twice
    BY <2>2, <1>5, <1>15 DEF FlagsOK
  <2>4. /\ OneOfAnId(y.bufs) /\ TwoAreNoted(y.bufs, y.twice)
        /\ \A j \in DOMAIN y.bufs : \E m \in 1..0 : s[m].id = y.bufs[j].id /\ s[m].type = y.bufs[j].type
    BY <1>4 DEF OneOfAnId, TwoAreNoted
  <2> QED
    BY <2>1, <2>3, <2>4, <1>4, <1>5 DEF Halfway
<1>8. PICK D : D = [i \in 0..n |-> Halfway(u, x, s, i)]
  OBVIOUS
<1>16. TwoAreNoted(s, x.twice)
  BY <1>1, <1>15 DEF FlagsOK
<1>9. y \in D[0] /\ \A i \in 1..n : \A z \in D[i - 1] : RunOneBuf(0, z, s[i]) \in D[i]
  <2>1. \A i \in 1..n : i \in 0..n /\ i - 1 \in 0..n
    BY <1>2
  <2> QED
    BY <2>1, <1>1, <1>2, <1>7, <1>8, <1>16, HalfwayOn DEF RunOneBuf
<1>10. Bufs!Folded(0, y, s) \in D[n]
  BY <1>2, <1>9, Bufs!FoldStays
<1>11. PICK r, z, w : /\ r = Bufs!Folded(0, y, s) /\ w = {t \in r.twice : HasType(r, t)}
                      /\ z = [r EXCEPT !.twice = w]
  OBVIOUS
<1>12. z = RunFlowerBufs(x)
  <2>1. r = FoldLeft(RunBuf, y, s)
    BY <1>11, RunBufsIsFold
  <2> QED
    BY <2>1, <1>1, <1>3, <1>11 DEF RunFlowerBufs
<1>13. r \in Halfway(u, x, s, n) /\ (n + 1)..Len(s) = {}
  BY <1>1, <1>2, <1>8, <1>10, <1>11
<1>17. r \in UnitRecord /\ HpOK(u, r) /\ OneOfAnId(r.bufs) /\ TwoAreNoted(r.bufs, r.twice) /\ r.kills = x.kills
  BY <1>13 DEF Halfway
<1>18. /\ z \in UnitRecord /\ z.twice = w /\ z.kills = r.kills /\ z.bufs = r.bufs /\ z.hp = r.hp
       /\ z.maxhp = r.maxhp /\ z.pet = r.pet
       /\ z.operation = r.operation /\ z.canSkillHurt = r.canSkillHurt
  <2>1. r.twice \subseteq BufType
    BY <1>17 DEF UnitRecord
  <2>2. w \subseteq BufType
    BY <2>1, <1>11
  <2> QED
    BY <2>2, <1>11, <1>17 DEF UnitRecord
<1>14. Good(u, z)
  <2>1. \A t : HasType(z, t) <=> IsThere(r, s, n, t)
    BY <1>13, <1>18 DEF HasType, IsThere
  <2>2. \A t : HasType(z, t) => (t \in w <=> t \in r.twice)
    BY <1>11, <1>18 DEF HasType
  <2>3. TwoAreNoted(z.bufs, z.twice)
    <3>1. \A i \in DOMAIN z.bufs : HasType(z, z.bufs[i].type)
      BY DEF HasType
    <3> QED
      BY <3>1, <2>2, <1>17, <1>18 DEF TwoAreNoted
  <2>4. FlagsOK(z)
    BY <2>1, <2>2, <2>3, <1>13, <1>18 DEF Halfway, FlagsOK
  <2>5. HpOK(u, z)
    BY <1>17, <1>18 DEF HpOK
  <2> QED
    BY <2>4, <2>5, <1>17, <1>18 DEF Good
<1> QED
  BY <1>12, <1>14, <1>17, <1>18 DEF RunBufs

-----------------------------------------------------------------------------
(* Skills                                                                   *)

\* One unit changes.
LEMMA OneChanges ==
    ASSUME NEW k, NEW w \in Units(k), NEW u \in Unit, NEW x, Good(u, x), x.kills = k[u]
    PROVE  [w EXCEPT ![u] = x] \in Units(k)
<1>1. w \in [Unit -> UnitRecord] /\ x \in UnitRecord
  BY DEF Units, Good
<1>2. PICK z : z = [w EXCEPT ![u] = x]
  OBVIOUS
<1>3. z \in [Unit -> UnitRecord] /\ \A v \in Unit : z[v] = IF v = u THEN x ELSE w[v]
  BY <1>1, <1>2
<1>4. \A v \in Unit : Good(v, z[v]) /\ z[v].kills = k[v]
  BY <1>3 DEF Units
<1> QED
  BY <1>2, <1>3, <1>4 DEF Units

LEMMA EachIsGood ==
    ASSUME NEW k, NEW w \in Units(k), NEW u \in Unit
    PROVE  Good(u, w[u]) /\ w[u].kills = k[u] /\ w[u] \in UnitRecord
BY DEF Units, Good

LEMMA GiveKeeps ==
    ASSUME NEW k, NEW w \in Units(k), NEW u \in Unit, NEW b \in BufId
    PROVE  GiveBuf(w, u, b) \in Units(k)
<1>1. PICK x : x = GivenTo(u, w[u], b)
  OBVIOUS
<1>2. Good(u, x) /\ x.kills = k[u]
  BY <1>1, EachIsGood, GivenIsGood
<1>3. GiveBuf(w, u, b) = [w EXCEPT ![u] = x]
  BY <1>1 DEF GiveBuf, GivenTo
<1>4. [w EXCEPT ![u] = x] \in Units(k)
  BY <1>2, OneChanges
<1> QED
  BY <1>3, <1>4

LEMMA SplashKeeps ==
    ASSUME NEW k, NEW w \in Units(k), NEW me, NEW near
    PROVE  Splash(w, me, near) \in Units(k)
<1>1. PICK z : z = Splash(w, me, near)
  OBVIOUS
<1>2. ASSUME NEW u \in Unit
      PROVE  Good(u, z[u]) /\ z[u].kills = k[u]
  <2>1. Good(u, w[u]) /\ w[u].kills = k[u]
    BY EachIsGood
  <2>2. SplashHp \in Nat
    BY Amounts
  <2>3. z[u] = w[u] \/ z[u] = Hurt(w[u], SplashHp)
    BY <1>1 DEF Splash
  <2> QED
    BY <2>1, <2>2, <2>3, HurtIsGood
<1>3. DOMAIN z = Unit /\ z = [u \in Unit |-> z[u]]
  BY <1>1 DEF Splash
<1>4. z \in [Unit -> UnitRecord]
  BY <1>2, <1>3 DEF Good
<1> QED
  BY <1>1, <1>2, <1>4 DEF Units

\* The bufs that only who uses them bears need no target.
ForMe == {"mianYi", "addSpeed"}

LEMMA HandleKeeps ==
    ASSUME NEW k, NEW w \in Units(k), NEW b \in BufId, NEW me \in Unit, NEW target, NEW near,
           target \in Unit \/ TypeOf[b] \in ForMe
    PROVE  HandleBuf(w, b, me, target, near) \in Units(k)
<1>1. CASE TypeOf[b] = "jianShe"
  BY <1>1, SplashKeeps DEF HandleBuf
<1>2. CASE TypeOf[b] \in ForMe
  BY <1>2, GiveKeeps DEF HandleBuf, ForMe
<1>3. CASE TypeOf[b] \notin {"jianShe"} \cup ForMe
  BY <1>3, GiveKeeps DEF HandleBuf, ForMe
<1> QED
  BY <1>1, <1>2, <1>3

\* c is who gives them, to whom, and who stands near.
HandleOneBuf(c, x, b) == HandleBuf(x, b, c[1], c[2], c[3])
Effects == INSTANCE FoldFacts WITH Op <- HandleOneBuf

EffectsOf(w, s, me, target, near) ==
    FoldLeft(LAMBDA x, b : HandleBuf(x, b, me, target, near), w, s)

LEMMA EffectsIsFold ==
    ASSUME NEW w, NEW s, NEW me, NEW target, NEW near
    PROVE  EffectsOf(w, s, me, target, near) = Effects!Folded(<<me, target, near>>, w, s)
BY DEF EffectsOf, Effects!Folded, Effects!FoldLeft, Effects!MapThenFoldSet, FoldLeft, MapThenFoldSet,
       HandleOneBuf, Max, Effects!Max

LEMMA EffectsKeep ==
    ASSUME NEW k, NEW w \in Units(k), NEW s \in Seq(BufId), NEW me \in Unit, NEW target, NEW near,
           target \in Unit \/ \A i \in DOMAIN s : TypeOf[s[i]] \in ForMe
    PROVE  EffectsOf(w, s, me, target, near) \in Units(k)
<1>1. PICK n : n = Len(s)
  OBVIOUS
<1>2. n \in Nat /\ DOMAIN s = 1..n /\ \A i \in 1..n : s[i] \in BufId
  BY <1>1
<1>3. \A i \in 1..n : \A x \in Units(k) : HandleOneBuf(<<me, target, near>>, x, s[i]) \in Units(k)
  BY <1>2, HandleKeeps DEF HandleOneBuf
<1>4. Effects!Folded(<<me, target, near>>, w, s) \in Units(k)
  BY <1>2, <1>3, Effects!FoldStaysIn
<1> QED
  BY <1>4, EffectsIsFold

LEMMA UseKeeps ==
    ASSUME NEW k, NEW w \in Units(k), NEW me, NEW s, me \in Player => s \in Skill,
           NEW z, z = UseSkill(w, me, s)
    PROVE  /\ z \in Units(k)
           /\ \A u \in Unit : z[u].hp = w[u].hp /\ z[u].canSkillHurt = w[u].canSkillHurt
<1>1. CASE me \in Player
  <2>1. me \in Unit /\ s \in Skill /\ w \in [Unit -> UnitRecord] /\ w[me] \in UnitRecord
    BY <1>1, Apart, EachIsGood DEF Units
  <2>2. PICK h : h = [w[me].used EXCEPT ![s] = 0]
    OBVIOUS
  <2>3. h \in [Skill -> Nat]
    BY <2>1, <2>2 DEF UnitRecord
  <2>4. PICK x : x = [w[me] EXCEPT !.used = h]
    OBVIOUS
  <2>5. z = [w EXCEPT ![me] = x]
    BY <1>1, <2>1, <2>2, <2>4 DEF UseSkill, UnitRecord
  <2>6. x \in UnitRecord
    BY <2>1, <2>3, <2>4 DEF UnitRecord
  <2>7. /\ x.maxhp = w[me].maxhp /\ x.pet = w[me].pet /\ x.kills = w[me].kills /\ x.hp = w[me].hp
        /\ x.operation = w[me].operation /\ x.canSkillHurt = w[me].canSkillHurt
        /\ x.bufs = w[me].bufs /\ x.twice = w[me].twice
    BY <2>1, <2>4 DEF UnitRecord
  <2>8. Good(me, w[me]) /\ w[me].kills = k[me]
    BY <2>1, EachIsGood
  <2>9. Good(me, x)
    <3>1. HpOK(me, x)
      BY <2>7, <2>8 DEF Good, HpOK
    <3>2. me \notin Building => FlagsOK(x)
      BY <2>7, <2>8 DEF Good, FlagsOK, HasType
    <3> QED
      BY <3>1, <3>2, <2>6, <2>7, <2>8 DEF Good
  <2>10. z \in Units(k)
    <3>1. x.kills = k[me]
      BY <2>7, <2>8
    <3>2. me \in Unit
      BY <2>1
    <3>3. [w EXCEPT ![me] = x] \in Units(k)
      BY <3>1, <3>2, <2>9, OneChanges
    <3> QED
      BY <3>3, <2>5
  <2>11. \A u \in Unit : z[u] = IF u = me THEN x ELSE w[u]
    BY <2>1, <2>5, <2>6
  <2> QED
    BY <2>7, <2>10, <2>11
<1>2. CASE me \notin Player
  BY <1>2 DEF UseSkill
<1> QED
  BY <1>1, <1>2

\* A blow is credited only when it killed a player who was alive.
Credited(k, me, target, w, z) ==
    /\ me \in Player /\ target \in Player
    /\ z \in Units([k EXCEPT ![me] = @ + 1]) /\ Dead(z[target])

LEMMA OnHurtGives ==
    ASSUME NEW k \in [Unit -> Nat], NEW w \in Units(k), NEW me \in Unit, NEW target \in Unit, NEW v \in Nat,
           NEW z, z = OnHurt(w, me, target, v)
    PROVE  \/ z \in Units(k)
           \/ Credited(k, me, target, w, z)
<1>1. PICK x : x = Hurt(w[target], v)
  OBVIOUS
<1>2. Good(target, x) /\ x.kills = k[target]
  <2>1. Good(target, w[target]) /\ w[target].kills = k[target]
    BY EachIsGood
  <2> QED
    BY <2>1, <1>1, HurtIsGood
<1>3. PICK h : h = [w EXCEPT ![target] = x]
  OBVIOUS
<1>4. h \in Units(k)
  BY <1>2, <1>3, OneChanges
<1>5. CASE me \in Player /\ target \in Player /\ Dead(h[target])
  <2>1. PICK y : y = IncKillEnemyTime(h[me])
    OBVIOUS
  <2>2. Good(me, y) /\ y.kills = k[me] + 1 /\ y.hp = h[me].hp /\ y \in UnitRecord
    <3>1. Good(me, h[me]) /\ h[me].kills = k[me]
      BY <1>4, EachIsGood
    <3>2. Good(me, y) /\ y.kills = h[me].kills + 1 /\ y.hp = h[me].hp
      BY <3>1, <2>1, CreditIsGood
    <3> QED
      BY <3>1, <3>2 DEF Good
  <2>3. z = [h EXCEPT ![me] = y]
    BY <1>1, <1>3, <1>5, <2>1 DEF OnHurt
  <2>4. h \in [Unit -> UnitRecord]
    BY <1>4 DEF Units
  <2>5. z \in [Unit -> UnitRecord] /\ \A u \in Unit : z[u] = IF u = me THEN y ELSE h[u]
    BY <2>2, <2>3, <2>4
  <2>6. \A u \in Unit : Good(u, z[u]) /\ z[u].kills = [k EXCEPT ![me] = @ + 1][u]
    BY <2>2, <2>5, <1>4, EachIsGood
  <2>7. z[target].hp = h[target].hp
    BY <2>2, <2>5
  <2> QED
    BY <2>5, <2>6, <2>7, <1>5 DEF Credited, Units, Dead
<1>6. CASE ~(me \in Player /\ target \in Player /\ Dead(h[target]))
  BY <1>1, <1>3, <1>4, <1>6 DEF OnHurt
<1> QED
  BY <1>5, <1>6

LEMMA EmitGives ==
    ASSUME NEW k \in [Unit -> Nat], NEW w \in Units(k), NEW me \in Unit, NEW target \in Unit, NEW v \in Nat,
           NEW s \in Skill \cup {FlowerSkill}, me \in Player => s \in Skill, NEW near,
           NEW z, z = OnEmitSkill(w, s, me, target, v, near)
    PROVE  \/ z \in Units(k)
           \/ Credited(k, me, target, w, z)
<1>1. CASE ~w[target].canSkillHurt \/ ~CanUseSkill(w, me, s)
  BY <1>1 DEF OnEmitSkill
<1>2. CASE ~(~w[target].canSkillHurt \/ ~CanUseSkill(w, me, s))
  <2>1. PICK x : x = UseSkill(w, me, s)
    OBVIOUS
  <2>2. x \in Units(k)
    BY <2>1, UseKeeps
  <2>3. PICK h : h = OnHurt(x, me, target, v)
    OBVIOUS
  <2>4. h \in Units(k) \/ Credited(k, me, target, x, h)
    BY <2>2, <2>3, OnHurtGives
  <2>5. CASE target \in Player /\ Dead(h[target])
    <3>1. z = h
      BY <1>2, <2>1, <2>3, <2>5 DEF OnEmitSkill
    <3> QED
      BY <3>1, <2>4 DEF Credited
  <2>6. CASE ~(target \in Player /\ Dead(h[target]))
    <3>1. h \in Units(k)
      BY <2>4, <2>6 DEF Credited
    <3>2. z = EffectsOf(h, SkillBufs[s], me, target, near)
      BY <1>2, <2>1, <2>3, <2>6 DEF OnEmitSkill, EffectsOf
    <3>3. SkillBufs[s] \in Seq(BufId)
      BY CombatAssumption
    <3> QED
      BY <3>1, <3>2, <3>3, EffectsKeep
  <2> QED
    BY <2>5, <2>6
<1> QED
  BY <1>1, <1>2

-----------------------------------------------------------------------------
(* Time passes                                                              *)

FlowerRecord == [name : FlowerName, age : Nat, idle : Nat]

LEMMA LeastIsNat == ASSUME NEW a \in Nat, NEW b \in Nat PROVE Least(a, b) \in Nat
BY DEF Least

LEMMA OlderBufKeeps ==
    ASSUME NEW b \in BufRecord
    PROVE  OlderBuf(b) \in BufRecord /\ OlderBuf(b).type = b.type /\ OlderBuf(b).id = b.id
<1>1. PICK l, s : /\ l = (IF b.left = 0 THEN 0 ELSE b.left - 1)
                  /\ s = (IF b.type = "zhouShang" THEN Least(b.since + 1, PetHp) ELSE 0)
  OBVIOUS
<1>2. l \in Nat
  BY <1>1 DEF BufRecord
<1>3. s \in Nat
  <2>1. b.since + 1 \in Nat /\ PetHp \in Nat
    BY Amounts DEF BufRecord
  <2> QED
    BY <2>1, <1>1, LeastIsNat
<1>4. OlderBuf(b) = [b EXCEPT !.left = l, !.since = s]
  BY <1>1 DEF OlderBuf
<1> QED
  BY <1>2, <1>3, <1>4 DEF BufRecord

LEMMA OlderIsGood ==
    ASSUME NEW u, NEW x, Good(u, x)
    PROVE  Good(u, Older(x)) /\ Older(x).kills = x.kills
<1>1. PICK s, n : s = x.bufs /\ n = Len(s)
  OBVIOUS
<1>2. x \in UnitRecord /\ s \in Seq(BufRecord) /\ n \in Nat /\ DOMAIN s = 1..n
  BY <1>1 DEF Good, UnitRecord
<1>3. PICK used, bufs : /\ used = [i \in Skill |-> Least(x.used[i] + 1, Cooldown[i] + 1)]
                        /\ bufs = [i \in DOMAIN s |-> OlderBuf(s[i])]
  OBVIOUS
<1>4. used \in [Skill -> Nat]
  <2>1. \A i \in Skill : Cooldown[i] \in Nat
    BY CombatAssumption
  <2>2. \A i \in Skill : x.used[i] \in Nat
    BY <1>2 DEF UnitRecord
  <2>3. ASSUME NEW i \in Skill
        PROVE  Least(x.used[i] + 1, Cooldown[i] + 1) \in Nat
    <3>1. x.used[i] + 1 \in Nat /\ Cooldown[i] + 1 \in Nat
      BY <2>1, <2>2
    <3> QED
      BY <3>1, LeastIsNat
  <2> QED
    BY <2>3, <1>3
<1>5. /\ bufs \in Seq(BufRecord) /\ DOMAIN bufs = DOMAIN s
      /\ \A i \in DOMAIN s : bufs[i].type = s[i].type /\ bufs[i].id = s[i].id
  <2>1. \A i \in 1..n : /\ OlderBuf(s[i]) \in BufRecord
                       /\ OlderBuf(s[i]).type = s[i].type /\ OlderBuf(s[i]).id = s[i].id
    BY <1>2, OlderBufKeeps
  <2> QED
    BY <2>1, <1>2, <1>3
<1>6. PICK y : y = [x EXCEPT !.used = used, !.bufs = bufs]
  OBVIOUS
<1>7. y = Older(x)
  BY <1>1, <1>3, <1>6 DEF Older
<1>8. y \in UnitRecord /\ y.bufs = bufs
  BY <1>2, <1>4, <1>5, <1>6 DEF UnitRecord
<1>9. /\ y.maxhp = x.maxhp /\ y.pet = x.pet /\ y.kills = x.kills /\ y.hp = x.hp
      /\ y.operation = x.operation /\ y.canSkillHurt = x.canSkillHurt /\ y.twice = x.twice
  BY <1>2, <1>6 DEF UnitRecord
<1>10. HpOK(u, y)
  BY <1>9 DEF Good, HpOK
<1>11. OneOfAnId(y.bufs)
  BY <1>1, <1>5, <1>8 DEF Good, OneOfAnId
<1>12. u \notin Building => FlagsOK(y)
  <2>1. \A t : HasType(y, t) <=> HasType(x, t)
    BY <1>1, <1>5, <1>8 DEF HasType
  <2>2. TwoAreNoted(x.bufs, x.twice) => TwoAreNoted(y.bufs, y.twice)
    BY <1>1, <1>5, <1>8, <1>9 DEF TwoAreNoted
  <2> QED
    BY <2>1, <2>2, <1>9 DEF Good, FlagsOK
<1> QED
  BY <1>7, <1>8, <1>9, <1>10, <1>11, <1>12 DEF Good

LEMMA RunPlayersKeeps ==
    ASSUME NEW k, NEW w \in Units(k), scene \subseteq Player
    PROVE  /\ [u \in Unit |-> Older(w[u])] \in Units(k)
           /\ RunPlayers(w) \in Units(k)
<1>1. ASSUME NEW u \in Unit
      PROVE  Good(u, Older(w[u])) /\ Older(w[u]).kills = k[u] /\ Older(w[u]) \in UnitRecord
  <2>1. PICK x : x = w[u]
    OBVIOUS
  <2>2. Good(u, x) /\ x.kills = k[u]
    BY <2>1, EachIsGood
  <2>3. Good(u, Older(x)) /\ Older(x).kills = x.kills
    BY <2>2, OlderIsGood
  <2> QED
    BY <2>1, <2>2, <2>3 DEF Good
<1>2. [u \in Unit |-> Older(w[u])] \in Units(k)
  <2>1. PICK z : z = [u \in Unit |-> Older(w[u])]
    OBVIOUS
  <2>2. z \in [Unit -> UnitRecord] /\ \A u \in Unit : Good(u, z[u]) /\ z[u].kills = k[u]
    BY <2>1, <1>1
  <2> QED
    BY <2>1, <2>2 DEF Units
<1>3. PICK z : z = RunPlayers(w)
  OBVIOUS
<1>4. DOMAIN z = Unit /\ z = [u \in Unit |-> z[u]]
  BY <1>3 DEF RunPlayers
<1>5. ASSUME NEW u \in Unit
      PROVE  Good(u, z[u]) /\ z[u].kills = k[u] /\ z[u] \in UnitRecord
  <2>1. Good(u, w[u]) /\ w[u].kills = k[u]
    BY EachIsGood
  <2>2. u \in scene => z[u] = RunBufs(w[u])
    BY <1>3 DEF RunPlayers
  <2>3. u \notin scene => z[u] = w[u]
    BY <1>3 DEF RunPlayers
  <2>4. u \in scene => Good(u, RunBufs(w[u])) /\ RunBufs(w[u]).kills = w[u].kills
    BY <2>1, RunBufsIsGood
  <2> QED
    BY <2>1, <2>2, <2>3, <2>4 DEF Good
<1>6. z \in [Unit -> UnitRecord]
  BY <1>4, <1>5
<1>7. z \in Units(k)
  BY <1>5, <1>6 DEF Units
<1> QED
  BY <1>2, <1>3, <1>7

\* The units and the flowers that stay, when some flowers have been run.
FlowersRun(k) == [unit : Units(k), flowers : Seq(FlowerRecord)]

LEMMA RunFlowerOn ==
    ASSUME NEW k \in [Unit -> Nat], \A f \in FlowerName : k[f] = 0, scene \subseteq Player,
           NEW s \in FlowersRun(k), NEW f \in FlowerRecord, NEW aim, NEW v \in Nat
    PROVE  RunFlower(s, f, aim, v) \in FlowersRun(k)
<1>1. PICK me : me = f.name
  OBVIOUS
<1>2. me \in FlowerName /\ me \in Unit /\ me \notin Building /\ me \notin Player /\ k[me] = 0
  BY <1>1, Apart DEF FlowerRecord
<1>3. s.unit \in Units(k) /\ s.flowers \in Seq(FlowerRecord)
  BY DEF FlowersRun
<1>4. PICK r : r = RunFlower(s, f, aim, v)
  OBVIOUS
<1>5. CASE f.age > sDisappearTime \/ Dead(s.unit[me])
  <2>1. PICK w : w = [s.unit EXCEPT ![me] = NewUnit("none")]
    OBVIOUS
  <2>2. r = [s EXCEPT !.unit = w]
    BY <1>1, <1>4, <1>5, <2>1 DEF RunFlower
  <2>3. Good(me, NewUnit("none")) /\ NewUnit("none").kills = k[me]
    BY <1>2, NewIsGood DEF Team
  <2>4. w \in Units(k)
    BY <2>1, <2>3, <1>2, <1>3, OneChanges
  <2> QED
    BY <2>2, <2>4, <1>3, <1>4 DEF FlowersRun
<1>6. CASE ~(f.age > sDisappearTime \/ Dead(s.unit[me]))
  <2>1. PICK w : w = [s.unit EXCEPT ![me] = RunFlowerBufs(s.unit[me])]
    OBVIOUS
  <2>2. w \in Units(k)
    <3>1. Good(me, s.unit[me]) /\ s.unit[me].kills = k[me]
      BY <1>2, <1>3, EachIsGood
    <3>2. Good(me, RunFlowerBufs(s.unit[me])) /\ RunFlowerBufs(s.unit[me]).kills = k[me]
      BY <3>1, <1>2, RunBufsIsGood
    <3> QED
      BY <3>2, <2>1, <1>2, <1>3, OneChanges
  <2>3. CASE Strikes(w, f, aim)
    <3>1. aim \in Unit
      BY <2>3, Apart DEF Strikes
    <3>2. PICK z : z = OnEmitSkill(w, FlowerSkill, me, aim, v, {aim} \cap Player)
      OBVIOUS
    <3>3. z \in Units(k) \/ Credited(k, me, aim, w, z)
      BY <3>1, <3>2, <2>2, <1>2, EmitGives
    <3>4. z \in Units(k)
      BY <3>3, <1>2 DEF Credited
    <3>5. PICK g : g = [f EXCEPT !.idle = 0]
      OBVIOUS
    <3>6. g \in FlowerRecord
      BY <3>5 DEF FlowerRecord
    <3>7. PICK q : q = Append(s.flowers, g)
      OBVIOUS
    <3>8. q \in Seq(FlowerRecord)
      BY <3>6, <3>7, <1>3
    <3>9. r = [unit |-> z, flowers |-> q]
      BY <1>1, <1>4, <1>6, <2>1, <2>3, <3>2, <3>5, <3>7 DEF RunFlower
    <3> QED
      BY <3>4, <3>8, <3>9, <1>4 DEF FlowersRun
  <2>4. CASE ~Strikes(w, f, aim)
    <3>1. PICK q : q = Append(s.flowers, f)
      OBVIOUS
    <3>2. q \in Seq(FlowerRecord)
      BY <3>1, <1>3
    <3>3. r = [unit |-> w, flowers |-> q]
      BY <1>1, <1>4, <1>6, <2>1, <2>4, <3>1 DEF RunFlower
    <3> QED
      BY <3>2, <3>3, <2>2, <1>4 DEF FlowersRun
  <2> QED
    BY <2>3, <2>4
<1> QED
  BY <1>5, <1>6

\* c is whom the flowers aim at, and what their blows take.
RunOneFlower(c, s, f) == RunFlower(s, f, c[1][f.name], c[2])
Plants == INSTANCE FoldFacts WITH Op <- RunOneFlower

FlowersAfter(w, q, aim, v) ==
    FoldLeft(LAMBDA r, f : RunFlower(r, f, aim[f.name], v), [unit |-> w, flowers |-> <<>>], q)

LEMMA FlowersIsFold ==
    ASSUME NEW w, NEW q, NEW aim, NEW v
    PROVE  FlowersAfter(w, q, aim, v) = Plants!Folded(<<aim, v>>, [unit |-> w, flowers |-> <<>>], q)
BY DEF FlowersAfter, Plants!Folded, Plants!FoldLeft, Plants!MapThenFoldSet, FoldLeft, MapThenFoldSet,
       RunOneFlower, Max, Plants!Max

LEMMA FlowersKeep ==
    ASSUME NEW k \in [Unit -> Nat], \A f \in FlowerName : k[f] = 0, scene \subseteq Player,
           NEW w \in Units(k), NEW q \in Seq(FlowerRecord), NEW aim, NEW v \in Nat
    PROVE  FlowersAfter(w, q, aim, v) \in FlowersRun(k)
<1>1. PICK n, b : n = Len(q) /\ b = [unit |-> w, flowers |-> <<>>]
  OBVIOUS
<1>2. n \in Nat /\ DOMAIN q = 1..n /\ \A i \in 1..n : q[i] \in FlowerRecord
  BY <1>1
<1>3. b \in FlowersRun(k)
  <2>1. <<>> \in Seq(FlowerRecord)
    OBVIOUS
  <2> QED
    BY <2>1, <1>1 DEF FlowersRun
<1>4. ASSUME NEW i \in 1..n, NEW x \in FlowersRun(k)
      PROVE  RunOneFlower(<<aim, v>>, x, q[i]) \in FlowersRun(k)
  <2>1. PICK f : f = q[i]
    OBVIOUS
  <2>2. f \in FlowerRecord
    BY <2>1, <1>2
  <2>3. RunFlower(x, f, aim[f.name], v) \in FlowersRun(k)
    BY <2>2, RunFlowerOn
  <2> QED
    BY <2>1, <2>3 DEF RunOneFlower
<1>5. Plants!Folded(<<aim, v>>, b, q) \in FlowersRun(k)
  BY <1>2, <1>3, <1>4, Plants!FoldStaysIn
<1> QED
  BY <1>1, <1>5, FlowersIsFold

-----------------------------------------------------------------------------
(* The fighters                                                             *)

LEMMA ChosenIsGood ==
    ASSUME NEW u \in Player, NEW x, Good(u, x)
    PROVE  Good(u, Chosen(x)) /\ Chosen(x).kills = x.kills
<1>1. x \in UnitRecord /\ u \notin Building
  BY Apart DEF Good
<1>2. PICK y : y = InitUnit(x)
  OBVIOUS
<1>3. y \in UnitRecord /\ y.kills = x.kills /\ y.operation /\ y.canSkillHurt
  BY <1>1, <1>2 DEF InitUnit, UnitRecord
<1>4. PICK z : z = [y EXCEPT !.pet = TRUE, !.hp = PetHp, !.maxhp = PetHp, !.recent = 0,
                              !.bufs = <<>>, !.twice = {}]
  OBVIOUS
<1>5. z = Chosen(x)
  BY <1>2, <1>4 DEF Chosen
<1>6. <<>> \in Seq(BufRecord) /\ PetHp \in Nat
  BY Amounts
<1>7. z \in UnitRecord /\ z.bufs = <<>> /\ z.hp = PetHp /\ z.maxhp = PetHp /\ z.twice = {}
  BY <1>3, <1>4, <1>6 DEF UnitRecord
<1>8. z.kills = y.kills /\ z.operation = y.operation /\ z.canSkillHurt = y.canSkillHurt
  BY <1>3, <1>4 DEF UnitRecord
<1>9. HpOK(u, z)
  BY <1>1, <1>6, <1>7 DEF HpOK
<1>10. FlagsOK(z)
  BY <1>3, <1>7, <1>8 DEF FlagsOK, TwoAreNoted, HasType
<1> QED
  BY <1>3, <1>5, <1>7, <1>8, <1>9, <1>10 DEF Good, OneOfAnId

LEMMA FullHpIsGood ==
    ASSUME NEW u \in Player, NEW x, Good(u, x)
    PROVE  Good(u, FullHp(x)) /\ FullHp(x).kills = x.kills
<1>1. x \in UnitRecord /\ u \notin Building
  BY Apart DEF Good
<1>2. PICK h : h = IF x.pet THEN PetHp ELSE x.hp
  OBVIOUS
<1>3. h \in Nat /\ h <= x.maxhp
  BY <1>1, <1>2, Amounts DEF Good, HpOK, UnitRecord
<1>4. PICK y : y = [x EXCEPT !.hp = h]
  OBVIOUS
<1>5. y = FullHp(x)
  BY <1>2, <1>4 DEF FullHp
<1>6. y \in UnitRecord /\ y.hp = h
  BY <1>1, <1>3, <1>4 DEF UnitRecord
<1>7. /\ y.maxhp = x.maxhp /\ y.pet = x.pet /\ y.kills = x.kills /\ y.bufs = x.bufs
      /\ y.operation = x.operation /\ y.canSkillHurt = x.canSkillHurt /\ y.twice = x.twice
  BY <1>1, <1>4 DEF UnitRecord
<1>8. HpOK(u, y)
  BY <1>1, <1>3, <1>6, <1>7 DEF Good, HpOK
<1>9. FlagsOK(y)
  BY <1>1, <1>7 DEF Good, FlagsOK, HasType
<1> QED
  BY <1>5, <1>6, <1>7, <1>8, <1>9 DEF Good

LEMMA TeamIsGood ==
    ASSUME NEW u, NEW x, Good(u, x), NEW t \in Team
    PROVE  Good(u, [x EXCEPT !.team = t]) /\ [x EXCEPT !.team = t].kills = x.kills
<1>1. x \in UnitRecord
  BY DEF Good
<1>2. PICK y : y = [x EXCEPT !.team = t]
  OBVIOUS
<1>3. y \in UnitRecord
  BY <1>1, <1>2 DEF UnitRecord
<1>4. /\ y.maxhp = x.maxhp /\ y.pet = x.pet /\ y.kills = x.kills /\ y.bufs = x.bufs /\ y.hp = x.hp
      /\ y.operation = x.operation /\ y.canSkillHurt = x.canSkillHurt /\ y.twice = x.twice
  BY <1>1, <1>2 DEF UnitRecord
<1>5. HpOK(u, y)
  BY <1>4 DEF Good, HpOK
<1>6. u \notin Building => FlagsOK(y)
  BY <1>4 DEF Good, FlagsOK, HasType
<1> QED
  BY <1>2, <1>3, <1>4, <1>5, <1>6 DEF Good

LEMMA BuildingIsGood ==
    ASSUME NEW u \in Building, NEW x, Good(u, x)
    PROVE  Good(u, InitBuilding(x)) /\ InitBuilding(x).kills = x.kills
<1>1. x \in UnitRecord
  BY DEF Good
<1>2. PICK y : y = [x EXCEPT !.hp = BuildingHp]
  OBVIOUS
<1>3. y \in UnitRecord /\ y.hp = BuildingHp
  BY <1>1, <1>2, Amounts DEF UnitRecord
<1>4. /\ y.maxhp = x.maxhp /\ y.pet = x.pet /\ y.kills = x.kills /\ y.bufs = x.bufs
  BY <1>1, <1>2 DEF UnitRecord
<1>5. HpOK(u, y)
  BY <1>3, <1>4, Amounts DEF Good, HpOK
<1> QED
  BY <1>2, <1>3, <1>4, <1>5 DEF Good, InitBuilding

UnitsOK ==
    /\ unit \in [Unit -> UnitRecord]
    /\ \A u \in Unit : Good(u, unit[u])
    /\ \A f \in FlowerName : unit[f].kills = 0
    /\ scene \subseteq Player
    /\ flowers \in Seq(FlowerRecord)

\* What one step may do to the kills.
KillsAreDeaths ==
    \A p \in Player :
        unit'[p].kills > unit[p].kills =>
            /\ unit'[p].kills = unit[p].kills + 1
            /\ \E q \in scene : /\ ~Dead(unit[q]) /\ Dead(unit'[q])
                                /\ unit[q].team # unit[p].team

LEMMA AllHaveKills ==
    ASSUME UnitsOK, NEW k, k = [u \in Unit |-> unit[u].kills]
    PROVE  /\ unit \in Units(k) /\ k \in [Unit -> Nat]
           /\ \A f \in FlowerName : k[f] = 0
<1>1. \A u \in Unit : unit[u].kills \in Nat
  BY DEF UnitsOK, UnitRecord
<1>2. unit \in Units(k)
  BY DEF UnitsOK, Units
<1> QED
  BY <1>1, <1>2, Apart DEF UnitsOK

\* A step that leaves the kills alone, or makes them fewer.
LEMMA NoMoreKills ==
    ASSUME UnitsOK, NEW k, unit' \in Units(k), \A u \in Unit : k[u] = unit[u].kills \/ k[u] = 0
    PROVE  /\ unit' \in [Unit -> UnitRecord]
           /\ \A u \in Unit : Good(u, unit'[u])
           /\ \A f \in FlowerName : unit'[f].kills = 0
           /\ KillsAreDeaths
<1>1. \A u \in Unit : Good(u, unit'[u]) /\ unit'[u].kills = k[u]
  BY DEF Units
<1>2. \A p \in Player : unit'[p].kills = unit[p].kills \/ unit'[p].kills = 0
  BY <1>1, Apart
<1>3. \A p \in Player : unit[p].kills \in Nat
  BY Apart DEF UnitsOK, UnitRecord
<1>4. KillsAreDeaths
  BY <1>2, <1>3 DEF KillsAreDeaths
<1>5. \A f \in FlowerName : unit'[f].kills = 0
  BY <1>1, Apart DEF UnitsOK
<1>6. unit' \in [Unit -> UnitRecord]
  BY DEF Units
<1> QED
  BY <1>1, <1>4, <1>5, <1>6

LEMMA TargetsAreUnits ==
    ASSUME UnitsOK
    PROVE  /\ Target \subseteq Unit
           /\ \A p \in Target : p \in Player => p \in scene
           /\ FlowersNamed \subseteq FlowerName
<1>1. \A i \in DOMAIN flowers : flowers[i] \in FlowerRecord
  BY DEF UnitsOK
<1>2. FlowersNamed \subseteq FlowerName
  BY <1>1 DEF FlowersNamed, FlowerRecord
<1> QED
  BY <1>2, Apart DEF UnitsOK, Target

LEMMA UseSkillKeeps ==
    ASSUME UnitsOK, NEW p \in Player, NEW s \in Skill, NEW target \in Unit, OnUseSkill(p, s, target)
    PROVE  UnitsOK' /\ KillsAreDeaths
<1>1. PICK k : k = [u \in Unit |-> unit[u].kills]
  OBVIOUS
<1>2. PICK v \in AttackValue, near \in SUBSET scene : unit' = OnEmitSkill(unit, s, p, target, v, near)
  BY DEF OnUseSkill
<1>3. /\ target \in Target /\ ~Dead(unit[target]) /\ unit[target].team # unit[p].team
      /\ scene' = scene /\ flowers' = flowers
  BY DEF OnUseSkill
<1>4. v \in Nat /\ p \in Unit
  BY Amounts, Apart
<1>5. unit \in Units(k) /\ k \in [Unit -> Nat]
  BY <1>1, AllHaveKills
<1>6. unit' \in Units(k) \/ Credited(k, p, target, unit, unit')
  <2>1. PICK z : z = unit'
    OBVIOUS
  <2>2. z = OnEmitSkill(unit, s, p, target, v, near)
    BY <2>1, <1>2
  <2>3. z \in Units(k) \/ Credited(k, p, target, unit, z)
    BY <2>2, <1>4, <1>5, EmitGives
  <2> QED
    BY <2>1, <2>3
<1>7. CASE unit' \in Units(k)
  <2>1. \A u \in Unit : k[u] = unit[u].kills \/ k[u] = 0
    BY <1>1
  <2> QED
    BY <2>1, <1>3, <1>7, NoMoreKills DEF UnitsOK
<1>8. CASE Credited(k, p, target, unit, unit')
  <2>1. PICK m : m = [k EXCEPT ![p] = @ + 1]
    OBVIOUS
  <2>2. unit' \in Units(m) /\ target \in Player /\ Dead(unit'[target])
    BY <2>1, <1>8 DEF Credited
  <2>3. unit' \in [Unit -> UnitRecord] /\ \A u \in Unit : Good(u, unit'[u]) /\ unit'[u].kills = m[u]
    BY <2>2 DEF Units
  <2>4. \A u \in Unit : m[u] = IF u = p THEN unit[u].kills + 1 ELSE unit[u].kills
    BY <2>1, <1>1, <1>4, <1>5
  <2>5. \A f \in FlowerName : unit'[f].kills = 0
    BY <2>3, <2>4, Apart DEF UnitsOK
  <2>6. UnitsOK'
    BY <2>3, <2>5, <1>3 DEF UnitsOK
  <2>7. target \in scene
    BY <2>2, <1>3, TargetsAreUnits
  <2>8. \A q \in Player : unit[q].kills \in Nat
    BY Apart DEF UnitsOK, UnitRecord
  <2>9. ASSUME NEW q \in Player, unit'[q].kills > unit[q].kills
        PROVE  q = p /\ unit'[q].kills = unit[q].kills + 1
    BY <2>3, <2>4, <2>8, <2>9, Apart
  <2>10. KillsAreDeaths
    BY <2>2, <2>7, <2>9, <1>3 DEF KillsAreDeaths
  <2> QED
    BY <2>6, <2>10
<1> QED
  BY <1>6, <1>7, <1>8

LEMMA SelectPetKeeps ==
    ASSUME UnitsOK, NEW p \in Player, OnSelectPet(p)
    PROVE  UnitsOK' /\ KillsAreDeaths
<1>1. PICK k : k = [u \in Unit |-> unit[u].kills]
  OBVIOUS
<1>2. unit \in Units(k) /\ p \in Unit /\ Good(p, unit[p])
  BY <1>1, AllHaveKills, Apart DEF UnitsOK
<1>3. PICK y : y = Chosen(unit[p])
  OBVIOUS
<1>4. Good(p, y) /\ y.kills = k[p]
  BY <1>1, <1>2, <1>3, ChosenIsGood
<1>5. unit' = [unit EXCEPT ![p] = y] /\ scene' = scene /\ flowers' = flowers
  BY <1>3 DEF OnSelectPet
<1>6. unit' \in Units(k)
  BY <1>2, <1>4, <1>5, OneChanges
<1>7. \A u \in Unit : k[u] = unit[u].kills \/ k[u] = 0
  BY <1>1
<1> QED
  BY <1>5, <1>6, <1>7, NoMoreKills DEF UnitsOK

LEMMA UseItemKeeps ==
    ASSUME UnitsOK, NEW p \in Player, NEW item \in ItemId \cup {NoItem}, OnUseItem(p, item)
    PROVE  UnitsOK' /\ KillsAreDeaths
<1>1. PICK k : k = [u \in Unit |-> unit[u].kills]
  OBVIOUS
<1>2. unit \in Units(k) /\ p \in Unit /\ Good(p, unit[p])
  BY <1>1, AllHaveKills, Apart DEF UnitsOK
<1>3. PICK w : w = IF item = 1 /\ p \in pScene THEN [unit EXCEPT ![p] = FullHp(unit[p])] ELSE unit
  OBVIOUS
<1>4. w \in Units(k)
  <2>1. Good(p, FullHp(unit[p])) /\ FullHp(unit[p]).kills = k[p]
    BY <1>1, <1>2, FullHpIsGood
  <2>2. [unit EXCEPT ![p] = FullHp(unit[p])] \in Units(k)
    BY <2>1, <1>2, OneChanges
  <2> QED
    BY <2>2, <1>2, <1>3
<1>5. /\ unit' = IF item = NoItem THEN unit ELSE EffectsOf(w, ItemBufs[item], p, Nobody, {})
      /\ scene' = scene /\ flowers' = flowers
  BY <1>3 DEF OnUseItem, ItemEffect, EffectsOf
<1>6. item # NoItem => /\ ItemBufs[item] \in Seq(BufId)
                       /\ \A i \in DOMAIN ItemBufs[item] : TypeOf[ItemBufs[item][i]] \in ForMe
  BY BufsOfItems DEF ForMe
<1>7. unit' \in Units(k)
  BY <1>2, <1>4, <1>5, <1>6, EffectsKeep
<1>8. \A u \in Unit : k[u] = unit[u].kills \/ k[u] = 0
  BY <1>1
<1> QED
  BY <1>5, <1>7, <1>8, NoMoreKills DEF UnitsOK

LEMMA PlantKeeps ==
    ASSUME UnitsOK, NEW p \in Player, OnPlantFlower(p)
    PROVE  UnitsOK' /\ KillsAreDeaths
<1>1. PICK k : k = [u \in Unit |-> unit[u].kills]
  OBVIOUS
<1>2. unit \in Units(k) /\ p \in Unit /\ \A f \in FlowerName : k[f] = 0
  BY <1>1, AllHaveKills, Apart
<1>3. PICK f \in FlowerName :
          /\ unit' = [unit EXCEPT ![f] = NewFlower(unit[p].team)]
          /\ flowers' = Append(flowers, [name |-> f, age |-> 0, idle |-> sUseSkillTimes + 1])
  BY DEF OnPlantFlower
<1>4. scene' = scene
  BY DEF OnPlantFlower
<1>5. unit[p].team \in Team
  BY <1>2 DEF UnitsOK, UnitRecord
<1>6. f \in Unit /\ Good(f, NewFlower(unit[p].team)) /\ NewFlower(unit[p].team).kills = k[f]
  BY <1>2, <1>5, Apart, NewIsGood
<1>7. unit' \in Units(k)
  BY <1>2, <1>3, <1>6, OneChanges
<1>8. \A u \in Unit : k[u] = unit[u].kills \/ k[u] = 0
  BY <1>1
<1>9. flowers' \in Seq(FlowerRecord)
  <2>1. PICK g : g = [name |-> f, age |-> 0, idle |-> sUseSkillTimes + 1]
    OBVIOUS
  <2>2. sUseSkillTimes + 1 \in Nat
    BY SMTT(30), Amounts
  <2>3. g \in FlowerRecord
    BY <2>1, <2>2 DEF FlowerRecord
  <2>4. flowers' = Append(flowers, g) /\ flowers \in Seq(FlowerRecord)
    BY <2>1, <1>3 DEF UnitsOK
  <2> QED
    BY <2>3, <2>4
<1> QED
  BY <1>4, <1>7, <1>8, <1>9, NoMoreKills DEF UnitsOK

LEMMA PickUpKeeps ==
    ASSUME UnitsOK, NEW p \in Player, OnPickUpItem(p)
    PROVE  UnitsOK' /\ KillsAreDeaths
<1>1. unit' = unit /\ scene' = scene /\ flowers' = flowers
  BY DEF OnPickUpItem
<1>2. \A q \in Player : ~(unit[q].kills > unit[q].kills)
  BY Apart DEF UnitsOK, UnitRecord
<1>3. KillsAreDeaths
  BY <1>1, <1>2 DEF KillsAreDeaths
<1>4. UnitsOK'
  BY <1>1 DEF UnitsOK
<1> QED
  BY <1>3, <1>4

LEMMA EnterKeeps ==
    ASSUME UnitsOK, NEW p \in Player,
           \/ \E t \in Team \ {"none"} : Enter(p, t)
           \/ Exit(p)
    PROVE  UnitsOK' /\ KillsAreDeaths
<1>1. PICK k : k = [u \in Unit |-> unit[u].kills]
  OBVIOUS
<1>2. unit \in Units(k) /\ p \in Unit /\ Good(p, unit[p])
  BY <1>1, AllHaveKills, Apart DEF UnitsOK
<1>3. PICK t \in Team : unit' = [unit EXCEPT ![p].team = t]
  BY DEF Enter, Exit, Team
<1>4. scene' \subseteq Player /\ flowers' = flowers
  BY DEF Enter, Exit, UnitsOK
<1>5. PICK y : y = [unit[p] EXCEPT !.team = t]
  OBVIOUS
<1>6. Good(p, y) /\ y.kills = k[p]
  BY <1>1, <1>2, <1>5, TeamIsGood
<1>7. unit' = [unit EXCEPT ![p] = y]
  BY <1>3, <1>5
<1>8. unit' \in Units(k)
  BY <1>2, <1>6, <1>7, OneChanges
<1>9. \A u \in Unit : k[u] = unit[u].kills \/ k[u] = 0
  BY <1>1
<1> QED
  BY <1>4, <1>8, <1>9, NoMoreKills DEF UnitsOK

LEMMA ReloginKeeps ==
    ASSUME UnitsOK, NEW p \in Player, Relogin(p)
    PROVE  UnitsOK' /\ KillsAreDeaths
<1>1. PICK k, m : k = [u \in Unit |-> unit[u].kills] /\ m = [k EXCEPT ![p] = 0]
  OBVIOUS
<1>2. unit \in Units(k) /\ p \in Unit /\ k \in [Unit -> Nat]
  BY <1>1, AllHaveKills, Apart
<1>3. PICK y : y = NewUnit("none")
  OBVIOUS
<1>4. Good(p, y) /\ y.kills = 0 /\ y \in UnitRecord
  BY <1>2, <1>3, NewIsGood DEF Team, Good
<1>5. unit' = [unit EXCEPT ![p] = y] /\ scene' \subseteq Player /\ flowers' = flowers
  BY <1>3 DEF Relogin, UnitsOK
<1>6. \A u \in Unit : m[u] = IF u = p THEN 0 ELSE unit[u].kills
  BY <1>1, <1>2
<1>7. unit' \in [Unit -> UnitRecord] /\ \A u \in Unit : unit'[u] = IF u = p THEN y ELSE unit[u]
  BY <1>2, <1>4, <1>5 DEF UnitsOK
<1>8. \A u \in Unit : Good(u, unit'[u]) /\ unit'[u].kills = m[u]
  BY <1>4, <1>6, <1>7 DEF UnitsOK
<1>9. unit' \in Units(m)
  BY <1>7, <1>8 DEF Units
<1>10. \A u \in Unit : m[u] = unit[u].kills \/ m[u] = 0
  BY <1>6
<1> QED
  BY <1>5, <1>9, <1>10, NoMoreKills DEF UnitsOK

LEMMA SceneRunKeeps ==
    ASSUME UnitsOK, SceneRun
    PROVE  UnitsOK' /\ KillsAreDeaths
<1>1. PICK k : k = [u \in Unit |-> unit[u].kills]
  OBVIOUS
<1>2. unit \in Units(k) /\ k \in [Unit -> Nat] /\ \A f \in FlowerName : k[f] = 0
  BY <1>1, AllHaveKills
<1>3. PICK q : q = [i \in DOMAIN flowers |-> OlderFlower(flowers[i])]
  OBVIOUS
<1>4. q \in Seq(FlowerRecord)
  <2>1. PICK n : n = Len(flowers)
    OBVIOUS
  <2>2. n \in Nat /\ DOMAIN flowers = 1..n /\ \A i \in 1..n : flowers[i] \in FlowerRecord
    BY <2>1 DEF UnitsOK
  <2>3. ASSUME NEW f \in FlowerRecord
        PROVE  OlderFlower(f) \in FlowerRecord
    <3>1. PICK a, b : a = Least(f.age + 1, sDisappearTime + 1) /\ b = Least(f.idle + 1, sUseSkillTimes + 1)
      OBVIOUS
    <3>5. f.age \in Nat /\ f.idle \in Nat
      BY DEF FlowerRecord
    <3>6. sDisappearTime \in Nat /\ sUseSkillTimes \in Nat
      BY Amounts
    <3>2. f.age + 1 \in Nat /\ f.idle + 1 \in Nat /\ sDisappearTime + 1 \in Nat /\ sUseSkillTimes + 1 \in Nat
      BY <3>5, <3>6
    <3>3. a \in Nat /\ b \in Nat
      BY <3>1, <3>2, LeastIsNat
    <3>4. OlderFlower(f) = [f EXCEPT !.age = a, !.idle = b]
      BY <3>1 DEF OlderFlower
    <3> QED
      BY <3>3, <3>4 DEF FlowerRecord
  <2>4. \A i \in 1..n : q[i] \in FlowerRecord
    BY <2>2, <2>3, <1>3
  <2>5. q = [i \in 1..n |-> q[i]]
    BY <2>2, <1>3
  <2> QED
    BY <2>1, <2>2, <2>4, <2>5
<1>5. PICK w : w = RunPlayers([u \in Unit |-> Older(unit[u])])
  OBVIOUS
<1>6. w \in Units(k)
  <2>1. scene \subseteq Player
    BY DEF UnitsOK
  <2>2. [u \in Unit |-> Older(unit[u])] \in Units(k)
    BY <2>1, <1>2, RunPlayersKeeps
  <2> QED
    BY <2>1, <2>2, <1>5, RunPlayersKeeps
<1>7. PICK aim \in [FlowersNamed -> scene \cup Building \cup {Nobody}], v \in AttackValue :
          /\ unit' = FlowersAfter(w, q, aim, v).unit
          /\ flowers' = FlowersAfter(w, q, aim, v).flowers
  BY <1>3, <1>5 DEF SceneRun, FlowersAfter
<1>14. PICK s : s = FlowersAfter(w, q, aim, v)
  OBVIOUS
<1>8. s \in FlowersRun(k) /\ scene' = scene
  <2>1. scene \subseteq Player /\ v \in Nat
    BY Amounts DEF UnitsOK
  <2> QED
    BY <2>1, <1>2, <1>4, <1>6, <1>14, FlowersKeep DEF SceneRun
<1>9. unit' \in Units(k) /\ flowers' \in Seq(FlowerRecord)
  BY <1>7, <1>8, <1>14 DEF FlowersRun
<1>11. \A u \in Unit : k[u] = unit[u].kills \/ k[u] = 0
  BY <1>1
<1>12. scene' \subseteq Player
  BY <1>8 DEF UnitsOK
<1>13. /\ unit' \in [Unit -> UnitRecord]
       /\ \A u \in Unit : Good(u, unit'[u])
       /\ \A f \in FlowerName : unit'[f].kills = 0
       /\ KillsAreDeaths
  BY <1>9, <1>11, NoMoreKills
<1> QED
  BY <1>9, <1>12, <1>13 DEF UnitsOK

LEMMA CloseKeeps ==
    ASSUME UnitsOK, Close
    PROVE  UnitsOK' /\ KillsAreDeaths
<1>1. PICK k : k = [u \in Unit |-> unit[u].kills]
  OBVIOUS
<1>2. \A f \in FlowerName : k[f] = 0
  BY <1>1, AllHaveKills
<1>3. unit' = [u \in Unit |-> CASE u \in scene      -> [unit[u] EXCEPT !.team = "none"]
                                [] u \in FlowerName -> NewUnit("none")
                                [] u \in Building   -> InitBuilding(unit[u])
                                [] OTHER            -> unit[u]]
  BY DEF Close
<1>4. ASSUME NEW u \in Unit
      PROVE  Good(u, unit'[u]) /\ unit'[u].kills = k[u] /\ unit'[u] \in UnitRecord
  <2>1. Good(u, unit[u]) /\ unit[u].kills = k[u]
    BY <1>1 DEF UnitsOK
  <2>2. CASE u \in scene
    <3>1. u \notin FlowerName /\ u \notin Building
      BY <2>2, Apart DEF UnitsOK
    <3>2. unit'[u] = [unit[u] EXCEPT !.team = "none"]
      BY <3>1, <2>2, <1>3
    <3>3. "none" \in Team
      BY DEF Team
    <3> QED
      BY <3>2, <3>3, <2>1, TeamIsGood DEF Good
  <2>3. CASE u \in FlowerName
    <3>1. u \notin scene /\ u \notin Building
      BY <2>3, Apart DEF UnitsOK
    <3>2. unit'[u] = NewUnit("none")
      BY <3>1, <2>3, <1>3
    <3>3. "none" \in Team /\ k[u] = 0
      BY <2>3, <1>2 DEF Team
    <3>4. Good(u, NewUnit("none")) /\ NewUnit("none").kills = 0
      BY <3>3, NewIsGood
    <3> QED
      BY <3>2, <3>3, <3>4 DEF Good
  <2>4. CASE u \in Building
    <3>1. u \notin scene /\ u \notin FlowerName
      BY <2>4, Apart DEF UnitsOK
    <3>2. unit'[u] = InitBuilding(unit[u])
      BY <3>1, <2>4, <1>3
    <3> QED
      BY <3>2, <2>1, <2>4, BuildingIsGood DEF Good
  <2>5. CASE u \notin scene \cup FlowerName \cup Building
    <3>1. unit'[u] = unit[u]
      BY <2>5, <1>3
    <3> QED
      BY <3>1, <2>1 DEF Good
  <2> QED
    BY <2>2, <2>3, <2>4, <2>5
<1>5. DOMAIN unit' = Unit /\ unit' = [u \in Unit |-> unit'[u]]
  BY <1>3
<1>6. unit' \in [Unit -> UnitRecord]
  BY <1>4, <1>5
<1>7. unit' \in Units(k)
  BY <1>4, <1>6 DEF Units
<1>8. \A u \in Unit : k[u] = unit[u].kills \/ k[u] = 0
  BY <1>1
<1>9. scene' \subseteq Player /\ flowers' \in Seq(FlowerRecord)
  <2>1. scene' = {} /\ flowers' = <<>>
    BY DEF Close
  <2> QED
    BY <2>1
<1> QED
  BY <1>7, <1>8, <1>9, NoMoreKills DEF UnitsOK

LEMMA UnitsInit == CombatInit => UnitsOK
<1> SUFFICES ASSUME CombatInit PROVE UnitsOK
  OBVIOUS
<1>1. unit = [u \in Unit |-> IF u \in Building THEN InitBuilding(NewUnit(TeamOf(u))) ELSE NewUnit("none")]
  BY DEF CombatInit
<1>2. ASSUME NEW u \in Unit
      PROVE  Good(u, unit[u]) /\ unit[u].kills = 0 /\ unit[u] \in UnitRecord
  <2>1. "none" \in Team /\ TeamOf(u) \in Team
    BY DEF TeamOf, Team
  <2>2. CASE u \in Building
    <3>1. unit[u] = InitBuilding(NewUnit(TeamOf(u)))
      BY <1>1, <2>2
    <3> QED
      BY <3>1, <2>1, <2>2, NewIsGood DEF Good
  <2>3. CASE u \notin Building
    <3>1. unit[u] = NewUnit("none")
      BY <1>1, <2>3
    <3> QED
      BY <3>1, <2>1, NewIsGood DEF Good
  <2> QED
    BY <2>2, <2>3
<1>3. DOMAIN unit = Unit /\ unit = [u \in Unit |-> unit[u]]
  BY <1>1
<1>4. unit \in [Unit -> UnitRecord]
  BY <1>2, <1>3
<1>5. scene \subseteq Player /\ flowers \in Seq(FlowerRecord)
  <2>1. scene = {} /\ flowers = <<>>
    BY DEF CombatInit
  <2> QED
    BY <2>1
<1> QED
  BY <1>2, <1>4, <1>5, Apart DEF UnitsOK

LEMMA UnitsStep ==
    ASSUME UnitsOK, [CombatNext]_combatVars
    PROVE  UnitsOK' /\ (KillsAreDeaths \/ unit' = unit)
<1>1. CASE UNCHANGED combatVars
  BY <1>1 DEF combatVars, UnitsOK
<1>2. ASSUME NEW p \in Player,
             \/ \E s \in Skill, target \in Unit : OnUseSkill(p, s, target)
             \/ OnSelectPet(p)
             \/ \E item \in ItemId \cup {NoItem} : OnUseItem(p, item)
             \/ OnPlantFlower(p)
             \/ OnPickUpItem(p)
             \/ \E t \in Team \ {"none"} : Enter(p, t)
             \/ Exit(p)
             \/ Relogin(p)
      PROVE  UnitsOK' /\ KillsAreDeaths
  BY <1>2, UseSkillKeeps, SelectPetKeeps, UseItemKeeps, PlantKeeps, PickUpKeeps, EnterKeeps, ReloginKeeps
<1> QED
  BY <1>1, <1>2, SceneRunKeeps, CloseKeeps DEF CombatNext

-----------------------------------------------------------------------------
(* Packages                                                                 *)

Taken(k) == {i \in 1..sMaxItemNum : k.items[i] # NoItem}

PackOK(k) ==
    /\ k \in [items : [1..sMaxItemNum -> Nat], num : Int, wasted : Nat]
    /\ k.num + k.wasted = Cardinality(Taken(k))

LEMMA TakenIsFinite == ASSUME NEW k PROVE IsFiniteSet(Taken(k))
<1>1. 0 \in Int /\ 1 \in Int /\ sMaxItemNum \in Int
  BY Amounts
<1>2. IsFiniteSet(1..sMaxItemNum)
  BY <1>1, FS_Interval
<1>3. Taken(k) \in SUBSET (1..sMaxItemNum)
  BY DEF Taken
<1> QED
  BY <1>2, <1>3, FS_Subset

\* The places from the first: the first with the item.
LEMMA FirstPlaceHasIt ==
    ASSUME NEW k, NEW item, HasItem(k, item)
    PROVE  FirstPlace(k, item) \in 1..sMaxItemNum /\ k.items[FirstPlace(k, item)] = item
<1> DEFINE At(i) == k.items[i] = item
           First(i) == At(i) /\ \A j \in 1..(i - 1) : ~At(j)
           T == {m \in Nat : (\E i \in 1..m : At(i)) => \E i \in 1..m : First(i)}
<1>1. 0 \in T
  OBVIOUS
<1>2. ASSUME NEW m \in Nat, m \in T
      PROVE  m + 1 \in T
  <2>1. CASE \E i \in 1..m : At(i)
    <3>1. PICK i \in 1..m : First(i)
      BY <2>1, <1>2
    <3> QED
      BY <3>1
  <2>2. CASE ~\E i \in 1..m : At(i)
    <3>1. SUFFICES ASSUME NEW i \in 1..(m + 1), At(i)
                   PROVE  \E j \in 1..(m + 1) : First(j)
      OBVIOUS
    <3>2. i = m + 1 /\ (m + 1) - 1 = m
      BY <2>2, <3>1
    <3>3. First(m + 1)
      BY <2>2, <3>1, <3>2
    <3> QED
      BY <3>3
  <2> QED
    BY <2>1, <2>2
<1>3. sMaxItemNum \in T
  <2>1. Nat \subseteq T
    <3> HIDE DEF T
    <3> QED
      BY <1>1, <1>2, Bufs!SetInduction
  <2> QED
    BY <2>1, Amounts
<1>4. PICK i \in 1..sMaxItemNum : First(i)
  BY <1>3 DEF HasItem
<1>5. k.items[i] = item /\ \A j \in 1..(i - 1) : k.items[j] # item
  BY <1>4
<1> QED
  BY <1>5 DEF FirstPlace

LEMMA DelItemCounts ==
    ASSUME NEW k, PackOK(k), NEW item, HasItem(k, item)
    PROVE  PackOK(DelItem(k, item))
<1>1. PICK i : i = FirstPlace(k, item)
  OBVIOUS
<1>2. i \in 1..sMaxItemNum /\ k.items[i] = item
  BY <1>1, FirstPlaceHasIt
<1>3. /\ k \in [items : [1..sMaxItemNum -> Nat], num : Int, wasted : Nat]
      /\ k.num + k.wasted = Cardinality(Taken(k))
      /\ k.items \in [1..sMaxItemNum -> Nat] /\ k.num \in Int /\ k.wasted \in Nat
  BY DEF PackOK
<1>4. PICK f, g : f = [k.items EXCEPT ![i] = NoItem] /\ g = IF item = NoItem THEN k.wasted + 1 ELSE k.wasted
  OBVIOUS
<1>5. /\ f \in [1..sMaxItemNum -> Nat] /\ g \in Nat
      /\ \A j \in 1..sMaxItemNum : f[j] = IF j = i THEN NoItem ELSE k.items[j]
  <2>1. NoItem \in Nat
    BY DEF NoItem
  <2>2. f \in [1..sMaxItemNum -> Nat] /\ \A j \in 1..sMaxItemNum : f[j] = IF j = i THEN NoItem ELSE k.items[j]
    BY <2>1, <1>2, <1>3, <1>4
  <2>3. g \in Nat
    BY <1>3, <1>4
  <2> QED
    BY <2>2, <2>3
<1>6. PICK z : z = [k EXCEPT !.items = f, !.num = k.num - 1, !.wasted = g]
  OBVIOUS
<1>7. z = DelItem(k, item)
  BY <1>1, <1>3, <1>4, <1>6 DEF DelItem
<1>8. /\ z \in [items : [1..sMaxItemNum -> Nat], num : Int, wasted : Nat]
      /\ z.items = f /\ z.num = k.num - 1 /\ z.wasted = g
  <2>1. k.num - 1 \in Int
    BY <1>3
  <2> QED
    BY <2>1, <1>3, <1>5, <1>6
<1>9. Taken(z) = Taken(k) \ {i} /\ (i \in Taken(k) <=> item # NoItem)
  BY <1>2, <1>5, <1>8 DEF Taken
<1>10. IsFiniteSet(Taken(k)) /\ Cardinality(Taken(k)) \in Nat
  BY TakenIsFinite, FS_CardinalityType
<1>11. Cardinality(Taken(z)) = IF item = NoItem THEN Cardinality(Taken(k)) ELSE Cardinality(Taken(k)) - 1
  <2>1. CASE item = NoItem
    <3>1. Taken(z) = Taken(k)
      BY <2>1, <1>9
    <3> QED
      BY <3>1, <2>1
  <2>2. CASE item # NoItem
    BY <2>2, <1>9, <1>10, FS_RemoveElement
  <2> QED
    BY <2>1, <2>2
<1>12. z.num + z.wasted = Cardinality(Taken(z))
  <2>1. k.num \in Int /\ k.wasted \in Nat
    BY <1>3
  <2> QED
    BY <2>1, <1>3, <1>4, <1>8, <1>10, <1>11
<1> QED
  BY <1>7, <1>8, <1>12 DEF PackOK

LEMMA AddItemCounts ==
    ASSUME NEW k, PackOK(k), NEW item \in ItemId, HasItem(k, NoItem)
    PROVE  PackOK(AddItem(k, item))
<1>1. PICK i : i = FirstPlace(k, NoItem)
  OBVIOUS
<1>2. i \in 1..sMaxItemNum /\ k.items[i] = NoItem
  BY <1>1, FirstPlaceHasIt
<1>3. /\ k \in [items : [1..sMaxItemNum -> Nat], num : Int, wasted : Nat]
      /\ k.num + k.wasted = Cardinality(Taken(k))
      /\ k.items \in [1..sMaxItemNum -> Nat] /\ k.num \in Int /\ k.wasted \in Nat
  BY DEF PackOK
<1>4. PICK f : f = [k.items EXCEPT ![i] = item]
  OBVIOUS
<1>5. item \in Nat /\ item # NoItem
  BY DEF ItemId, NoItem
<1>6. f \in [1..sMaxItemNum -> Nat] /\ \A j \in 1..sMaxItemNum : f[j] = IF j = i THEN item ELSE k.items[j]
  BY <1>2, <1>3, <1>4, <1>5
<1>7. PICK z : z = [k EXCEPT !.items = f, !.num = k.num + 1]
  OBVIOUS
<1>8. z = AddItem(k, item)
  BY <1>1, <1>3, <1>4, <1>7 DEF AddItem
<1>12. /\ z \in [items : [1..sMaxItemNum -> Nat], num : Int, wasted : Nat]
       /\ z.items = f /\ z.num = k.num + 1 /\ z.wasted = k.wasted
  <2>1. k.num + 1 \in Int
    BY <1>3
  <2> QED
    BY <2>1, <1>3, <1>6, <1>7
<1>9. Taken(z) = Taken(k) \cup {i}
  BY <1>2, <1>5, <1>6, <1>12 DEF Taken
<1>10. i \notin Taken(k) /\ IsFiniteSet(Taken(k))
  BY <1>2, TakenIsFinite DEF Taken
<1>11. Cardinality(Taken(z)) = Cardinality(Taken(k)) + 1
  BY <1>9, <1>10, FS_AddElement
<1>13. z.num + z.wasted = Cardinality(Taken(z))
  <2>1. k.num \in Int /\ k.wasted \in Nat
    BY <1>3
  <2> QED
    BY <2>1, <1>3, <1>11, <1>12
<1> QED
  BY <1>8, <1>12, <1>13 DEF PackOK

LEMMA NewPackageCounts == PackOK(NewPackage)
<1>1. Taken(NewPackage) = {}
  BY DEF Taken, NewPackage
<1>2. Cardinality(Taken(NewPackage)) = 0
  BY <1>1, FS_EmptySet
<1> QED
  BY <1>2 DEF PackOK, NewPackage, NoItem

PacksOK ==
    /\ DOMAIN pack = Player
    /\ \A p \in Player : PackOK(pack[p])
    /\ \A g \in ground : g.item \in ItemId
    /\ left \subseteq Nat

LEMMA ItemsDrop == ASSUME NEW k \in Nat PROVE ItemIdOf(k) \in ItemId
<1>1. sItemNum \in Nat \ {0}
  BY Amounts
<1>2. k % sItemNum \in 0..(sItemNum - 1)
  BY <1>1
<1> QED
  BY <1>1, <1>2 DEF ItemIdOf, ItemId

\* The package of one player changes.
LEMMA OnePackChanges ==
    ASSUME PacksOK, NEW p \in Player, NEW k, PackOK(k), pack' = [pack EXCEPT ![p] = k],
           ground' \subseteq ground, left' = left
    PROVE  PacksOK'
<1>1. DOMAIN pack' = Player /\ \A q \in Player : pack'[q] = IF q = p THEN k ELSE pack[q]
  BY DEF PacksOK
<1>2. \A q \in Player : PackOK(pack'[q])
  BY <1>1 DEF PacksOK
<1> QED
  BY <1>1, <1>2 DEF PacksOK

LEMMA PacksStep ==
    ASSUME PacksOK, [CombatNext]_combatVars
    PROVE  PacksOK'
<1>1. CASE pack' = pack /\ ground' = ground /\ left' = left
  BY <1>1 DEF PacksOK
<1>2. CASE pack' = pack /\ RunDrops
  <2>1. CASE ground' = ground /\ left' = left
    BY <2>1, <1>2 DEF PacksOK
  <2>2. CASE DropDue
    <3>1. PICK j \in DOMAIN free, i \in left :
              /\ ground' = ground \cup {[point |-> free[j], item |-> ItemIdOf(i)]}
              /\ left' = left \ {i}
      BY <2>2, <1>2 DEF RunDrops
    <3>2. ItemIdOf(i) \in ItemId
      BY ItemsDrop DEF PacksOK
    <3> QED
      BY <3>1, <3>2, <1>2 DEF PacksOK
  <2> QED
    BY <2>1, <2>2, <1>2 DEF RunDrops
<1>3. ASSUME NEW p \in Player, NEW item,
             OnUseItem(p, item) \/ (item = Seed /\ OnPlantFlower(p))
      PROVE  PacksOK'
  <2>1. HasItem(pack[p], item) /\ pack' = [pack EXCEPT ![p] = DelItem(pack[p], item)]
    BY <1>3 DEF OnUseItem, OnPlantFlower
  <2>2. PackOK(DelItem(pack[p], item))
    BY <2>1, DelItemCounts DEF PacksOK
  <2>3. ground' = ground /\ left' = left
    BY <1>3 DEF OnUseItem, OnPlantFlower, dropVars
  <2> QED
    BY <2>1, <2>2, <2>3, OnePackChanges
<1>4. ASSUME NEW p \in Player, OnPickUpItem(p)
      PROVE  PacksOK'
  <2>1. PICK g \in ground : HasItem(pack[p], NoItem) /\ PickUp(p, g) /\ left' = left
    BY <1>4 DEF OnPickUpItem
  <2>2. PackOK(AddItem(pack[p], g.item))
    BY <2>1, AddItemCounts DEF PacksOK
  <2>3. pack' = [pack EXCEPT ![p] = AddItem(pack[p], g.item)] /\ ground' \subseteq ground
    BY <2>1 DEF PickUp
  <2> QED
    BY <2>1, <2>2, <2>3, OnePackChanges
<1>5. ASSUME NEW p \in Player, Relogin(p)
      PROVE  PacksOK'
  <2>1. pack' = [pack EXCEPT ![p] = NewPackage] /\ ground' = ground /\ left' = left
    BY <1>5 DEF Relogin, dropVars
  <2> QED
    BY <2>1, NewPackageCounts, OnePackChanges
<1>6. CASE Close
  <2>1. pack' = pack /\ ground' = {} /\ left' = 0..(sRandomItemNum - 1)
    BY <1>6 DEF Close
  <2>2. 0..(sRandomItemNum - 1) \subseteq Nat
    BY CombatAssumption
  <2> QED
    BY <2>1, <2>2 DEF PacksOK
<1>7. ASSUME NEW p \in Player,
             \/ \E s \in Skill, target \in Unit : OnUseSkill(p, s, target)
             \/ OnSelectPet(p)
             \/ \E t \in Team \ {"none"} : Enter(p, t)
             \/ Exit(p)
      PROVE  PacksOK'
  BY <1>1, <1>7 DEF OnUseSkill, OnSelectPet, Enter, Exit, dropVars
<1>8. CASE UNCHANGED combatVars
  BY <1>1, <1>8 DEF combatVars, dropVars
<1>9. CASE SceneRun
  BY <1>2, <1>9 DEF SceneRun
<1> QED
  BY <1>3, <1>4, <1>5, <1>6, <1>7, <1>8, <1>9 DEF CombatNext

-----------------------------------------------------------------------------
(* Points                                                                   *)

PointsOK ==
    /\ free \in Seq(Point)
    /\ \A i, j \in DOMAIN free : free[i] = free[j] => i = j
    /\ \A g \in ground : g.point \in Point
    /\ \A g, h \in ground : g.point = h.point => g = h
    /\ \A x \in Point : (\E g \in ground : g.point = x) <=> ~\E i \in DOMAIN free : free[i] = x

\* SetToSeq of the community modules: every member, once.
LEMMA AllPoints ==
    ASSUME NEW s, s = SetToSeq(Point)
    PROVE  /\ s \in Seq(Point)
           /\ \A i, j \in DOMAIN s : s[i] = s[j] => i = j
           /\ \A x \in Point : \E i \in DOMAIN s : s[i] = x
<1>1. PICK n : n = Cardinality(Point)
  OBVIOUS
<1>2. n \in Nat /\ ExistsBijection(1..n, Point) /\ IsFiniteSet(Point)
  BY <1>1, CombatAssumption, FS_CardinalityType
<1>3. \E f \in [1..n -> Point] : IsInjective(f)
  BY <1>2 DEF ExistsBijection, Bijection, Injection
<1>4. s \in [1..n -> Point] /\ IsInjective(s)
  BY <1>1, <1>3 DEF SetToSeq
<1>5. s \in Injection(1..n, Point)
  BY <1>4 DEF Injection
<1>6. Cardinality(1..n) = n
  <2>1. 1 \in Int /\ n \in Int
    BY <1>2
  <2>2. Cardinality(1..n) = IF 1 > n THEN 0 ELSE n - 1 + 1
    BY <2>1, FS_Interval
  <2> QED
    BY <2>2, <1>2
<1>7. s \in Surjection(1..n, Point)
  BY <1>1, <1>2, <1>5, <1>6, FS_Injection
<1>8. \A x \in Point : \E i \in 1..n : s[i] = x
  BY <1>7 DEF Surjection
<1> QED
  BY <1>2, <1>4, <1>8 DEF IsInjective

\* pointList_ without its i-th.
LEMMA RemovePointLeaves ==
    ASSUME NEW n, n = Len(free), free \in Seq(Point), \A i, j \in DOMAIN free : free[i] = free[j] => i = j,
           NEW m \in DOMAIN free, NEW s, s = RemovePoint(m)
    PROVE  /\ s \in Seq(Point)
           /\ \A i, j \in DOMAIN s : s[i] = s[j] => i = j
           /\ \A x \in Point : (\E i \in DOMAIN s : s[i] = x) <=> x # free[m] /\ \E i \in DOMAIN free : free[i] = x
<1>1. n \in Nat /\ DOMAIN free = 1..n /\ m \in 1..n /\ \A i \in 1..n : free[i] \in Point
  OBVIOUS
<1>2. PICK f : f = [free EXCEPT ![m] = free[n]]
  OBVIOUS
<1>3. n \in 1..n
  BY <1>1
<1>4. f \in Seq(Point) /\ Len(f) = n /\ \A i \in 1..n : f[i] = IF i = m THEN free[n] ELSE free[i]
  BY <1>1, <1>2, <1>3
<1>5. s = SubSeq(f, 1, n - 1)
  BY <1>2 DEF RemovePoint
<1>6. s \in Seq(Point) /\ Len(s) = n - 1 /\ \A i \in 1..(n - 1) : s[i] = f[i]
  BY <1>1, <1>4, <1>5
<1>7. DOMAIN s = 1..(n - 1)
  BY <1>6
<1>8. \A i \in 1..(n - 1) : i \in 1..n /\ i # n
  BY <1>1
<1>9. \A i \in 1..(n - 1) : s[i] = IF i = m THEN free[n] ELSE free[i]
  BY <1>4, <1>6, <1>8
<1>10. \A i, j \in 1..n : free[i] = free[j] => i = j
  BY <1>1
<1>11. ASSUME NEW i \in 1..(n - 1), NEW j \in 1..(n - 1), s[i] = s[j]
       PROVE  i = j
  BY SMTT(30), <1>3, <1>8, <1>9, <1>10, <1>11
<1>12. ASSUME NEW i \in 1..(n - 1)
       PROVE  s[i] # free[m] /\ \E j \in 1..n : free[j] = s[i]
  BY <1>1, <1>3, <1>8, <1>9, <1>10
<1>13. ASSUME NEW j \in 1..n, free[j] # free[m]
       PROVE  \E i \in 1..(n - 1) : s[i] = free[j]
  <2>1. j # m
    BY <1>13
  <2>2. CASE j = n
    <3>1. m \in 1..(n - 1)
      BY <2>1, <2>2, <1>1
    <3> QED
      BY <3>1, <2>2, <1>9
  <2>3. CASE j # n
    <3>1. j \in 1..(n - 1)
      BY <2>3, <1>1
    <3> QED
      BY <3>1, <2>1, <1>9
  <2> QED
    BY <2>2, <2>3
<1>14. ASSUME NEW x
       PROVE  (\E i \in 1..(n - 1) : s[i] = x) <=> x # free[m] /\ \E i \in 1..n : free[i] = x
  <2>1. (\E i \in 1..(n - 1) : s[i] = x) => x # free[m] /\ \E i \in 1..n : free[i] = x
    BY <1>12
  <2>2. x # free[m] /\ (\E i \in 1..n : free[i] = x) => \E i \in 1..(n - 1) : s[i] = x
    BY <1>13
  <2> QED
    BY <2>1, <2>2
<1>15. \A i, j \in DOMAIN s : s[i] = s[j] => i = j
  BY <1>7, <1>11
<1>16. \A x \in Point : (\E i \in DOMAIN s : s[i] = x) <=> x # free[m] /\ \E i \in DOMAIN free : free[i] = x
  <2>1. DOMAIN free = 1..n
    BY <1>1
  <2> QED
    BY <2>1, <1>7, <1>14
<1> QED
  BY <1>6, <1>15, <1>16

LEMMA PointsStep ==
    ASSUME PointsOK, [CombatNext]_combatVars
    PROVE  PointsOK'
<1>1. CASE ground' = ground /\ free' = free
  BY <1>1 DEF PointsOK
<1>2. CASE RunDrops
  <2>1. CASE ~DropDue
    BY <2>1, <1>1, <1>2 DEF RunDrops
  <2>2. CASE DropDue
    <3>1. PICK m \in DOMAIN free, item \in {ItemIdOf(k) : k \in left} :
              /\ ground' = ground \cup {[point |-> free[m], item |-> item]}
              /\ free' = RemovePoint(m)
      <4>1. PICK m \in DOMAIN free, k \in left :
                /\ ground' = ground \cup {[point |-> free[m], item |-> ItemIdOf(k)]}
                /\ free' = RemovePoint(m)
        BY <2>2, <1>2 DEF RunDrops
      <4> QED
        BY <4>1
    <3>2. PICK n, x : n = Len(free) /\ x = [point |-> free[m], item |-> item]
      OBVIOUS
    <3>3. /\ free' \in Seq(Point)
          /\ \A i, j \in DOMAIN free' : free'[i] = free'[j] => i = j
          /\ \A y \in Point : (\E i \in DOMAIN free' : free'[i] = y)
                                 <=> y # free[m] /\ \E i \in DOMAIN free : free[i] = y
      BY <3>1, RemovePointLeaves DEF PointsOK
    <3>4. free[m] \in Point
      BY DEF PointsOK
    <3>5. \A g \in ground : g.point # free[m]
      BY <3>4 DEF PointsOK
    <3>6. ground' = ground \cup {x} /\ x.point = free[m]
      BY <3>1, <3>2
    <3>7. \A g \in ground' : g.point \in Point
      BY <3>4, <3>6 DEF PointsOK
    <3>8. \A g, h \in ground' : g.point = h.point => g = h
      BY <3>5, <3>6 DEF PointsOK
    <3>9. \A y \in Point : (\E g \in ground' : g.point = y) <=> y = free[m] \/ \E g \in ground : g.point = y
      BY <3>6
    <3>10. \A y \in Point : (\E g \in ground' : g.point = y) <=> ~\E i \in DOMAIN free' : free'[i] = y
      BY <3>3, <3>9 DEF PointsOK
    <3> QED
      BY <3>3, <3>7, <3>8, <3>10 DEF PointsOK
  <2> QED
    BY <2>1, <2>2
<1>3. ASSUME NEW p \in Player, NEW g \in ground, PickUp(p, g)
      PROVE  PointsOK'
  <2>1. PICK n : n = Len(free)
    OBVIOUS
  <2>2. /\ n \in Nat /\ DOMAIN free = 1..n /\ g.point \in Point
        /\ free' = Append(free, g.point) /\ ground' = ground \ {g}
    BY <2>1, <1>3 DEF PointsOK, PickUp
  <2>3. /\ free' \in Seq(Point) /\ DOMAIN free' = 1..(n + 1) /\ free'[n + 1] = g.point
        /\ \A i \in 1..n : free'[i] = free[i]
    BY <2>1, <2>2 DEF PointsOK
  <2>4. 1..(n + 1) = (1..n) \cup {n + 1}
    BY <2>2
  <2>5. \A i \in 1..n : free[i] # g.point
    BY <2>2 DEF PointsOK
  <2>6. \A i, j \in DOMAIN free' : free'[i] = free'[j] => i = j
    BY <2>2, <2>3, <2>4, <2>5 DEF PointsOK
  <2>7. \A y \in Point : (\E i \in DOMAIN free' : free'[i] = y) <=> y = g.point \/ \E i \in DOMAIN free : free[i] = y
    BY <2>2, <2>3, <2>4
  <2>8. \A y \in Point : (\E h \in ground' : h.point = y) <=> y # g.point /\ \E h \in ground : h.point = y
    BY <2>2 DEF PointsOK
  <2>9. \A y \in Point : (\E h \in ground' : h.point = y) <=> ~\E i \in DOMAIN free' : free'[i] = y
    BY <2>7, <2>8 DEF PointsOK
  <2> QED
    BY <2>2, <2>3, <2>6, <2>9 DEF PointsOK
<1>4. CASE Close
  <2>1. free' = SetToSeq(Point) /\ ground' = {}
    BY <1>4 DEF Close
  <2>2. /\ free' \in Seq(Point)
        /\ \A i, j \in DOMAIN free' : free'[i] = free'[j] => i = j
        /\ \A x \in Point : \E i \in DOMAIN free' : free'[i] = x
    BY <2>1, AllPoints
  <2> QED
    BY <2>1, <2>2 DEF PointsOK
<1>5. ASSUME NEW p \in Player,
             \/ \E s \in Skill, target \in Unit : OnUseSkill(p, s, target)
             \/ OnSelectPet(p)
             \/ \E item \in ItemId \cup {NoItem} : OnUseItem(p, item)
             \/ OnPlantFlower(p)
             \/ \E t \in Team \ {"none"} : Enter(p, t)
             \/ Exit(p)
             \/ Relogin(p)
      PROVE  PointsOK'
  BY <1>1, <1>5 DEF OnUseSkill, OnSelectPet, OnUseItem, OnPlantFlower, Enter, Exit, Relogin, dropVars
<1>6. ASSUME NEW p \in Player, OnPickUpItem(p)
      PROVE  PointsOK'
  BY <1>3, <1>6 DEF OnPickUpItem
<1>7. CASE UNCHANGED combatVars
  BY <1>1, <1>7 DEF combatVars, dropVars
<1>8. CASE SceneRun
  BY <1>2, <1>8 DEF SceneRun
<1> QED
  BY <1>4, <1>5, <1>6, <1>7, <1>8 DEF CombatNext

LEMMA PointsInit == CombatInit => PointsOK /\ PacksOK
<1> SUFFICES ASSUME CombatInit PROVE PointsOK /\ PacksOK
  OBVIOUS
<1>1. /\ free = SetToSeq(Point) /\ ground = {} /\ left = 0..(sRandomItemNum - 1)
      /\ pack = [p \in Player |-> NewPackage]
  BY DEF CombatInit
<1>2. PointsOK
  BY <1>1, AllPoints DEF PointsOK
<1>3. 0..(sRandomItemNum - 1) \subseteq Nat
  BY CombatAssumption
<1>4. PacksOK
  BY <1>1, <1>3, NewPackageCounts DEF PacksOK
<1> QED
  BY <1>2, <1>4

-----------------------------------------------------------------------------
(* What is promised                                                         *)

FightInv == UnitsOK /\ PointsOK /\ PacksOK

LEMMA FightInvAlways == CombatSpec => []FightInv
<1>1. CombatInit => FightInv
  BY UnitsInit, PointsInit DEF FightInv
<1>2. FightInv /\ [CombatNext]_combatVars => FightInv'
  BY UnitsStep, PointsStep, PacksStep DEF FightInv
<1> QED
  BY <1>1, <1>2, PTL DEF CombatSpec

\* Of every fight: a player or flower that cannot act has a buf that stuns, and one
\* that cannot be hurt a buf that makes it immune; and the other way round, unless it
\* has had two bufs of the type at once (onCacl and onDelete of the bufs, runBuf,
\* getBuf by id, onSelectPet, init of a unit).
THEOREM FlagsFollowBufs == CombatSpec => []FlagsMatchBufs
<1>1. FightInv => FlagsMatchBufs
  <2> SUFFICES ASSUME FightInv, NEW u \in Player \cup FlowerName, NEW x, x = unit[u]
               PROVE  /\ ~x.operation => HasType(x, "hunXuan")
                      /\ ~x.canSkillHurt => HasType(x, "mianYi")
                      /\ HasType(x, "hunXuan") => ~x.operation \/ "hunXuan" \in x.twice
                      /\ HasType(x, "mianYi") => ~x.canSkillHurt \/ "mianYi" \in x.twice
    BY DEF FlagsMatchBufs
  <2>1. u \in Unit /\ u \notin Building
    BY Apart
  <2>2. FlagsOK(x)
    BY <2>1 DEF FightInv, UnitsOK, Good
  <2> QED
    BY <2>2 DEF FlagsOK
<1> QED
  BY <1>1, FightInvAlways, PTL

LEMMA OneOrNone ==
    ASSUME NEW S, \A a, b \in S : a = b
    PROVE  Cardinality(S) = IF S = {} THEN 0 ELSE 1
<1>1. CASE S = {}
  BY <1>1, FS_EmptySet
<1>2. CASE S # {}
  <2>1. PICK x : S = {x}
    BY <1>2
  <2> QED
    BY <2>1, FS_Singleton
<1> QED
  BY <1>1, <1>2

\* Of every fight: each point has one item or is free once, a package counts its
\* items, less the times item 0 was used, nobody has more hit points than there are,
\* nor two bufs of an id (DropItemMgr, Package, onUseItem, onHurt, BufHandler).
THEOREM FightKeepsAdding == CombatSpec => []FightAddsUp
<1>1. ASSUME FightInv
      PROVE  FightAddsUp
  <2>1. ASSUME NEW x \in Point
        PROVE  Cardinality(OnGround(x)) + Cardinality(TimesFree(x)) = 1
    <3>1. \A a, b \in OnGround(x) : a = b
      BY <1>1 DEF FightInv, PointsOK, OnGround
    <3>2. \A a, b \in TimesFree(x) : a = b
      BY <1>1 DEF FightInv, PointsOK, TimesFree
    <3>3. OnGround(x) = {} <=> TimesFree(x) # {}
      BY <1>1 DEF FightInv, PointsOK, OnGround, TimesFree
    <3>4. /\ Cardinality(OnGround(x)) = IF OnGround(x) = {} THEN 0 ELSE 1
          /\ Cardinality(TimesFree(x)) = IF TimesFree(x) = {} THEN 0 ELSE 1
      BY <3>1, <3>2, OneOrNone
    <3> QED
      BY <3>3, <3>4
  <2>2. ASSUME NEW p \in Player
        PROVE  pack[p].num + pack[p].wasted
                   = Cardinality({i \in 1..sMaxItemNum : pack[p].items[i] # NoItem})
    BY <1>1 DEF FightInv, PacksOK, PackOK, Taken
  <2>3. ASSUME NEW u \in Unit
        PROVE  LET x == unit[u] IN
               /\ x.hp \in 0..(IF u \in Building THEN BuildingHp ELSE x.maxhp)
               /\ \A i, j \in DOMAIN x.bufs : x.bufs[i].id = x.bufs[j].id => i = j
    <3>1. PICK x, most : x = unit[u] /\ most = IF u \in Building THEN BuildingHp ELSE x.maxhp
      OBVIOUS
    <3>2. Good(u, x)
      BY <3>1, <1>1 DEF FightInv, UnitsOK
    <3>3. x.hp \in Nat /\ x.maxhp \in Nat /\ x.hp <= most
      BY <3>1, <3>2 DEF Good, HpOK, UnitRecord
    <3>4. most \in Nat
      BY <3>1, <3>3, Amounts
    <3>5. x.hp \in 0..most
      BY <3>3, <3>4
    <3>6. \A i, j \in DOMAIN x.bufs : x.bufs[i].id = x.bufs[j].id => i = j
      BY <3>2 DEF Good, OneOfAnId
    <3> QED
      BY <3>1, <3>5, <3>6
  <2> QED
    BY <2>1, <2>2, <2>3 DEF FightAddsUp
<1>2. FightInv => FightAddsUp
  BY <1>1
<1> QED
  BY <1>2, FightInvAlways, PTL

\* Of every fight: a kill is counted once, for an enemy in the battle who was alive
\* before the blow and is dead after it (onHurt and incKillEnemyTime), whatever
\* else happens in that step.
THEOREM EveryKillIsADeath == CombatSpec => KillIsADeath
<1>1. ASSUME FightInv, [CombatNext]_combatVars
      PROVE  [KillsAreDeaths]_combatVars
  <2>1. CASE UNCHANGED combatVars
    BY <2>1
  <2>2. CASE unit' = unit
    <3>1. \A p \in Player : ~(unit[p].kills > unit[p].kills)
      BY <1>1, Apart DEF FightInv, UnitsOK, UnitRecord
    <3> QED
      BY <3>1, <2>2 DEF KillsAreDeaths
  <2>3. KillsAreDeaths \/ unit' = unit
    BY <1>1, UnitsStep DEF FightInv
  <2> QED
    BY <2>2, <2>3
<1>2. FightInv /\ [CombatNext]_combatVars => [KillsAreDeaths]_combatVars
  BY <1>1
<1>3. CombatSpec => [][KillsAreDeaths]_combatVars
  BY <1>2, FightInvAlways, PTL DEF CombatSpec
<1> QED
  BY <1>3 DEF KillIsADeath, KillsAreDeaths

-----------------------------------------------------------------------------
(* What the clients of a scene know                                         *)

IsMan(m) == m = [pet |-> m.pet, hp |-> m.hp, title |-> m.title, team |-> m.team]
IsView(v) ==
    v = [listed |-> v.listed, informed |-> v.informed, men |-> v.men, plants |-> v.plants,
         thrones |-> v.thrones, lying |-> v.lying, stage |-> v.stage]

\* A list of flowers: two with one id are twins.
IsFlower(r) ==
    r = [id |-> r.id, hp |-> r.hp, twin |-> r.twin] /\ r.id \in Plant /\ r.twin \in BOOLEAN
BedOK(bed) ==
    /\ bed = [x \in DOMAIN bed |-> bed[x]] /\ DOMAIN bed \subseteq Sowing
    /\ \A x \in DOMAIN bed : IsFlower(bed[x])
    /\ \A x, y \in DOMAIN bed : bed[x].id = bed[y].id => x = y \/ bed[x].twin

\* What a client knows of it.
KnowsBed(known, bed) ==
    /\ known = [f \in DOMAIN known |-> known[f]]
    /\ \A f \in DOMAIN known : \E x \in DOMAIN bed : bed[x].id = f
    /\ \A x \in DOMAIN bed :
          ~bed[x].twin => bed[x].id \in DOMAIN known /\ known[bed[x].id] = bed[x].hp

\* The players, the flowers and the buildings of a scene, as the server has them.
SceneOK(men, plantsNow, thronesNow) ==
    /\ men = [p \in Fighter |-> men[p]] /\ \A p \in Fighter : IsMan(men[p])
    /\ BedOK(plantsNow)
    /\ thronesNow = [b \in Throne |-> thronesNow[b]]

\* A client that has asked knows them, and those only who are in the scene.
Sees(v, members, men, plantsNow, thronesNow, lyingNow, stageNow) ==
    /\ IsView(v) /\ v.men = [q \in DOMAIN v.men |-> v.men[q]] /\ DOMAIN v.men \subseteq Fighter
    /\ v.listed => v.men = [q \in members |-> men[q]]
    /\ v.informed => /\ KnowsBed(v.plants, plantsNow) /\ v.thrones = thronesNow
                     /\ v.lying = lyingNow /\ v.stage = stageNow

LEMMA KnownAreIds ==
    ASSUME NEW known, NEW bed, BedOK(bed), KnowsBed(known, bed)
    PROVE  DOMAIN known \subseteq Plant
BY DEF BedOK, KnowsBed, IsFlower

LEMMA HurtBed ==
    ASSUME NEW bed, BedOK(bed), NEW x \in DOMAIN bed, NEW n,
           NEW hurt, hurt = [bed EXCEPT ![x].hp = @ - n]
    PROVE  /\ BedOK(hurt) /\ DOMAIN hurt = DOMAIN bed /\ hurt[x].hp = bed[x].hp - n
           /\ \A y \in DOMAIN bed : /\ hurt[y].id = bed[y].id /\ hurt[y].twin = bed[y].twin
                                   /\ y # x => hurt[y] = bed[y]
<1>1. PICK r : r = [bed[x] EXCEPT !.hp = bed[x].hp - n]
  OBVIOUS
<1>2. IsFlower(bed[x]) /\ bed = [y \in DOMAIN bed |-> bed[y]] /\ DOMAIN bed \subseteq Sowing
  BY DEF BedOK
<1>3. r = [id |-> bed[x].id, hp |-> bed[x].hp - n, twin |-> bed[x].twin]
  BY <1>1, <1>2 DEF IsFlower
<1>4. IsFlower(r) /\ r.id = bed[x].id /\ r.twin = bed[x].twin /\ r.hp = bed[x].hp - n
  BY <1>2, <1>3 DEF IsFlower
<1>5. hurt = [y \in DOMAIN bed |-> IF y = x THEN r ELSE bed[y]]
  BY <1>1, <1>2
<1>6. /\ hurt = [y \in DOMAIN hurt |-> hurt[y]] /\ DOMAIN hurt = DOMAIN bed /\ hurt[x] = r
      /\ \A y \in DOMAIN bed : y # x => hurt[y] = bed[y]
  BY <1>5
<1>7. \A y \in DOMAIN bed : hurt[y].id = bed[y].id /\ hurt[y].twin = bed[y].twin
  BY <1>4, <1>6
<1>8. \A y \in DOMAIN hurt : IsFlower(hurt[y])
  BY <1>4, <1>6 DEF BedOK
<1>9. \A y, z \in DOMAIN hurt : hurt[y].id = hurt[z].id => y = z \/ hurt[y].twin
  BY <1>6, <1>7 DEF BedOK
<1> QED
  BY <1>2, <1>4, <1>6, <1>7, <1>8, <1>9 DEF BedOK

\* What a client makes of a packet about something that is hurt.
LEMMA AppliesHurt ==
    ASSUME NEW v, NEW u, NEW n
    PROVE  /\ u \in DOMAIN v.men => Apply(v, OnHurtPacket(u, n)) = [v EXCEPT !.men[u].hp = @ - n]
           /\ u \notin DOMAIN v.men /\ ~v.informed => Apply(v, OnHurtPacket(u, n)) = v
BY DEF Apply, OnHurtPacket

LEMMA AppliesHurtToThing ==
    ASSUME NEW v, NEW u, NEW n, u \notin DOMAIN v.men, v.informed
    PROVE  Apply(v, OnHurtPacket(u, n))
             = [[v EXCEPT !.plants = Minus(v.plants, u, n)] EXCEPT !.thrones = Minus(v.thrones, u, n)]
<1>1. Apply(v, OnHurtPacket(u, n))
        = [v EXCEPT !.plants = Minus(@, u, n), !.thrones = Minus(@, u, n)]
  BY DEF Apply, OnHurtPacket
<1>2. ASSUME NEW a, NEW b
      PROVE  [v EXCEPT !.plants = a, !.thrones = b] = [[v EXCEPT !.plants = a] EXCEPT !.thrones = b]
  OBVIOUS
<1>3. [v EXCEPT !.plants = Minus(@, u, n), !.thrones = Minus(@, u, n)]
        = [v EXCEPT !.plants = Minus(v.plants, u, n), !.thrones = Minus(v.thrones, u, n)]
  OBVIOUS
<1> QED
  BY <1>1, <1>2, <1>3

\* A change of two fields of what a client knows.
LEMMA TwoFields ==
    ASSUME NEW v, IsView(v), NEW a, NEW b
    PROVE  [[v EXCEPT !.plants = a] EXCEPT !.thrones = b]
             = [listed |-> v.listed, informed |-> v.informed, men |-> v.men, plants |-> a,
                thrones |-> b, lying |-> v.lying, stage |-> v.stage]
<1>1. PICK x : x = [v EXCEPT !.plants = a]
  OBVIOUS
<1>2. x = [listed |-> v.listed, informed |-> v.informed, men |-> v.men, plants |-> a,
           thrones |-> v.thrones, lying |-> v.lying, stage |-> v.stage]
  BY <1>1 DEF IsView
<1>3. [x EXCEPT !.thrones = b]
        = [listed |-> v.listed, informed |-> v.informed, men |-> v.men, plants |-> a,
           thrones |-> b, lying |-> v.lying, stage |-> v.stage]
  BY <1>2
<1> QED
  BY <1>1, <1>3

LEMMA HurtManIsSeen ==
    ASSUME NEW v, NEW S, NEW men, NEW pl, NEW th, NEW ly, NEW st, NEW p \in Fighter, NEW n,
           S \subseteq Fighter, SceneOK(men, pl, th), Sees(v, S, men, pl, th, ly, st)
    PROVE  Sees(Apply(v, OnHurtPacket(p, n)), S, [men EXCEPT ![p].hp = @ - n], pl, th, ly, st)
<1> DEFINE x == Apply(v, OnHurtPacket(p, n))
           men2 == [men EXCEPT ![p].hp = @ - n]
<1>1. p \notin Plant /\ p \notin DOMAIN th /\ BedOK(pl)
  BY ViewAssumption DEF SceneOK
<1>2. CASE p \in DOMAIN v.men
  <2>1. x = [v EXCEPT !.men = [v.men EXCEPT ![p] = [v.men[p] EXCEPT !.hp = v.men[p].hp - n]]]
    BY <1>2, AppliesHurt
  <2> DEFINE to == [v.men EXCEPT ![p] = [v.men[p] EXCEPT !.hp = v.men[p].hp - n]]
  <2>2. x = [listed |-> v.listed, informed |-> v.informed, men |-> to, plants |-> v.plants,
             thrones |-> v.thrones, lying |-> v.lying, stage |-> v.stage]
    BY <2>1 DEF Sees, IsView
  <2>3. to = [q \in DOMAIN v.men |-> to[q]] /\ DOMAIN to = DOMAIN v.men
    BY DEF Sees
  <2>4. ASSUME v.listed
        PROVE  to = [q \in S |-> men2[q]]
    <3>1. v.men = [q \in S |-> men[q]] /\ DOMAIN v.men = S
      BY <2>4 DEF Sees
    <3>2. p \in S /\ v.men[p] = men[p]
      BY <1>2, <3>1
    <3>3. men2[p] = [men[p] EXCEPT !.hp = men[p].hp - n]
      BY DEF SceneOK
    <3>4. \A q \in S : q # p => men2[q] = men[q]
      BY DEF SceneOK
    <3> QED
      BY <3>1, <3>2, <3>3, <3>4
  <2> QED
    BY <2>2, <2>3, <2>4 DEF Sees, IsView
<1>3. CASE p \notin DOMAIN v.men
  <2>1. ASSUME v.informed PROVE Minus(v.plants, p, n) = v.plants /\ Minus(v.thrones, p, n) = v.thrones
    <3>1. KnowsBed(v.plants, pl) /\ v.thrones = th
      BY <2>1 DEF Sees
    <3>2. p \notin DOMAIN v.plants
      BY <1>1, <3>1, KnownAreIds
    <3> QED
      BY <1>1, <3>1, <3>2 DEF Minus
  <2>2. x = v
    <3>1. CASE v.informed
      <4>1. x = [listed |-> v.listed, informed |-> v.informed, men |-> v.men, plants |-> v.plants,
                 thrones |-> v.thrones, lying |-> v.lying, stage |-> v.stage]
        <5>1. x = [[v EXCEPT !.plants = v.plants] EXCEPT !.thrones = v.thrones]
          <6>1. x = [[v EXCEPT !.plants = Minus(v.plants, p, n)] EXCEPT !.thrones = Minus(v.thrones, p, n)]
            BY <1>3, <3>1, AppliesHurtToThing
          <6> HIDE DEF x
          <6> QED
            BY <2>1, <3>1, <6>1
        <5>2. IsView(v)
          BY DEF Sees
        <5> HIDE DEF x
        <5> QED
          BY <5>1, <5>2, TwoFields
      <4> QED
        BY <4>1 DEF Sees, IsView
    <3>2. CASE ~v.informed
      BY <1>3, <3>2, AppliesHurt
    <3> QED
      BY <3>1, <3>2
  <2>3. ASSUME v.listed PROVE v.men = [q \in S |-> men2[q]]
    <3>1. v.men = [q \in S |-> men[q]] /\ p \notin S
      BY <1>3, <2>3 DEF Sees
    <3>2. \A q \in S : men2[q] = men[q]
      BY <3>1 DEF SceneOK
    <3> QED
      BY <3>1, <3>2
  <2> QED
    BY <2>2, <2>3 DEF Sees
<1> QED
  BY <1>2, <1>3

\* What a client knows of the flowers and the buildings once something is hurt.
LEMMA HurtIsApplied ==
    ASSUME NEW v, IsView(v), NEW u, NEW n, u \notin DOMAIN v.men
    PROVE  Apply(v, OnHurtPacket(u, n)) =
             IF v.informed
             THEN [listed |-> v.listed, informed |-> v.informed, men |-> v.men,
                   plants |-> Minus(v.plants, u, n), thrones |-> Minus(v.thrones, u, n),
                   lying |-> v.lying, stage |-> v.stage]
             ELSE v
<1>1. CASE v.informed
  <2>1. Apply(v, OnHurtPacket(u, n)) =
          [[v EXCEPT !.plants = Minus(v.plants, u, n)] EXCEPT !.thrones = Minus(v.thrones, u, n)]
    BY <1>1, AppliesHurtToThing
  <2> QED
    BY <1>1, <2>1, TwoFields
<1>2. CASE ~v.informed
  BY <1>2, AppliesHurt
<1> QED
  BY <1>1, <1>2

LEMMA HurtPlantIsSeen ==
    ASSUME NEW v, NEW S, NEW men, NEW pl, NEW th, NEW ly, NEW st, NEW x \in DOMAIN pl, NEW n,
           SceneOK(men, pl, th), Sees(v, S, men, pl, th, ly, st),
           NEW hurt, hurt = [pl EXCEPT ![x].hp = @ - n]
    PROVE  Sees(Apply(v, OnHurtPacket(pl[x].id, n)), S, men, hurt, th, ly, st)
<1>1. PICK u, y : u = pl[x].id /\ y = Apply(v, OnHurtPacket(u, n))
  OBVIOUS
<1>2. BedOK(pl) /\ IsView(v) /\ DOMAIN th = Throne
  BY DEF SceneOK, Sees
<1>3. u \in Plant /\ u \notin Fighter /\ u \notin Throne
  BY <1>1, <1>2, ViewAssumption DEF BedOK, IsFlower
<1>4. u \notin DOMAIN v.men
  BY <1>3 DEF Sees
<1>5. CASE v.informed
  <2>1. PICK known : known = Minus(v.plants, u, n)
    OBVIOUS
  <2>2. KnowsBed(v.plants, pl) /\ v.thrones = th
    BY <1>5 DEF Sees
  <2>3. Minus(v.thrones, u, n) = th
    BY <1>2, <1>3, <2>2 DEF Minus
  <2>4. y = [listed |-> v.listed, informed |-> v.informed, men |-> v.men, plants |-> known,
             thrones |-> th, lying |-> v.lying, stage |-> v.stage]
    <3>1. Apply(v, OnHurtPacket(u, n)) =
            [listed |-> v.listed, informed |-> v.informed, men |-> v.men,
             plants |-> Minus(v.plants, u, n), thrones |-> Minus(v.thrones, u, n),
             lying |-> v.lying, stage |-> v.stage]
      BY <1>2, <1>4, <1>5, HurtIsApplied
    <3> QED
      BY <1>1, <2>1, <2>3, <3>1
  <2>5. v.plants = [f \in DOMAIN v.plants |-> v.plants[f]]
    BY <2>2 DEF KnowsBed
  <2>6. /\ known = [f \in DOMAIN known |-> known[f]] /\ DOMAIN known = DOMAIN v.plants
        /\ \A f \in DOMAIN known : known[f] = IF f = u THEN v.plants[f] - n ELSE v.plants[f]
    <3>1. CASE u \in DOMAIN v.plants
      <4>1. known = [v.plants EXCEPT ![u] = @ - n]
        BY <2>1, <3>1 DEF Minus
      <4> QED
        BY <2>5, <4>1
    <3>2. CASE u \notin DOMAIN v.plants
      BY <2>1, <2>5, <3>2 DEF Minus
    <3> QED
      BY <3>1, <3>2
  <2>7. /\ DOMAIN hurt = DOMAIN pl /\ hurt[x].hp = pl[x].hp - n
        /\ \A z \in DOMAIN pl : /\ hurt[z].id = pl[z].id /\ hurt[z].twin = pl[z].twin
                                /\ z # x => hurt[z] = pl[z]
    BY <1>2, HurtBed
  <2>8. \A f \in DOMAIN known : \E z \in DOMAIN hurt : hurt[z].id = f
    BY <2>2, <2>6, <2>7 DEF KnowsBed
  <2>9. ASSUME NEW z \in DOMAIN hurt, ~hurt[z].twin
        PROVE  hurt[z].id \in DOMAIN known /\ known[hurt[z].id] = hurt[z].hp
    <3>1. pl[z].id \in DOMAIN v.plants /\ v.plants[pl[z].id] = pl[z].hp /\ ~pl[z].twin
      BY <2>2, <2>7, <2>9 DEF KnowsBed
    <3>2. z # x => pl[z].id # u
      BY <1>1, <1>2, <2>7, <3>1 DEF BedOK
    <3> QED
      BY <1>1, <2>6, <2>7, <3>1, <3>2
  <2>10. KnowsBed(known, hurt)
    BY <2>6, <2>8, <2>9 DEF KnowsBed
  <2> QED
    BY <1>1, <2>4, <2>10 DEF Sees, IsView
<1>6. CASE ~v.informed
  <2>1. y = v
    BY <1>1, <1>2, <1>4, <1>6, HurtIsApplied
  <2> QED
    BY <1>1, <1>6, <2>1 DEF Sees
<1> QED
  BY <1>5, <1>6

LEMMA HurtThroneIsSeen ==
    ASSUME NEW v, NEW S, NEW men, NEW pl, NEW th, NEW ly, NEW st, NEW u, NEW n,
           u \notin Fighter, u \notin Plant, SceneOK(men, pl, th), Sees(v, S, men, pl, th, ly, st)
    PROVE  Sees(Apply(v, OnHurtPacket(u, n)), S, men, pl, Minus(th, u, n), ly, st)
<1>1. BedOK(pl) /\ IsView(v) /\ u \notin DOMAIN v.men
  BY DEF SceneOK, Sees
<1>2. CASE v.informed
  <2>1. KnowsBed(v.plants, pl) /\ v.thrones = th
    BY <1>2 DEF Sees
  <2>2. Minus(v.plants, u, n) = v.plants
    BY <1>1, <2>1, KnownAreIds DEF Minus
  <2>3. Apply(v, OnHurtPacket(u, n)) =
          [listed |-> v.listed, informed |-> v.informed, men |-> v.men, plants |-> v.plants,
           thrones |-> Minus(th, u, n), lying |-> v.lying, stage |-> v.stage]
    BY <1>1, <1>2, <2>1, <2>2, HurtIsApplied
  <2> QED
    BY <2>1, <2>3 DEF Sees, IsView
<1>3. CASE ~v.informed
  <2>1. Apply(v, OnHurtPacket(u, n)) = v
    BY <1>1, <1>3, HurtIsApplied
  <2> QED
    BY <1>3, <2>1 DEF Sees
<1> QED
  BY <1>2, <1>3

LEMMA TitleIsSeen ==
    ASSUME NEW v, NEW S, NEW men, NEW pl, NEW th, NEW ly, NEW st, NEW p \in Fighter, NEW n,
           S \subseteq Fighter, SceneOK(men, pl, th), Sees(v, S, men, pl, th, ly, st)
    PROVE  Sees(Apply(v, [op |-> "GET_TITLE", id |-> p, title |-> n]), S,
                [men EXCEPT ![p].title = n], pl, th, ly, st)
<1> DEFINE x == Apply(v, [op |-> "GET_TITLE", id |-> p, title |-> n])
           men2 == [men EXCEPT ![p].title = n]
           to == [v.men EXCEPT ![p] = [v.men[p] EXCEPT !.title = n]]
<1>1. x = IF p \in DOMAIN v.men THEN [v EXCEPT !.men[p].title = n] ELSE v
  BY DEF Apply
<1>2. CASE p \in DOMAIN v.men
  <2>1. x = [v EXCEPT !.men = to]
    BY <1>1, <1>2
  <2>2. x = [listed |-> v.listed, informed |-> v.informed, men |-> to, plants |-> v.plants,
             thrones |-> v.thrones, lying |-> v.lying, stage |-> v.stage]
    BY <2>1 DEF Sees, IsView
  <2>3. to = [q \in DOMAIN v.men |-> to[q]] /\ DOMAIN to = DOMAIN v.men
    BY DEF Sees
  <2>4. ASSUME v.listed
        PROVE  to = [q \in S |-> men2[q]]
    <3>1. v.men = [q \in S |-> men[q]] /\ DOMAIN v.men = S
      BY <2>4 DEF Sees
    <3>2. p \in S /\ v.men[p] = men[p]
      BY <1>2, <3>1
    <3>3. men2[p] = [men[p] EXCEPT !.title = n]
      BY DEF SceneOK
    <3>4. \A q \in S : q # p => men2[q] = men[q]
      BY DEF SceneOK
    <3> QED
      BY <3>1, <3>2, <3>3, <3>4
  <2> QED
    BY <2>2, <2>3, <2>4 DEF Sees, IsView
<1>3. CASE p \notin DOMAIN v.men
  <2>1. x = v
    BY <1>1, <1>3
  <2>2. ASSUME v.listed PROVE v.men = [q \in S |-> men2[q]]
    <3>1. v.men = [q \in S |-> men[q]] /\ p \notin S
      BY <1>3, <2>2 DEF Sees
    <3>2. \A q \in S : men2[q] = men[q]
      BY <3>1 DEF SceneOK
    <3> QED
      BY <3>1, <3>2
  <2> QED
    BY <2>1, <2>2 DEF Sees
<1> QED
  BY <1>2, <1>3

LEMMA NothingIsSeen ==
    ASSUME NEW v, NEW pkt, pkt.op \in {"USE_SKILL", "PET_DEAD"}
    PROVE  Apply(v, pkt) = v
BY DEF Apply

\* A flower that is taken from the list.
LEMMA BedWithout ==
    ASSUME NEW bed, BedOK(bed), NEW x, NEW b, b = Without(bed, x)
    PROVE  /\ BedOK(b) /\ DOMAIN b = DOMAIN bed \ {x}
           /\ \A y \in DOMAIN b : b[y] = bed[y]
<1>1. b = [y \in DOMAIN bed \ {x} |-> bed[y]]
  BY DEF Without
<1>2. /\ DOMAIN b = DOMAIN bed \ {x} /\ b = [y \in DOMAIN b |-> b[y]]
      /\ \A y \in DOMAIN b : b[y] = bed[y]
  BY <1>1
<1> QED
  BY <1>2 DEF BedOK

LEMMA FlowerIsSeenGone ==
    ASSUME NEW v, NEW S, NEW men, NEW pl, NEW th, NEW ly, NEW st, NEW x \in DOMAIN pl,
           SceneOK(men, pl, th), Sees(v, S, men, pl, th, ly, st), NEW b, b = Without(pl, x)
    PROVE  Sees(Apply(v, [op |-> "DISAPPEAR_FLOWER", id |-> pl[x].id]), S, men, b, th, ly, st)
<1>1. PICK f, known : f = pl[x].id /\ known = Without(v.plants, f)
  OBVIOUS
<1>2. Apply(v, [op |-> "DISAPPEAR_FLOWER", id |-> f]) =
        [listed |-> v.listed, informed |-> v.informed, men |-> v.men, plants |-> known,
         thrones |-> v.thrones, lying |-> v.lying, stage |-> v.stage]
  BY <1>1 DEF Apply, Sees, IsView
<1>3. BedOK(pl) /\ DOMAIN b = DOMAIN pl \ {x} /\ \A y \in DOMAIN b : b[y] = pl[y]
  <2>1. BedOK(pl)
    BY DEF SceneOK
  <2> QED
    BY <2>1, BedWithout
<1>4. ASSUME v.informed PROVE KnowsBed(known, b)
  <2>1. KnowsBed(v.plants, pl)
    BY <1>4 DEF Sees
  <2>2. /\ known = [g \in DOMAIN known |-> known[g]] /\ DOMAIN known = DOMAIN v.plants \ {f}
        /\ \A g \in DOMAIN known : known[g] = v.plants[g]
    BY <1>1 DEF Without
  <2>3. \A g \in DOMAIN known : \E y \in DOMAIN b : b[y].id = g
    BY <1>1, <1>3, <2>1, <2>2 DEF KnowsBed
  <2>4. ASSUME NEW y \in DOMAIN b, ~b[y].twin
        PROVE  b[y].id \in DOMAIN known /\ known[b[y].id] = b[y].hp
    <3>1. y \in DOMAIN pl /\ y # x /\ b[y] = pl[y]
      BY <1>3
    <3>2. pl[y].id # f
      BY <1>1, <1>3, <2>4, <3>1 DEF BedOK
    <3> QED
      BY <2>1, <2>2, <2>4, <3>1, <3>2 DEF KnowsBed
  <2> QED
    BY <2>2, <2>3, <2>4 DEF KnowsBed
<1> QED
  BY <1>1, <1>2, <1>4 DEF Sees, IsView

\* A flower at the end of the list: if its id is in use, all that have it are twins.
BedAfter(bed, f, n, hp) ==
    [x \in DOMAIN bed \cup {n} |->
        IF x = n THEN [id |-> f, hp |-> hp, twin |-> \E y \in DOMAIN bed : bed[y].id = f]
        ELSE [bed[x] EXCEPT !.twin = @ \/ bed[x].id = f]]

LEMMA BedGrows ==
    ASSUME NEW bed, BedOK(bed), NEW n \in Sowing, n \notin DOMAIN bed, NEW f \in Plant, NEW hp,
           NEW b, b = BedAfter(bed, f, n, hp)
    PROVE  /\ BedOK(b) /\ DOMAIN b = DOMAIN bed \cup {n} /\ b[n].id = f /\ b[n].hp = hp
           /\ \A x \in DOMAIN bed : b[x].id = bed[x].id /\ b[x].hp = bed[x].hp
           /\ \A x \in DOMAIN bed : ~b[x].twin => ~bed[x].twin /\ bed[x].id # f
<1>1. PICK t : t = (\E y \in DOMAIN bed : bed[y].id = f)
  OBVIOUS
<1>2. t \in BOOLEAN
  BY <1>1
<1>3. PICK r : r = [id |-> f, hp |-> hp, twin |-> t]
  OBVIOUS
<1>4. IsFlower(r) /\ r.id = f /\ r.hp = hp /\ r.twin = t
  BY <1>2, <1>3 DEF IsFlower
<1>5. /\ DOMAIN b = DOMAIN bed \cup {n} /\ b = [x \in DOMAIN b |-> b[x]] /\ b[n] = r
      /\ \A x \in DOMAIN bed : b[x] = [bed[x] EXCEPT !.twin = @ \/ bed[x].id = f]
  BY <1>1, <1>3 DEF BedAfter
<1>6. ASSUME NEW x \in DOMAIN bed
      PROVE  /\ IsFlower(b[x]) /\ b[x].id = bed[x].id /\ b[x].hp = bed[x].hp
             /\ b[x].twin <=> bed[x].twin \/ bed[x].id = f
  <2>1. PICK q, k : q = bed[x] /\ k = (q.twin \/ q.id = f)
    OBVIOUS
  <2>2. IsFlower(q)
    BY <2>1 DEF BedOK
  <2>3. b[x] = [q EXCEPT !.twin = k]
    BY <1>5, <2>1
  <2>4. b[x] = [id |-> q.id, hp |-> q.hp, twin |-> k]
    BY <2>2, <2>3 DEF IsFlower
  <2>5. k \in BOOLEAN
    BY <2>1
  <2>6. b[x].id = q.id /\ b[x].hp = q.hp /\ b[x].twin = k
    BY <2>4
  <2> QED
    BY <2>1, <2>2, <2>4, <2>5, <2>6 DEF IsFlower
<1>7. \A x \in DOMAIN b : IsFlower(b[x])
  BY <1>4, <1>5, <1>6
<1>8. ASSUME NEW x \in DOMAIN b, NEW y \in DOMAIN b, b[x].id = b[y].id
      PROVE  x = y \/ b[x].twin
  <2>1. CASE x \in DOMAIN bed /\ y \in DOMAIN bed
    BY <1>6, <1>8, <2>1 DEF BedOK
  <2>2. CASE x \in DOMAIN bed /\ y = n
    BY <1>4, <1>5, <1>6, <1>8, <2>2
  <2>3. CASE x = n /\ y \in DOMAIN bed
    <3>1. bed[y].id = f
      BY <1>4, <1>5, <1>6, <1>8, <2>3
    <3>2. t
      BY <1>1, <2>3, <3>1
    <3> QED
      BY <1>4, <1>5, <2>3, <3>2
  <2>4. CASE x = n /\ y = n
    BY <2>4
  <2> QED
    BY <1>5, <2>1, <2>2, <2>3, <2>4
<1>9. DOMAIN b \subseteq Sowing
  BY <1>5 DEF BedOK
<1>10. BedOK(b)
  BY <1>5, <1>7, <1>8, <1>9 DEF BedOK
<1> QED
  BY <1>4, <1>5, <1>6, <1>10

LEMMA FlowerIsSeen ==
    ASSUME NEW v, NEW S, NEW men, NEW pl, NEW th, NEW ly, NEW st, NEW f \in Plant, NEW hp,
           NEW n \in Sowing, n \notin DOMAIN pl, SceneOK(men, pl, th), Sees(v, S, men, pl, th, ly, st),
           NEW b, DOMAIN b = DOMAIN pl \cup {n}, b[n].id = f, b[n].hp = hp,
           \A x \in DOMAIN pl : b[x].id = pl[x].id /\ b[x].hp = pl[x].hp,
           \A x \in DOMAIN pl : ~b[x].twin => ~pl[x].twin /\ pl[x].id # f
    PROVE  Sees(Apply(v, [op |-> "PLANT_FLOWER", id |-> f, hp |-> hp]), S, men, b, th, ly, st)
<1>1. PICK known : known = With(v.plants, f, hp)
  OBVIOUS
<1>2. Apply(v, [op |-> "PLANT_FLOWER", id |-> f, hp |-> hp]) =
        IF v.informed
        THEN [listed |-> v.listed, informed |-> v.informed, men |-> v.men, plants |-> known,
              thrones |-> v.thrones, lying |-> v.lying, stage |-> v.stage]
        ELSE v
  BY <1>1 DEF Apply, Sees, IsView
<1>3. /\ DOMAIN b = DOMAIN pl \cup {n} /\ b[n].id = f /\ b[n].hp = hp
      /\ \A x \in DOMAIN pl : b[x].id = pl[x].id /\ b[x].hp = pl[x].hp
      /\ \A x \in DOMAIN pl : ~b[x].twin => ~pl[x].twin /\ pl[x].id # f
  OBVIOUS
<1>4. ASSUME v.informed PROVE KnowsBed(known, b)
  <2>1. KnowsBed(v.plants, pl)
    BY <1>4 DEF Sees
  <2>2. /\ known = [g \in DOMAIN known |-> known[g]] /\ DOMAIN known = DOMAIN v.plants \cup {f}
        /\ known[f] = hp /\ \A g \in DOMAIN v.plants : g # f => known[g] = v.plants[g]
    BY <1>1 DEF With
  <2>3. \A g \in DOMAIN known : \E x \in DOMAIN b : b[x].id = g
    BY <1>3, <2>1, <2>2 DEF KnowsBed
  <2>4. ASSUME NEW x \in DOMAIN b, ~b[x].twin
        PROVE  b[x].id \in DOMAIN known /\ known[b[x].id] = b[x].hp
    <3>1. CASE x = n
      BY <1>3, <2>2, <3>1
    <3>2. CASE x \in DOMAIN pl
      <4>1. b[x].id = pl[x].id /\ b[x].hp = pl[x].hp /\ ~pl[x].twin /\ pl[x].id # f
        BY <1>3, <2>4, <3>2
      <4> QED
        BY <2>1, <2>2, <3>2, <4>1 DEF KnowsBed
    <3> QED
      BY <1>3, <3>1, <3>2
  <2> QED
    BY <2>2, <2>3, <2>4 DEF KnowsBed
<1> QED
  BY <1>2, <1>4 DEF Sees, IsView

LEMMA DropIsSeen ==
    ASSUME NEW v, NEW S, NEW men, NEW pl, NEW th, NEW ly, NEW st, NEW x,
           Sees(v, S, men, pl, th, ly, st)
    PROVE  Sees(Apply(v, [op |-> "DROP_ITEM", at |-> x]), S, men, pl, th, ly \cup {x}, st)
<1>1. Apply(v, [op |-> "DROP_ITEM", at |-> x]) =
        IF v.informed
        THEN [listed |-> v.listed, informed |-> v.informed, men |-> v.men, plants |-> v.plants,
              thrones |-> v.thrones, lying |-> v.lying \cup {x}, stage |-> v.stage]
        ELSE v
  BY DEF Apply, Sees, IsView
<1> QED
  BY <1>1 DEF Sees, IsView

LEMMA PickUpIsSeen ==
    ASSUME NEW v, NEW S, NEW men, NEW pl, NEW th, NEW ly, NEW st, NEW x,
           Sees(v, S, men, pl, th, ly, st)
    PROVE  Sees(Apply(v, [op |-> "PICKUP_ITEM", at |-> x]), S, men, pl, th, ly \ {x}, st)
<1>1. Apply(v, [op |-> "PICKUP_ITEM", at |-> x]) =
        [listed |-> v.listed, informed |-> v.informed, men |-> v.men, plants |-> v.plants,
         thrones |-> v.thrones, lying |-> v.lying \ {x}, stage |-> v.stage]
  BY DEF Apply, Sees, IsView
<1> QED
  BY <1>1 DEF Sees, IsView

LEMMA StageIsSeen ==
    ASSUME NEW v, NEW S, NEW men, NEW pl, NEW th, NEW ly, NEW st, NEW s,
           Sees(v, S, men, pl, th, ly, st)
    PROVE  Sees(Apply(v, [op |-> "TELLCLIENT_STATE", stage |-> s]), S, men, pl, th, ly, s)
<1>1. Apply(v, [op |-> "TELLCLIENT_STATE", stage |-> s]) =
        IF v.informed
        THEN [listed |-> v.listed, informed |-> v.informed, men |-> v.men, plants |-> v.plants,
              thrones |-> v.thrones, lying |-> v.lying, stage |-> s]
        ELSE v
  BY DEF Apply, Sees, IsView
<1> QED
  BY <1>1 DEF Sees, IsView

-----------------------------------------------------------------------------
(* The packets of a step, one after the other                               *)

Tell(members, v, pkt) == Broad(v, members, pkt)
Telling == INSTANCE FoldFacts WITH Op <- Tell

LEMMA BroadAllIsFold ==
    ASSUME NEW v, NEW S, NEW s
    PROVE  BroadAll(v, S, s) = Telling!Folded(S, v, s)
BY DEF BroadAll, Telling!Folded, Telling!FoldLeft, Telling!MapThenFoldSet, FoldLeft, MapThenFoldSet,
       Tell, Max, Telling!Max

IsList(q) == q \in Seq({q[i] : i \in DOMAIN q})

LEMMA ListGrows ==
    ASSUME NEW q, IsList(q), NEW x
    PROVE  /\ IsList(q \o <<x>>) /\ Len(q) \in Nat /\ DOMAIN q = 1..Len(q)
           /\ DOMAIN (q \o <<x>>) = 1..(Len(q) + 1)
           /\ \A i \in 1..Len(q) : (q \o <<x>>)[i] = q[i]
           /\ (q \o <<x>>)[Len(q) + 1] = x
<1>1. PICK S : S = {q[i] : i \in DOMAIN q}
  OBVIOUS
<1>2. PICK T : T = S \cup {x}
  OBVIOUS
<1>3. q \in Seq(S)
  BY <1>1 DEF IsList
<1>4. Len(q) \in Nat /\ DOMAIN q = 1..Len(q) /\ \A i \in 1..Len(q) : q[i] \in T
  BY <1>1, <1>2, <1>3
<1>5. q \in Seq(T) /\ <<x>> \in Seq(T)
  BY <1>2, <1>3
<1>6. PICK t : t = q \o <<x>>
  OBVIOUS
<1>7. /\ t \in Seq(T) /\ Len(t) = Len(q) + 1 /\ DOMAIN t = 1..(Len(q) + 1)
      /\ \A i \in 1..Len(q) : t[i] = q[i]
      /\ t[Len(q) + 1] = x
  BY <1>4, <1>5, <1>6
<1>8. IsList(t)
  <2>1. \A i \in 1..Len(t) : t[i] \in {t[j] : j \in DOMAIN t}
    BY <1>7
  <2>2. t \in Seq(T) /\ Len(t) \in Nat
    BY <1>4, <1>7
  <2>3. t \in [1..Len(t) -> {t[j] : j \in DOMAIN t}]
    BY <2>1, <2>2
  <2> QED
    BY <2>2, <2>3 DEF IsList
<1> QED
  BY <1>4, <1>6, <1>7, <1>8

LEMMA NothingTold == ASSUME NEW v, NEW S PROVE BroadAll(v, S, <<>>) = v /\ IsList(<<>>)
<1>1. DOMAIN <<>> = 1..0
  OBVIOUS
<1>2. Telling!Folded(S, v, <<>>) = v
  BY <1>1, Telling!FoldOfNone
<1>3. <<>> \in Seq({<<>>[i] : i \in DOMAIN <<>>})
  OBVIOUS
<1> QED
  BY <1>2, <1>3, BroadAllIsFold DEF IsList

LEMMA OneMoreTold ==
    ASSUME NEW v, NEW S, NEW q, IsList(q), NEW pkt
    PROVE  BroadAll(v, S, q \o <<pkt>>) = Broad(BroadAll(v, S, q), S, pkt)
<1>1. PICK t, n : t = q \o <<pkt>> /\ n = Len(q)
  OBVIOUS
<1>2. /\ n \in Nat /\ DOMAIN q = 1..n /\ DOMAIN t = 1..(n + 1)
      /\ \A i \in 1..n : t[i] = q[i]
      /\ t[n + 1] = pkt
  BY <1>1, ListGrows
<1>3. Telling!Folded(S, v, t) = Tell(S, Telling!Folded(S, v, q), t[n + 1])
  BY <1>2, Telling!FoldOneMore
<1> QED
  BY <1>1, <1>2, <1>3, BroadAllIsFold DEF Tell

-----------------------------------------------------------------------------
(* A world, and what the clients would know had they got its packets        *)

IsWorld(w) ==
    /\ w = [men |-> w.men, plants |-> w.plants, thrones |-> w.thrones, out |-> w.out]
    /\ SceneOK(w.men, w.plants, w.thrones) /\ IsList(w.out)

AllClients(v) == v = [p \in Fighter |-> v[p]]

Shows(w, ly) ==
    /\ AllClients(BroadAll(view, inScene, w.out))
    /\ \A p \in inScene :
          Sees(BroadAll(view, inScene, w.out)[p], inScene, w.men, w.plants, w.thrones, ly, stage)

LEMMA BroadToAll == ASSUME NEW v, NEW S, NEW pkt PROVE AllClients(Broad(v, S, pkt))
BY DEF Broad, AllClients

Right(w, ly) == IsWorld(w) /\ Shows(w, ly)

LEMMA Saying ==
    ASSUME inScene \subseteq Fighter, NEW w, NEW ly, NEW ly2, Right(w, ly), NEW pkt,
           NEW m, NEW pl, NEW th, SceneOK(m, pl, th),
           \A v : Sees(v, inScene, w.men, w.plants, w.thrones, ly, stage)
                     => Sees(Apply(v, pkt), inScene, m, pl, th, ly2, stage)
    PROVE  Right([men |-> m, plants |-> pl, thrones |-> th, out |-> w.out \o <<pkt>>], ly2)
<1>1. IsList(w.out) /\ IsList(w.out \o <<pkt>>)
  BY ListGrows DEF Right, IsWorld
<1>2. PICK x : x = [men |-> m, plants |-> pl, thrones |-> th, out |-> w.out \o <<pkt>>]
  OBVIOUS
<1>3. /\ x.men = m /\ x.plants = pl /\ x.thrones = th /\ x.out = w.out \o <<pkt>>
      /\ x = [men |-> x.men, plants |-> x.plants, thrones |-> x.thrones, out |-> x.out]
  BY <1>2
<1>4. IsWorld(x)
  BY <1>1, <1>3 DEF IsWorld
<1>5. ASSUME NEW p \in inScene
      PROVE  Sees(BroadAll(view, inScene, x.out)[p], inScene, m, pl, th, ly2, stage)
  <2>1. BroadAll(view, inScene, x.out) = Broad(BroadAll(view, inScene, w.out), inScene, pkt)
    BY <1>1, <1>3, OneMoreTold
  <2>2. BroadAll(view, inScene, x.out)[p] = Apply(BroadAll(view, inScene, w.out)[p], pkt)
    BY <2>1 DEF Broad
  <2>3. Sees(BroadAll(view, inScene, w.out)[p], inScene, w.men, w.plants, w.thrones, ly, stage)
    BY DEF Right, Shows
  <2> QED
    BY <2>2, <2>3
<1>6. Shows(x, ly2)
  <2>1. BroadAll(view, inScene, x.out) = Broad(BroadAll(view, inScene, w.out), inScene, pkt)
    BY <1>1, <1>3, OneMoreTold
  <2>2. AllClients(BroadAll(view, inScene, x.out))
    BY <2>1, BroadToAll
  <2> QED
    BY <1>3, <1>5, <2>2 DEF Shows
<1> QED
  BY <1>2, <1>4, <1>6 DEF Right

LEMMA SayIs ==
    ASSUME NEW w, IsWorld(w), NEW q
    PROVE  Say(w, q) = [men |-> w.men, plants |-> w.plants, thrones |-> w.thrones, out |-> w.out \o q]
<1>1. PICK t : t = w.out \o q
  OBVIOUS
<1>2. w = [men |-> w.men, plants |-> w.plants, thrones |-> w.thrones, out |-> w.out]
  BY DEF IsWorld
<1>3. [w EXCEPT !.out = t] = [men |-> w.men, plants |-> w.plants, thrones |-> w.thrones, out |-> t]
  BY <1>2
<1>4. Say(w, q) = [w EXCEPT !.out = t]
  BY <1>1, Zenon DEF Say
<1> QED
  BY <1>1, <1>3, <1>4, Zenon

\* A packet of which nobody makes anything.
LEMMA SayingNothing ==
    ASSUME inScene \subseteq Fighter, NEW w, NEW ly, Right(w, ly), NEW pkt,
           pkt.op \in {"USE_SKILL", "PET_DEAD"}
    PROVE  Right(Say(w, <<pkt>>), ly)
<1>1. SceneOK(w.men, w.plants, w.thrones)
  BY DEF Right, IsWorld
<1>2. \A v : Apply(v, pkt) = v
  BY NothingIsSeen
<1>3. Right([men |-> w.men, plants |-> w.plants, thrones |-> w.thrones, out |-> w.out \o <<pkt>>], ly)
  BY <1>1, <1>2, Saying
<1>4. Say(w, <<pkt>>)
        = [men |-> w.men, plants |-> w.plants, thrones |-> w.thrones, out |-> w.out \o <<pkt>>]
  BY SayIs DEF Right
<1> QED
  BY <1>3, <1>4

\* The hit points of one player, or the title of one, in a world.
LEMMA ManChanges ==
    ASSUME NEW men, NEW pl, NEW th, SceneOK(men, pl, th), NEW p \in Fighter, NEW n
    PROVE  /\ SceneOK([men EXCEPT ![p].hp = n], pl, th)
           /\ SceneOK([men EXCEPT ![p].title = n], pl, th)
<1>1. men = [q \in Fighter |-> men[q]] /\ \A q \in Fighter : IsMan(men[q])
  BY DEF SceneOK
<1>2. ASSUME NEW x, \A q \in Fighter : IsMan(x[q]), x = [q \in Fighter |-> x[q]]
      PROVE  SceneOK(x, pl, th)
  BY <1>2 DEF SceneOK
<1>3. IsMan([men[p] EXCEPT !.hp = n]) /\ IsMan([men[p] EXCEPT !.title = n])
  BY <1>1 DEF IsMan
<1>4. /\ [men EXCEPT ![p].hp = n] = [q \in Fighter |-> IF q = p THEN [men[p] EXCEPT !.hp = n] ELSE men[q]]
      /\ [men EXCEPT ![p].title = n]
           = [q \in Fighter |-> IF q = p THEN [men[p] EXCEPT !.title = n] ELSE men[q]]
  BY <1>1
<1>5. PICK x : x = [men EXCEPT ![p].hp = n]
  OBVIOUS
<1>6. PICK y : y = [men EXCEPT ![p].title = n]
  OBVIOUS
<1>7. x = [q \in Fighter |-> x[q]] /\ \A q \in Fighter : IsMan(x[q])
  BY <1>1, <1>3, <1>4, <1>5
<1>8. y = [q \in Fighter |-> y[q]] /\ \A q \in Fighter : IsMan(y[q])
  BY <1>1, <1>3, <1>4, <1>6
<1> QED
  BY <1>2, <1>5, <1>6, <1>7, <1>8

\* The order in which the hit points of one and the title of one are changed.
HpSet(men, p, n) == [men EXCEPT ![p].hp = n]
TitleSet(men, p, n) == [men EXCEPT ![p].title = n]

LEMMA ChangesCommute ==
    ASSUME NEW men, men = [q \in Fighter |-> men[q]], \A q \in Fighter : IsMan(men[q]),
           NEW p \in Fighter, NEW q \in Fighter, NEW n, NEW k
    PROVE  /\ TitleSet(HpSet(men, p, n), q, k) = HpSet(TitleSet(men, q, k), p, n)
           /\ [men EXCEPT ![p].hp = n][q].title = men[q].title
           /\ [men EXCEPT ![q].title = k][p].hp = men[p].hp
           /\ [men EXCEPT ![p].hp = n][p].hp = n
<1>1. PICK a, b : /\ a = [men EXCEPT ![p] = [men[p] EXCEPT !.hp = n]]
                  /\ b = [men EXCEPT ![q] = [men[q] EXCEPT !.title = k]]
  OBVIOUS
<1>2. /\ a = [r \in Fighter |-> IF r = p THEN [men[p] EXCEPT !.hp = n] ELSE men[r]]
      /\ b = [r \in Fighter |-> IF r = q THEN [men[q] EXCEPT !.title = k] ELSE men[r]]
  BY <1>1
<1>3. /\ [men[p] EXCEPT !.hp = n] = [pet |-> men[p].pet, hp |-> n, title |-> men[p].title, team |-> men[p].team]
      /\ [men[q] EXCEPT !.title = k] = [pet |-> men[q].pet, hp |-> men[q].hp, title |-> k, team |-> men[q].team]
  BY DEF IsMan
<1>4. a[q].title = men[q].title /\ b[p].hp = men[p].hp /\ a[p].hp = n
  BY <1>2, <1>3
<1>5. [a[q] EXCEPT !.title = k]
        = [pet |-> men[q].pet, hp |-> IF p = q THEN n ELSE men[q].hp, title |-> k, team |-> men[q].team]
  BY <1>2, <1>3 DEF IsMan
<1>6. [b[p] EXCEPT !.hp = n]
        = [pet |-> men[p].pet, hp |-> n, title |-> IF p = q THEN k ELSE men[p].title, team |-> men[p].team]
  BY <1>2, <1>3 DEF IsMan
<1>7. [a EXCEPT ![q] = [a[q] EXCEPT !.title = k]] = [b EXCEPT ![p] = [b[p] EXCEPT !.hp = n]]
  <2>1. ASSUME NEW r \in Fighter
        PROVE  [a EXCEPT ![q] = [a[q] EXCEPT !.title = k]][r] = [b EXCEPT ![p] = [b[p] EXCEPT !.hp = n]][r]
    <3>1. CASE r = p /\ r = q
      BY <1>2, <1>5, <1>6, <3>1
    <3>2. CASE r = p /\ r # q
      BY <1>2, <1>3, <1>6, <3>2
    <3>3. CASE r # p /\ r = q
      BY <1>2, <1>3, <1>5, <3>3
    <3>4. CASE r # p /\ r # q
      BY <1>2, <3>4
    <3> QED
      BY <3>1, <3>2, <3>3, <3>4
  <2>2. DOMAIN a = Fighter /\ DOMAIN b = Fighter
    BY <1>2
  <2>3. /\ [a EXCEPT ![q] = [a[q] EXCEPT !.title = k]]
             = [r \in Fighter |-> [a EXCEPT ![q] = [a[q] EXCEPT !.title = k]][r]]
        /\ [b EXCEPT ![p] = [b[p] EXCEPT !.hp = n]]
             = [r \in Fighter |-> [b EXCEPT ![p] = [b[p] EXCEPT !.hp = n]][r]]
    BY <1>2
  <2> QED
    BY <2>1, <2>3
<1>8. TitleSet(HpSet(men, p, n), q, k) = HpSet(TitleSet(men, q, k), p, n)
  BY <1>1, <1>7 DEF TitleSet, HpSet
<1> QED
  BY <1>1, <1>4, <1>8

-----------------------------------------------------------------------------
(* A blow                                                                   *)

LEMMA TwoPackets ==
    ASSUME NEW q, IsList(q), NEW a, NEW b
    PROVE  q \o (<<a>> \o <<b>>) = (q \o <<a>>) \o <<b>> /\ <<>> \o <<b>> = <<b>>
<1>1. PICK S : S = {q[i] : i \in DOMAIN q} \cup {a, b}
  OBVIOUS
<1>2. q \in Seq(S)
  <2>1. q \in Seq({q[i] : i \in DOMAIN q})
    BY DEF IsList
  <2>2. Len(q) \in Nat /\ DOMAIN q = 1..Len(q) /\ q \in [1..Len(q) -> S]
    BY <1>1, <2>1
  <2> QED
    BY <2>1, <2>2
<1>3. <<a>> \in Seq(S) /\ <<b>> \in Seq(S)
  BY <1>1
<1>4. \A x, y, z \in Seq(S) : x \o (y \o z) = (x \o y) \o z
  OBVIOUS
<1>5. <<>> \o <<b>> = <<b>>
  BY <1>3
<1> QED
  BY <1>2, <1>3, <1>4, <1>5, Zenon

\* Hit points taken from a player, and told.
LEMMA HurtManTold ==
    ASSUME inScene \subseteq Fighter, NEW w, NEW ly, Right(w, ly), NEW p \in Fighter, NEW n
    PROVE  Right([men |-> [w.men EXCEPT ![p].hp = @ - n], plants |-> w.plants,
                  thrones |-> w.thrones, out |-> w.out \o <<OnHurtPacket(p, n)>>], ly)
<1>1. SceneOK(w.men, w.plants, w.thrones)
  BY DEF Right, IsWorld
<1>2. PICK m : m = [w.men EXCEPT ![p].hp = @ - n]
  OBVIOUS
<1>3. SceneOK(m, w.plants, w.thrones)
  BY <1>1, <1>2, ManChanges
<1>4. ASSUME NEW v, Sees(v, inScene, w.men, w.plants, w.thrones, ly, stage)
      PROVE  Sees(Apply(v, OnHurtPacket(p, n)), inScene, m, w.plants, w.thrones, ly, stage)
  BY <1>1, <1>2, <1>4, HurtManIsSeen
<1>5. Right([men |-> m, plants |-> w.plants, thrones |-> w.thrones,
             out |-> w.out \o <<OnHurtPacket(p, n)>>], ly)
  BY <1>3, <1>4, Saying
<1> QED
  BY <1>2, <1>5

LEMMA TitleTold ==
    ASSUME inScene \subseteq Fighter, NEW w, NEW ly, Right(w, ly), NEW p \in Fighter, NEW n
    PROVE  Right([men |-> [w.men EXCEPT ![p].title = n], plants |-> w.plants, thrones |-> w.thrones,
                  out |-> w.out \o <<[op |-> "GET_TITLE", id |-> p, title |-> n]>>], ly)
<1>1. SceneOK(w.men, w.plants, w.thrones)
  BY DEF Right, IsWorld
<1>2. PICK m : m = [w.men EXCEPT ![p].title = n]
  OBVIOUS
<1>3. PICK pkt : pkt = [op |-> "GET_TITLE", id |-> p, title |-> n]
  OBVIOUS
<1>4. SceneOK(m, w.plants, w.thrones)
  BY <1>1, <1>2, ManChanges
<1>5. ASSUME NEW v, Sees(v, inScene, w.men, w.plants, w.thrones, ly, stage)
      PROVE  Sees(Apply(v, pkt), inScene, m, w.plants, w.thrones, ly, stage)
  BY <1>1, <1>2, <1>3, <1>5, TitleIsSeen
<1>6. Right([men |-> m, plants |-> w.plants, thrones |-> w.thrones, out |-> w.out \o <<pkt>>], ly)
  BY <1>4, <1>5, Saying
<1> QED
  BY <1>2, <1>3, <1>6

LEMMA MenIs ==
    ASSUME NEW w, IsWorld(w), NEW m
    PROVE  [w EXCEPT !.men = m] = [men |-> m, plants |-> w.plants, thrones |-> w.thrones, out |-> w.out]
BY DEF IsWorld

LEMMA HitManTold ==
    ASSUME inScene \subseteq Fighter, NEW w, NEW ly, Right(w, ly), NEW p \in Fighter, NEW me, NEW d
    PROVE  Right(HitMan(w, me, p, d), ly) /\ HitMan(w, me, p, d).plants = w.plants
<1>1. PICK n : n = Least2(d, w.men[p].hp)
  OBVIOUS
<1>2. PICK h : h = [w EXCEPT !.men[p].hp = @ - n]
  OBVIOUS
<1>3. PICK hurt, dying : hurt = OnHurtPacket(p, n) /\ dying = [op |-> "PET_DEAD", id |-> p]
  OBVIOUS
<1>4. HitMan(w, me, p, d)
        = Say(IF h.men[p].hp = 0 THEN Credit(h, me) ELSE h,
              (IF h.men[p].hp = 0 THEN <<dying>> ELSE <<>>) \o <<hurt>>)
  BY <1>1, <1>2, <1>3, Zenon DEF HitMan
<1>5. IsWorld(w) /\ SceneOK(w.men, w.plants, w.thrones) /\ IsList(w.out)
  BY DEF Right, IsWorld
<1>6. /\ h.men = [w.men EXCEPT ![p].hp = @ - n]
      /\ h.plants = w.plants /\ h.thrones = w.thrones /\ h.out = w.out
      /\ h = [men |-> h.men, plants |-> h.plants, thrones |-> h.thrones, out |-> h.out]
  <2>1. h = [w EXCEPT !.men = [w.men EXCEPT ![p].hp = @ - n]]
    BY <1>2
  <2>2. h = [men |-> [w.men EXCEPT ![p].hp = @ - n], plants |-> w.plants, thrones |-> w.thrones,
             out |-> w.out]
    BY <1>5, <2>1, MenIs
  <2> QED
    BY <2>2
<1>7. IsWorld(h)
  <2>1. SceneOK(h.men, h.plants, h.thrones)
    <3>1. PICK hp : hp = w.men[p].hp - n
      OBVIOUS
    <3>2. h.men = [w.men EXCEPT ![p].hp = hp] /\ h.plants = w.plants /\ h.thrones = w.thrones
      BY <1>6, <3>1
    <3>3. SceneOK([w.men EXCEPT ![p].hp = hp], w.plants, w.thrones)
      BY <1>5, ManChanges
    <3> QED
      BY <3>2, <3>3
  <2> QED
    BY <1>5, <1>6, <2>1 DEF IsWorld
<1>8. CASE h.men[p].hp # 0
  <2>1. HitMan(w, me, p, d) = Say(h, <<hurt>>)
    BY <1>4, <1>5, <1>8, TwoPackets
  <2>2. Right([men |-> h.men, plants |-> h.plants, thrones |-> h.thrones, out |-> h.out \o <<hurt>>], ly)
    BY <1>3, <1>6, HurtManTold
  <2>3. HitMan(w, me, p, d)
          = [men |-> h.men, plants |-> h.plants, thrones |-> h.thrones, out |-> h.out \o <<hurt>>]
    BY <1>7, <2>1, SayIs
  <2> QED
    BY <1>6, <2>2, <2>3
<1>9. CASE h.men[p].hp = 0 /\ Credit(h, me) = h
  <2>1. HitMan(w, me, p, d) = Say(h, <<dying>> \o <<hurt>>)
    BY <1>4, <1>9
  <2>2. PICK x : x = Say(w, <<dying>>)
    OBVIOUS
  <2>3. Right(x, ly)
    BY <1>3, <2>2, SayingNothing
  <2>4. x.men = w.men /\ x.plants = w.plants /\ x.thrones = w.thrones /\ x.out = w.out \o <<dying>>
    <3>1. x = [men |-> w.men, plants |-> w.plants, thrones |-> w.thrones, out |-> w.out \o <<dying>>]
      BY <1>5, <2>2, SayIs
    <3> QED
      BY <3>1
  <2>5. Right([men |-> [x.men EXCEPT ![p].hp = @ - n], plants |-> x.plants,
               thrones |-> x.thrones, out |-> x.out \o <<OnHurtPacket(p, n)>>], ly)
    BY <2>3, HurtManTold
  <2>6. [men |-> [x.men EXCEPT ![p].hp = @ - n], plants |-> x.plants,
         thrones |-> x.thrones, out |-> x.out \o <<OnHurtPacket(p, n)>>]
          = [men |-> h.men, plants |-> h.plants, thrones |-> h.thrones,
             out |-> h.out \o (<<dying>> \o <<hurt>>)]
    <3>1. x.out \o <<OnHurtPacket(p, n)>> = h.out \o (<<dying>> \o <<hurt>>)
      BY <1>3, <1>5, <1>6, <2>4, TwoPackets
    <3> QED
      BY <1>6, <2>4, <3>1
  <2>7. HitMan(w, me, p, d)
          = [men |-> h.men, plants |-> h.plants, thrones |-> h.thrones,
             out |-> h.out \o (<<dying>> \o <<hurt>>)]
    BY <1>7, <2>1, SayIs
  <2> QED
    BY <1>6, <2>5, <2>6, <2>7
<1>10. CASE h.men[p].hp = 0 /\ Credit(h, me) # h
  <2>1. PICK t, k : /\ t = [op |-> "GET_TITLE", id |-> me, title |-> h.men[me].title + 1]
                    /\ k = [h EXCEPT !.men[me].title = @ + 1]
    OBVIOUS
  <2>2. me \in Fighter /\ Credit(h, me) = Say(k, <<t>>)
    BY <1>10, <2>1 DEF Credit
  <2>3. HitMan(w, me, p, d) = Say(Say(k, <<t>>), <<dying>> \o <<hurt>>)
    BY <1>4, <1>10, <2>2
  <2>4. /\ k.men = [h.men EXCEPT ![me].title = h.men[me].title + 1]
        /\ k.plants = w.plants /\ k.thrones = w.thrones /\ k.out = w.out
        /\ k = [men |-> k.men, plants |-> k.plants, thrones |-> k.thrones, out |-> k.out]
    <3>1. k = [h EXCEPT !.men = [h.men EXCEPT ![me].title = h.men[me].title + 1]]
      BY <2>1
    <3>2. k = [men |-> [h.men EXCEPT ![me].title = h.men[me].title + 1], plants |-> h.plants,
               thrones |-> h.thrones, out |-> h.out]
      BY <1>7, <3>1, MenIs
    <3> QED
      BY <1>6, <3>2
  <2>5. IsWorld(k)
    <3>1. SceneOK(k.men, k.plants, k.thrones)
      <4>1. PICK title : title = h.men[me].title + 1
        OBVIOUS
      <4>2. SceneOK(h.men, h.plants, h.thrones)
        BY <1>7 DEF IsWorld
      <4>3. SceneOK([h.men EXCEPT ![me].title = title], h.plants, h.thrones)
        BY <2>2, <4>2, ManChanges
      <4>4. k.men = [h.men EXCEPT ![me].title = title] /\ k.plants = h.plants /\ k.thrones = h.thrones
        BY <1>6, <2>4, <4>1
      <4> QED
        BY <4>3, <4>4
    <3> QED
      BY <1>5, <2>4, <3>1 DEF IsWorld
  <2>6. PICK x : x = [men |-> [w.men EXCEPT ![me].title = h.men[me].title + 1], plants |-> w.plants,
                      thrones |-> w.thrones, out |-> w.out \o <<t>>]
    OBVIOUS
  <2>7. Right(x, ly)
    BY <2>1, <2>2, <2>6, TitleTold
  <2>8. PICK y : y = Say(x, <<dying>>)
    OBVIOUS
  <2>9. Right(y, ly)
    BY <1>3, <2>7, <2>8, SayingNothing
  <2>10. /\ x.men = [w.men EXCEPT ![me].title = h.men[me].title + 1] /\ x.plants = w.plants
         /\ x.thrones = w.thrones /\ x.out = w.out \o <<t>> /\ IsList(x.out)
    BY <1>5, <2>6, ListGrows
  <2>11. y.men = x.men /\ y.plants = x.plants /\ y.thrones = x.thrones /\ y.out = x.out \o <<dying>>
    <3>1. y = [men |-> x.men, plants |-> x.plants, thrones |-> x.thrones, out |-> x.out \o <<dying>>]
      BY <2>7, <2>8, SayIs DEF Right
    <3> QED
      BY <3>1
  <2>12. Right([men |-> [y.men EXCEPT ![p].hp = @ - n], plants |-> y.plants,
                thrones |-> y.thrones, out |-> y.out \o <<hurt>>], ly)
    BY <1>3, <2>9, HurtManTold
  <2>13. [y.men EXCEPT ![p].hp = @ - n] = k.men
    <3>1. w.men = [q \in Fighter |-> w.men[q]] /\ \A q \in Fighter : IsMan(w.men[q])
      BY <1>5 DEF SceneOK
    <3>2. PICK title, hp : title = h.men[me].title + 1 /\ hp = w.men[p].hp - n
      OBVIOUS
    <3>3. y.men = [w.men EXCEPT ![me].title = title] /\ h.men = [w.men EXCEPT ![p].hp = hp]
      BY <1>6, <2>10, <2>11, <3>2
    <3>4. y.men[p].hp = w.men[p].hp
      BY <2>2, <3>1, <3>3, ChangesCommute
    <3>5. [y.men EXCEPT ![p].hp = @ - n] = [y.men EXCEPT ![p].hp = hp]
      BY <3>2, <3>4
    <3>6. k.men = [h.men EXCEPT ![me].title = title]
      BY <2>4, <3>2
    <3>7. TitleSet(HpSet(w.men, p, hp), me, title) = HpSet(TitleSet(w.men, me, title), p, hp)
      BY <2>2, <3>1, ChangesCommute
    <3>8. HpSet(w.men, p, hp) = h.men /\ TitleSet(w.men, me, title) = y.men
      BY <3>3 DEF HpSet, TitleSet
    <3>9. TitleSet(h.men, me, title) = k.men /\ HpSet(y.men, p, hp) = [y.men EXCEPT ![p].hp = hp]
      BY <3>6 DEF HpSet, TitleSet
    <3> QED
      BY <3>5, <3>7, <3>8, <3>9
  <2>14. PICK z : z = Say(k, <<t>>)
    OBVIOUS
  <2>15. z = [men |-> k.men, plants |-> k.plants, thrones |-> k.thrones, out |-> k.out \o <<t>>]
    BY <2>5, <2>14, SayIs
  <2>16. IsWorld(z)
    <3>1. z.men = k.men /\ z.plants = k.plants /\ z.thrones = k.thrones /\ z.out = k.out \o <<t>>
      BY <2>15
    <3>2. IsList(z.out)
      BY <1>5, <2>4, <3>1, ListGrows
    <3> QED
      BY <2>5, <2>15, <3>1, <3>2 DEF IsWorld
  <2>17. Say(z, <<dying>> \o <<hurt>>)
           = [men |-> k.men, plants |-> w.plants, thrones |-> w.thrones,
              out |-> (w.out \o <<t>>) \o (<<dying>> \o <<hurt>>)]
    <3>1. z.men = k.men /\ z.plants = w.plants /\ z.thrones = w.thrones /\ z.out = w.out \o <<t>>
      BY <2>4, <2>15
    <3> QED
      BY <2>16, <3>1, SayIs
  <2>18. (w.out \o <<t>>) \o (<<dying>> \o <<hurt>>) = y.out \o <<hurt>>
    BY <2>10, <2>11, TwoPackets
  <2>19. HitMan(w, me, p, d)
           = [men |-> [y.men EXCEPT ![p].hp = @ - n], plants |-> y.plants,
              thrones |-> y.thrones, out |-> y.out \o <<hurt>>]
    BY <2>3, <2>10, <2>11, <2>13, <2>14, <2>17, <2>18
  <2>20. y.plants = w.plants
    BY <2>10, <2>11
  <2> QED
    BY <2>12, <2>19, <2>20
<1> QED
  BY <1>8, <1>9, <1>10

LEMMA MinusKeeps ==
    ASSUME NEW f, f = [y \in DOMAIN f |-> f[y]], NEW x, NEW n
    PROVE  /\ DOMAIN Minus(f, x, n) = DOMAIN f
           /\ Minus(f, x, n) = [y \in DOMAIN f |-> Minus(f, x, n)[y]]
           /\ x \in DOMAIN f => Minus(f, x, n) = [f EXCEPT ![x] = @ - n]
           /\ x \notin DOMAIN f => Minus(f, x, n) = f /\ [f EXCEPT ![x] = @ - n] = f
<1>1. CASE x \in DOMAIN f
  <2>1. PICK g : g = [f EXCEPT ![x] = @ - n]
    OBVIOUS
  <2>2. Minus(f, x, n) = g
    BY <1>1, <2>1 DEF Minus
  <2>3. DOMAIN g = DOMAIN f /\ g = [y \in DOMAIN f |-> g[y]]
    BY <2>1
  <2> QED
    BY <1>1, <2>1, <2>2, <2>3
<1>2. CASE x \notin DOMAIN f
  <2>1. Minus(f, x, n) = f
    BY <1>2 DEF Minus
  <2>2. [f EXCEPT ![x] = @ - n] = f
    BY <1>2
  <2> QED
    BY <1>2, <2>1, <2>2
<1> QED
  BY <1>1, <1>2

\* Hit points taken from a flower, and told.
LEMMA HurtPlantTold ==
    ASSUME inScene \subseteq Fighter, NEW w, NEW ly, Right(w, ly), NEW x \in DOMAIN w.plants, NEW n,
           NEW pl, pl = [w.plants EXCEPT ![x].hp = @ - n]
    PROVE  Right([men |-> w.men, plants |-> pl, thrones |-> w.thrones,
                  out |-> w.out \o <<OnHurtPacket(w.plants[x].id, n)>>], ly)
<1>1. SceneOK(w.men, w.plants, w.thrones)
  BY DEF Right, IsWorld
<1>2. PICK pkt : pkt = OnHurtPacket(w.plants[x].id, n)
  OBVIOUS
<1>3. SceneOK(w.men, pl, w.thrones)
  BY <1>1, HurtBed DEF SceneOK
<1>4. ASSUME NEW v, Sees(v, inScene, w.men, w.plants, w.thrones, ly, stage)
      PROVE  Sees(Apply(v, pkt), inScene, w.men, pl, w.thrones, ly, stage)
  BY <1>1, <1>2, <1>4, HurtPlantIsSeen
<1>5. Right([men |-> w.men, plants |-> pl, thrones |-> w.thrones, out |-> w.out \o <<pkt>>], ly)
  BY <1>3, <1>4, Saying
<1> QED
  BY <1>2, <1>5

\* Hit points taken from a building, and told.
LEMMA HurtThroneTold ==
    ASSUME inScene \subseteq Fighter, NEW w, NEW ly, Right(w, ly), NEW u, u \notin Fighter,
           u \notin Plant, NEW n, NEW th, th = Minus(w.thrones, u, n)
    PROVE  Right([men |-> w.men, plants |-> w.plants, thrones |-> th,
                  out |-> w.out \o <<OnHurtPacket(u, n)>>], ly)
<1>1. SceneOK(w.men, w.plants, w.thrones)
  BY DEF Right, IsWorld
<1>2. th = [y \in DOMAIN th |-> th[y]] /\ DOMAIN th = Throne
  <2>1. w.thrones = [y \in Throne |-> w.thrones[y]] /\ DOMAIN w.thrones = Throne
    BY <1>1 DEF SceneOK
  <2> QED
    BY <2>1, MinusKeeps
<1>3. SceneOK(w.men, w.plants, th)
  BY <1>1, <1>2 DEF SceneOK
<1>4. ASSUME NEW v, Sees(v, inScene, w.men, w.plants, w.thrones, ly, stage)
      PROVE  Sees(Apply(v, OnHurtPacket(u, n)), inScene, w.men, w.plants, th, ly, stage)
  BY <1>1, <1>4, HurtThroneIsSeen
<1> QED
  BY <1>3, <1>4, Saying

LEMMA HitPlantTold ==
    ASSUME inScene \subseteq Fighter, NEW w, NEW ly, Right(w, ly), NEW x \in DOMAIN w.plants, NEW d
    PROVE  Right(HitPlant(w, x, d), ly) /\ DOMAIN HitPlant(w, x, d).plants = DOMAIN w.plants
<1>1. IsWorld(w) /\ SceneOK(w.men, w.plants, w.thrones)
  BY DEF Right, IsWorld
<1>2. PICK n : n = Least2(d, w.plants[x].hp)
  OBVIOUS
<1>3. PICK hurt : hurt = OnHurtPacket(w.plants[x].id, n)
  OBVIOUS
<1>4. PICK pl : pl = [w.plants EXCEPT ![x].hp = @ - n]
  OBVIOUS
<1>5. PICK y : y = [w EXCEPT !.plants[x].hp = @ - n]
  OBVIOUS
<1>6. HitPlant(w, x, d) = Say(y, <<hurt>>)
  BY <1>2, <1>3, <1>5, Zenon DEF HitPlant
<1>7. y = [men |-> w.men, plants |-> pl, thrones |-> w.thrones, out |-> w.out]
  <2>1. y = [w EXCEPT !.plants = pl]
    BY <1>4, <1>5
  <2> QED
    BY <1>1, <2>1 DEF IsWorld
<1>8. /\ SceneOK(w.men, pl, w.thrones) /\ DOMAIN pl = DOMAIN w.plants
  BY <1>1, <1>4, HurtBed DEF SceneOK
<1>9. /\ IsWorld(y) /\ y.men = w.men /\ y.plants = pl /\ y.thrones = w.thrones
      /\ y.out = w.out
  BY <1>1, <1>7, <1>8 DEF IsWorld
<1>10. Say(y, <<hurt>>)
         = [men |-> y.men, plants |-> y.plants, thrones |-> y.thrones, out |-> y.out \o <<hurt>>]
  BY <1>9, SayIs
<1>11. Right([men |-> w.men, plants |-> pl, thrones |-> w.thrones, out |-> w.out \o <<hurt>>], ly)
  BY <1>3, <1>4, HurtPlantTold
<1>12. Say(y, <<hurt>>).plants = pl
  BY <1>9, <1>10
<1> QED
  BY <1>6, <1>8, <1>9, <1>10, <1>11, <1>12

LEMMA HitThroneTold ==
    ASSUME inScene \subseteq Fighter, NEW w, NEW ly, Right(w, ly), NEW u, u \notin Fighter,
           u \notin Plant, NEW d
    PROVE  Right(HitThrone(w, u, d), ly) /\ HitThrone(w, u, d).plants = w.plants
<1>1. IsWorld(w) /\ SceneOK(w.men, w.plants, w.thrones)
  BY DEF Right, IsWorld
<1>2. PICK n, hurt : n = Least2(d, w.thrones[u]) /\ hurt = OnHurtPacket(u, n)
  OBVIOUS
<1>3. PICK th : th = Minus(w.thrones, u, n)
  OBVIOUS
<1>4. th = [w.thrones EXCEPT ![u] = @ - n]
  <2>1. w.thrones = [y \in DOMAIN w.thrones |-> w.thrones[y]]
    BY <1>1 DEF SceneOK
  <2> QED
    BY <1>3, <2>1, MinusKeeps
<1>5. PICK y : y = [w EXCEPT !.thrones[u] = @ - n]
  OBVIOUS
<1>6. HitThrone(w, u, d) = Say(y, <<hurt>>)
  BY <1>2, <1>5, Zenon DEF HitThrone
<1>7. y = [men |-> w.men, plants |-> w.plants, thrones |-> th, out |-> w.out]
  <2>1. y = [w EXCEPT !.thrones = th]
    BY <1>4, <1>5
  <2> QED
    BY <1>1, <2>1 DEF IsWorld
<1>8. y.men = w.men /\ y.plants = w.plants /\ y.thrones = th /\ y.out = w.out
  BY <1>7
<1>9. SceneOK(w.men, w.plants, th)
  <2>1. th = [b \in DOMAIN th |-> th[b]] /\ DOMAIN th = Throne
    <3>1. w.thrones = [b \in Throne |-> w.thrones[b]] /\ DOMAIN w.thrones = Throne
      BY <1>1 DEF SceneOK
    <3> QED
      BY <1>3, <3>1, MinusKeeps
  <2> QED
    BY <1>1, <2>1 DEF SceneOK
<1>10. IsWorld(y)
  BY <1>1, <1>7, <1>8, <1>9 DEF IsWorld
<1>11. Say(y, <<hurt>>)
         = [men |-> y.men, plants |-> y.plants, thrones |-> y.thrones, out |-> y.out \o <<hurt>>]
  BY <1>10, SayIs
<1>12. Right([men |-> w.men, plants |-> w.plants, thrones |-> th, out |-> w.out \o <<hurt>>], ly)
  BY <1>2, <1>3, HurtThroneTold
<1>13. Say(y, <<hurt>>).plants = w.plants
  BY <1>8, <1>11
<1> QED
  BY <1>6, <1>8, <1>11, <1>12, <1>13

\* A blow to anything takes no flower from the list.
LEMMA HitTold ==
    ASSUME inScene \subseteq Fighter, NEW w, NEW ly, Right(w, ly), NEW me, NEW u, u \notin Plant, NEW d
    PROVE  Right(Hit(w, me, u, d), ly) /\ DOMAIN Hit(w, me, u, d).plants = DOMAIN w.plants
<1>1. CASE u \in Fighter
  <2>1. u \notin DOMAIN w.plants
    BY <1>1, ViewAssumption DEF Right, IsWorld, SceneOK, BedOK
  <2>2. Hit(w, me, u, d) = HitMan(w, me, u, d)
    BY <1>1, <2>1 DEF Hit
  <2> QED
    BY <1>1, <2>2, HitManTold
<1>2. CASE u \notin Fighter /\ u \in DOMAIN w.plants
  BY <1>2, HitPlantTold DEF Hit
<1>3. CASE u \notin Fighter /\ u \notin DOMAIN w.plants
  BY <1>3, HitThroneTold DEF Hit
<1> QED
  BY <1>1, <1>2, <1>3

-----------------------------------------------------------------------------
(* One after the other: bystanders, players, flowers                        *)

LEMMA SetInSeq ==
    ASSUME NEW S, IsFiniteSet(S)
    PROVE  \E n \in Nat : /\ DOMAIN SetToSeq(S) = 1..n
                          /\ \A i \in 1..n : SetToSeq(S)[i] \in S
                          /\ \A i, j \in 1..n : SetToSeq(S)[i] = SetToSeq(S)[j] => i = j
<1>1. PICK n : n = Cardinality(S)
  OBVIOUS
<1>2. n \in Nat /\ ExistsBijection(1..n, S)
  BY <1>1, FS_CardinalityType
<1>3. \E f \in [1..n -> S] : IsInjective(f)
  BY <1>2 DEF ExistsBijection, Bijection, Injection
<1>4. SetToSeq(S) \in [1..n -> S] /\ IsInjective(SetToSeq(S))
  BY <1>1, <1>3 DEF SetToSeq
<1> QED
  BY <1>2, <1>4 DEF IsInjective

SplashOne(c, w, q) == IF w.men[q].hp > 0 THEN Hit(w, "buf", q, 1) ELSE w
Splashing == INSTANCE FoldFacts WITH Op <- SplashOne

LEMMA SplashTold ==
    ASSUME inScene \subseteq Fighter, NEW w, NEW ly, Right(w, ly), NEW p, NEW near
    PROVE  Right(Splashed(w, p, near), ly)
<1>1. PICK s : s = SetToSeq(near \cap OthersOf(p))
  OBVIOUS
<1>2. Splashed(w, p, near) = Splashing!Folded(0, w, s)
  BY <1>1 DEF Splashed, Splashing!Folded, Splashing!FoldLeft, Splashing!MapThenFoldSet, FoldLeft,
       MapThenFoldSet, SplashOne, Max, Splashing!Max
<1>3. IsFiniteSet(near \cap OthersOf(p))
  <2>1. near \cap OthersOf(p) \subseteq Fighter
    BY DEF OthersOf
  <2> QED
    BY <2>1, ViewAssumption, FS_Subset
<1>4. PICK n \in Nat : DOMAIN s = 1..n /\ \A i \in 1..n : s[i] \in OthersOf(p)
  <2>1. PICK T : T = near \cap OthersOf(p)
    OBVIOUS
  <2>2. \E n \in Nat : DOMAIN s = 1..n /\ \A i \in 1..n : s[i] \in T
    BY <1>1, <1>3, <2>1, SetInSeq
  <2> QED
    BY <2>1, <2>2
<1>10. \A i \in 1..n : s[i] \notin Plant
  BY <1>4, ViewAssumption DEF OthersOf
<1>5. PICK f : Splashing!Leads(f, 0, w, s, n) /\ f[n] = Splashing!Folded(0, w, s)
  BY <1>4, Splashing!FoldIsIteration
<1>6. f[0] = w /\ \A i \in 1..n : f[i] = SplashOne(0, f[i - 1], s[i])
  BY <1>5 DEF Splashing!Leads
<1> DEFINE G == {i \in Nat : Right(f[i], ly)}
<1>7. 0 \in G
  BY <1>6
<1>8. ASSUME NEW i \in 1..n, i - 1 \in G
      PROVE  i \in G
  <2>1. Right(f[i - 1], ly) /\ f[i] = SplashOne(0, f[i - 1], s[i])
    BY <1>6, <1>8
  <2>2. Right(Hit(f[i - 1], "buf", s[i], 1), ly)
    BY <1>8, <1>10, <2>1, HitTold
  <2>3. Right(f[i], ly)
    BY <2>1, <2>2 DEF SplashOne
  <2> QED
    BY <2>3
<1>9. n \in G
  <2> HIDE DEF G
  <2> QED
    BY <1>7, <1>8, Splashing!InductionTo
<1> QED
  BY <1>2, <1>5, <1>9

RunOneMan(burn, w, p) == RunMan(w, p, burn)
Burning == INSTANCE FoldFacts WITH Op <- RunOneMan
MenAfter(w, s, burn) == FoldLeft(LAMBDA x, p : RunMan(x, p, burn), w, s)

LEMMA BurnsTold ==
    ASSUME inScene \subseteq Fighter, NEW w, NEW ly, Right(w, ly), NEW burn,
           NEW s, NEW n \in Nat, DOMAIN s = 1..n, \A i \in 1..n : s[i] \in Fighter
    PROVE  /\ Right(MenAfter(w, s, burn), ly)
           /\ DOMAIN MenAfter(w, s, burn).plants = DOMAIN w.plants
<1>1. MenAfter(w, s, burn) = Burning!Folded(burn, w, s)
  BY DEF MenAfter, Burning!Folded, Burning!FoldLeft, Burning!MapThenFoldSet, FoldLeft,
       MapThenFoldSet, RunOneMan, Max, Burning!Max
<1>2. PICK f : Burning!Leads(f, burn, w, s, n) /\ f[n] = Burning!Folded(burn, w, s)
  BY Burning!FoldIsIteration
<1>3. f[0] = w /\ \A i \in 1..n : f[i] = RunOneMan(burn, f[i - 1], s[i])
  BY <1>2 DEF Burning!Leads
<1> DEFINE G == {i \in Nat : Right(f[i], ly) /\ DOMAIN f[i].plants = DOMAIN w.plants}
<1>4. 0 \in G
  BY <1>3
<1>5. ASSUME NEW i \in 1..n, i - 1 \in G
      PROVE  i \in G
  <2>1. /\ Right(f[i - 1], ly) /\ f[i] = RunOneMan(burn, f[i - 1], s[i])
        /\ DOMAIN f[i - 1].plants = DOMAIN w.plants
    BY <1>3, <1>5
  <2>2. /\ Right(Hit(f[i - 1], "buf", s[i], burn), ly)
        /\ DOMAIN Hit(f[i - 1], "buf", s[i], burn).plants = DOMAIN w.plants
    BY <1>5, <2>1, ViewAssumption, HitTold
  <2>3. Right(f[i], ly) /\ DOMAIN f[i].plants = DOMAIN w.plants
    BY <2>1, <2>2 DEF RunOneMan, RunMan
  <2> QED
    BY <2>3
<1>6. n \in G
  <2> HIDE DEF G
  <2> QED
    BY <1>4, <1>5, Burning!InductionTo
<1> QED
  BY <1>1, <1>2, <1>6

\* A flower runs: no other leaves the list.
LEMMA RunPlantTold ==
    ASSUME inScene \subseteq Fighter, NEW w, NEW ly, Right(w, ly),
           NEW f \in DOMAIN w.plants, NEW over, NEW burn, NEW aim, NEW d,
           NEW r, r = RunPlant(w, f, over, burn, aim, d)
    PROVE  Right(r, ly) /\ DOMAIN w.plants \ {f} \subseteq DOMAIN r.plants
<1>1. IsWorld(w) /\ SceneOK(w.men, w.plants, w.thrones) /\ BedOK(w.plants)
  BY DEF Right, IsWorld, SceneOK
<1>2. CASE f <= over \/ w.plants[f].hp = 0
  <2>1. PICK pkt, pl : /\ pkt = [op |-> "DISAPPEAR_FLOWER", id |-> w.plants[f].id]
                       /\ pl = Without(w.plants, f)
    OBVIOUS
  <2>2. r = Say([w EXCEPT !.plants = pl], <<pkt>>)
    BY <1>2, <2>1, Zenon DEF RunPlant
  <2>3. DOMAIN pl = DOMAIN w.plants \ {f} /\ BedOK(pl)
    BY <1>1, <2>1, BedWithout
  <2>4. SceneOK(w.men, pl, w.thrones)
    BY <1>1, <2>3 DEF SceneOK
  <2>5. ASSUME NEW v, Sees(v, inScene, w.men, w.plants, w.thrones, ly, stage)
        PROVE  Sees(Apply(v, pkt), inScene, w.men, pl, w.thrones, ly, stage)
    BY <1>1, <2>1, <2>5, FlowerIsSeenGone
  <2>6. Right([men |-> w.men, plants |-> pl, thrones |-> w.thrones, out |-> w.out \o <<pkt>>], ly)
    BY <2>4, <2>5, Saying
  <2>7. PICK x : x = [w EXCEPT !.plants = pl]
    OBVIOUS
  <2>8. x = [men |-> w.men, plants |-> pl, thrones |-> w.thrones, out |-> w.out]
    BY <1>1, <2>7 DEF IsWorld
  <2>9. IsWorld(x) /\ x.men = w.men /\ x.plants = pl /\ x.thrones = w.thrones /\ x.out = w.out
    BY <1>1, <2>4, <2>8 DEF IsWorld
  <2>10. r = [men |-> x.men, plants |-> x.plants, thrones |-> x.thrones, out |-> x.out \o <<pkt>>]
    BY <2>2, <2>7, <2>9, SayIs
  <2>11. r.plants = pl
    BY <2>9, <2>10
  <2> QED
    BY <2>3, <2>6, <2>9, <2>10, <2>11
<1>3. CASE ~(f <= over \/ w.plants[f].hp = 0)
  <2>1. PICK h : h = IF burn > 0 THEN Hit(w, "buf", f, burn) ELSE w
    OBVIOUS
  <2>2. f \notin Plant
    BY <1>1, ViewAssumption DEF BedOK
  <2>3. Right(h, ly) /\ DOMAIN h.plants = DOMAIN w.plants
    BY <2>1, <2>2, HitTold
  <2>4. PICK y : y = Say(h, <<[op |-> "USE_SKILL"]>>)
    OBVIOUS
  <2>5. Right(y, ly) /\ y.plants = h.plants
    <3>1. IsWorld(h)
      BY <2>3 DEF Right
    <3>2. y = [men |-> h.men, plants |-> h.plants, thrones |-> h.thrones,
               out |-> h.out \o <<[op |-> "USE_SKILL"]>>]
      BY <2>4, <3>1, SayIs
    <3>3. Right(y, ly)
      BY <2>3, <2>4, SayingNothing
    <3> QED
      BY <3>2, <3>3
  <2>6. \/ r = Hit(y, f, aim, d) /\ aim \in inScene \cup Throne
        \/ r = h
    BY <1>3, <2>1, <2>4, Zenon DEF RunPlant
  <2>7. CASE r = Hit(y, f, aim, d) /\ aim \in inScene \cup Throne
    <3>1. aim \notin Plant
      BY <2>7, ViewAssumption
    <3> QED
      BY <2>3, <2>5, <2>7, <3>1, HitTold
  <2> QED
    BY <2>3, <2>6, <2>7
<1> QED
  BY <1>2, <1>3

RunOnePlant(c, w, f) == RunPlant(w, f, c[1], c[2], c[3], c[4])
Planting == INSTANCE FoldFacts WITH Op <- RunOnePlant
PlantsAfter(w, s, over, burn, aim, d) ==
    FoldLeft(LAMBDA x, n : RunPlant(x, n, over, burn, aim, d), w, s)

LEMMA PlantsTold ==
    ASSUME inScene \subseteq Fighter, NEW w, NEW ly, Right(w, ly), NEW over, NEW burn, NEW aim, NEW d,
           NEW s, NEW n \in Nat, DOMAIN s = 1..n, \A i \in 1..n : s[i] \in DOMAIN w.plants,
           \A i, j \in 1..n : s[i] = s[j] => i = j
    PROVE  Right(PlantsAfter(w, s, over, burn, aim, d), ly)
<1> DEFINE c == <<over, burn, aim, d>>
<1>1. PlantsAfter(w, s, over, burn, aim, d) = Planting!Folded(c, w, s)
  BY DEF PlantsAfter, Planting!Folded, Planting!FoldLeft, Planting!MapThenFoldSet, FoldLeft,
       MapThenFoldSet, RunOnePlant, Max, Planting!Max
<1>2. PICK f : Planting!Leads(f, c, w, s, n) /\ f[n] = Planting!Folded(c, w, s)
  BY Planting!FoldIsIteration
<1>3. f[0] = w /\ \A i \in 1..n : f[i] = RunPlant(f[i - 1], s[i], over, burn, aim, d)
  BY <1>2 DEF Planting!Leads, RunOnePlant
\* The flowers whose turn is still to come are there.
<1> DEFINE G == {i \in Nat : Right(f[i], ly) /\ \A j \in (i + 1)..n : s[j] \in DOMAIN f[i].plants}
<1>4. 0 \in G
  BY <1>3
<1>5. ASSUME NEW i \in 1..n, i - 1 \in G
      PROVE  i \in G
  <2>1. /\ Right(f[i - 1], ly) /\ f[i] = RunPlant(f[i - 1], s[i], over, burn, aim, d)
        /\ \A j \in ((i - 1) + 1)..n : s[j] \in DOMAIN f[i - 1].plants
    BY <1>3, <1>5
  <2>2. s[i] \in DOMAIN f[i - 1].plants
    BY <2>1
  <2>3. Right(f[i], ly) /\ DOMAIN f[i - 1].plants \ {s[i]} \subseteq DOMAIN f[i].plants
    BY <2>1, <2>2, RunPlantTold
  <2>4. ASSUME NEW j \in (i + 1)..n
        PROVE  s[j] \in DOMAIN f[i].plants
    <3>1. j \in ((i - 1) + 1)..n /\ j \in 1..n /\ j # i
      OBVIOUS
    <3>2. s[j] # s[i] /\ s[j] \in DOMAIN f[i - 1].plants
      BY <2>1, <3>1
    <3> QED
      BY <2>3, <3>2
  <2> QED
    BY <2>3, <2>4
<1>6. n \in G
  <2> HIDE DEF G
  <2> QED
    BY <1>4, <1>5, Planting!InductionTo
<1> QED
  BY <1>1, <1>2, <1>6

-----------------------------------------------------------------------------
(* The steps of a scene                                                     *)

ViewInv ==
    /\ inScene \subseteq Fighter /\ SceneOK(man, plants, thrones) /\ AllClients(view)
    /\ stage = "none" => inScene = {}
    /\ \A p \in inScene : Sees(view[p], inScene, man, plants, thrones, lying, stage)

LEMMA WorldIsRight == ViewInv => Right(World, lying)
<1>1. SUFFICES ASSUME ViewInv PROVE Right(World, lying)
  OBVIOUS
<1>2. World.men = man /\ World.plants = plants /\ World.thrones = thrones /\ World.out = <<>>
  BY DEF World
<1>3. BroadAll(view, inScene, World.out) = view /\ IsList(World.out)
  BY <1>2, NothingTold
<1>4. World = [men |-> World.men, plants |-> World.plants, thrones |-> World.thrones, out |-> World.out]
  BY DEF World
<1>5. IsWorld(World)
  BY <1>1, <1>2, <1>3, <1>4 DEF IsWorld, ViewInv
<1>6. Shows(World, lying)
  BY <1>1, <1>2, <1>3 DEF Shows, ViewInv
<1> QED
  BY <1>5, <1>6 DEF Right

LEMMA BecomeKeeps ==
    ASSUME ViewInv, NEW w, NEW ly, Right(w, ly), Become(w), lying' = ly,
           inScene' = inScene, stage' = stage
    PROVE  ViewInv'
<1>1. /\ man' = w.men /\ plants' = w.plants /\ thrones' = w.thrones
      /\ view' = BroadAll(view, inScene, w.out)
  BY DEF Become
<1>2. SceneOK(man', plants', thrones')
  BY <1>1 DEF Right, IsWorld
<1>3. AllClients(view')
  BY <1>1 DEF Right, Shows
<1>4. ASSUME NEW p \in inScene'
      PROVE  Sees(view'[p], inScene', man', plants', thrones', lying', stage')
  <2>1. Sees(BroadAll(view, inScene, w.out)[p], inScene, w.men, w.plants, w.thrones, ly, stage)
    BY <1>4 DEF Right, Shows
  <2> QED
    BY <1>1, <2>1
<1>5. inScene' \subseteq Fighter
  BY DEF ViewInv
<1> QED
  BY <1>2, <1>3, <1>4, <1>5 DEF ViewInv

LEMMA SkillUsedKeeps ==
    ASSUME ViewInv, NEW p, NEW u, NEW d, NEW near, SkillUsed(p, u, d, near)
    PROVE  ViewInv'
<1>1. inScene \subseteq Fighter /\ Right(World, lying)
  BY WorldIsRight DEF ViewInv
<1>2. PICK x : x = Say(World, <<[op |-> "USE_SKILL"]>>)
  OBVIOUS
<1>3. Right(x, lying)
  BY <1>1, <1>2, SayingNothing
<1>4. PICK y : y = Splashed(Hit(x, p, u, d), p, near)
  OBVIOUS
<1>5. Right(y, lying)
  <2>1. u \notin Plant
    <3>1. u \in inScene \cup Throne \cup DOMAIN plants
      BY DEF SkillUsed, Struck
    <3>2. DOMAIN plants \subseteq Sowing
      BY DEF ViewInv, SceneOK, BedOK
    <3> QED
      BY <1>1, <3>1, <3>2, ViewAssumption
  <2>2. Right(Hit(x, p, u, d), lying)
    BY <1>1, <1>3, <2>1, HitTold
  <2> QED
    BY <1>1, <1>4, <2>2, SplashTold
<1>6. Become(y) /\ lying' = lying /\ inScene' = inScene /\ stage' = stage
  BY <1>2, <1>4, Zenon DEF SkillUsed
<1> QED
  BY <1>5, <1>6, BecomeKeeps

LEMMA SceneRunsKeeps ==
    ASSUME ViewInv, NEW burn, NEW drop \in (Spot \ lying) \cup {"nowhere"}, NEW over, NEW aim, NEW d,
           SceneRuns(burn, drop, over, aim, d)
    PROVE  ViewInv'
<1>1. inScene \subseteq Fighter /\ Right(World, lying) /\ SceneOK(man, plants, thrones)
  BY WorldIsRight DEF ViewInv
<1>2. PICK s, q : s = SetToSeq(inScene) /\ q = SetToSeq(DOMAIN plants)
  OBVIOUS
<1>3. PICK n \in Nat : DOMAIN s = 1..n /\ \A i \in 1..n : s[i] \in Fighter
  <2>1. IsFiniteSet(inScene)
    BY <1>1, ViewAssumption, FS_Subset
  <2> QED
    BY <1>1, <1>2, <2>1, SetInSeq
<1>4. PICK m \in Nat : /\ DOMAIN q = 1..m /\ \A i \in 1..m : q[i] \in DOMAIN plants
                       /\ \A i, j \in 1..m : q[i] = q[j] => i = j
  <2>1. IsFiniteSet(DOMAIN plants)
    BY <1>1, ViewAssumption, FS_Subset DEF SceneOK, BedOK
  <2> QED
    BY <1>2, <2>1, SetInSeq
<1>5. PICK w : w = MenAfter(World, s, burn)
  OBVIOUS
<1>6. Right(w, lying) /\ DOMAIN w.plants = DOMAIN plants
  <2>1. World.plants = plants
    BY DEF World
  <2> QED
    BY <1>1, <1>3, <1>5, <2>1, BurnsTold
<1>7. PICK pkt : pkt = [op |-> "DROP_ITEM", at |-> drop]
  OBVIOUS
<1>8. PICK y : y = IF drop \in Spot \ lying THEN Say(w, <<pkt>>) ELSE w
  OBVIOUS
<1>9. PICK ly : ly = lying \cup ({drop} \cap Spot)
  OBVIOUS
<1>10. Right(y, ly) /\ y.plants = w.plants
  <2>1. CASE drop \in Spot \ lying
    <3>1. ly = lying \cup {drop}
      BY <1>9, <2>1
    <3>2. IsWorld(w) /\ SceneOK(w.men, w.plants, w.thrones)
      BY <1>6 DEF Right, IsWorld
    <3>3. ASSUME NEW v, Sees(v, inScene, w.men, w.plants, w.thrones, lying, stage)
          PROVE  Sees(Apply(v, pkt), inScene, w.men, w.plants, w.thrones, ly, stage)
      BY <1>7, <3>1, <3>3, DropIsSeen
    <3>4. Right([men |-> w.men, plants |-> w.plants, thrones |-> w.thrones, out |-> w.out \o <<pkt>>], ly)
      BY <1>1, <1>6, <3>2, <3>3, Saying
    <3>5. y = [men |-> w.men, plants |-> w.plants, thrones |-> w.thrones, out |-> w.out \o <<pkt>>]
      BY <1>8, <2>1, <3>2, SayIs
    <3> QED
      BY <3>4, <3>5
  <2>2. CASE drop \notin Spot \ lying
    <3>1. ly = lying /\ y = w
      BY <1>8, <1>9, <2>2
    <3> QED
      BY <1>6, <3>1
  <2> QED
    BY <2>1, <2>2
<1>11. PICK z : z = PlantsAfter(y, q, over, burn, aim, d)
  OBVIOUS
<1>12. Right(z, ly)
  BY <1>1, <1>4, <1>6, <1>10, <1>11, PlantsTold
<1>13. Become(z) /\ lying' = ly /\ inScene' = inScene /\ stage' = stage
  BY <1>2, <1>5, <1>7, <1>8, <1>9, <1>11 DEF SceneRuns, MenAfter, PlantsAfter
<1> QED
  BY <1>12, <1>13, BecomeKeeps

\* One packet to everybody in the scene, and one change.
LEMMA BroadKeeps ==
    ASSUME ViewInv, NEW pkt, view' = Broad(view, inScene, pkt), inScene' = inScene,
           SceneOK(man', plants', thrones'),
           stage' = "none" => stage = "none",
           \A v : Sees(v, inScene, man, plants, thrones, lying, stage)
                     => Sees(Apply(v, pkt), inScene, man', plants', thrones', lying', stage')
    PROVE  ViewInv'
<1>1. AllClients(view')
  BY BroadToAll
<1>2. ASSUME NEW p \in inScene
      PROVE  Sees(view'[p], inScene, man', plants', thrones', lying', stage')
  <2>1. view'[p] = Apply(view[p], pkt)
    BY DEF Broad, ViewInv
  <2> QED
    BY <2>1 DEF ViewInv
<1> QED
  BY <1>1, <1>2 DEF ViewInv

\* A player whose record becomes r, in a client that puts its own in the place.
LEMMA ManIsSeen ==
    ASSUME NEW v, NEW S, NEW men, NEW pl, NEW th, NEW ly, NEW st, NEW p \in Fighter, NEW r, NEW mine,
           S \subseteq Fighter, SceneOK(men, pl, th), Sees(v, S, men, pl, th, ly, st),
           NEW x, p \notin DOMAIN v.men => x = v,
           p \in DOMAIN v.men => x = [v EXCEPT !.men = [v.men EXCEPT ![p] = mine]],
           p \in DOMAIN v.men /\ v.men[p] = men[p] => mine = r
    PROVE  Sees(x, S, [men EXCEPT ![p] = r], pl, th, ly, st)
<1>1. PICK men2 : men2 = [men EXCEPT ![p] = r]
  OBVIOUS
<1>2. \A q \in Fighter : men2[q] = IF q = p THEN r ELSE men[q]
  BY <1>1 DEF SceneOK
<1>3. CASE p \in DOMAIN v.men
  <2>1. PICK to : to = [v.men EXCEPT ![p] = mine]
    OBVIOUS
  <2>2. x = [listed |-> v.listed, informed |-> v.informed, men |-> to, plants |-> v.plants,
             thrones |-> v.thrones, lying |-> v.lying, stage |-> v.stage]
    BY <1>3, <2>1 DEF Sees, IsView
  <2>3. /\ to = [q \in DOMAIN v.men |-> to[q]] /\ DOMAIN to = DOMAIN v.men
        /\ \A q \in DOMAIN v.men : to[q] = IF q = p THEN mine ELSE v.men[q]
    BY <2>1 DEF Sees
  <2>4. ASSUME v.listed
        PROVE  to = [q \in S |-> men2[q]]
    <3>1. v.men = [q \in S |-> men[q]] /\ DOMAIN v.men = S
      BY <2>4 DEF Sees
    <3>2. p \in S /\ v.men[p] = men[p] /\ mine = r
      BY <1>3, <3>1
    <3>3. \A q \in S : to[q] = men2[q]
      BY <1>2, <2>3, <3>1, <3>2
    <3> QED
      BY <2>3, <3>1, <3>3
  <2>5. DOMAIN v.men \subseteq Fighter
    BY DEF Sees
  <2>6. IsView(x) /\ x.men = to /\ x.listed = v.listed /\ x.informed = v.informed
        /\ x.plants = v.plants /\ x.thrones = v.thrones /\ x.lying = v.lying /\ x.stage = v.stage
    BY <2>2 DEF IsView
  <2>7. Sees(x, S, men2, pl, th, ly, st)
    BY <2>3, <2>4, <2>5, <2>6 DEF Sees
  <2> QED
    BY <1>1, <2>7
<1>4. CASE p \notin DOMAIN v.men
  <2>1. ASSUME v.listed PROVE v.men = [q \in S |-> men2[q]]
    <3>1. v.men = [q \in S |-> men[q]] /\ p \notin S
      BY <1>4, <2>1 DEF Sees
    <3> QED
      BY <1>2, <3>1
  <2>2. Sees(x, S, men2, pl, th, ly, st)
    BY <1>4, <2>1 DEF Sees
  <2> QED
    BY <1>1, <2>2
<1> QED
  BY <1>3, <1>4

LEMMA OneManOK ==
    ASSUME NEW men, NEW pl, NEW th, SceneOK(men, pl, th), NEW p \in Fighter, NEW r, IsMan(r)
    PROVE  SceneOK([men EXCEPT ![p] = r], pl, th)
<1>1. PICK x : x = [men EXCEPT ![p] = r]
  OBVIOUS
<1>2. x = [q \in Fighter |-> x[q]] /\ \A q \in Fighter : IsMan(x[q])
  BY <1>1 DEF SceneOK
<1> QED
  BY <1>1, <1>2 DEF SceneOK

LEMMA PetSelectedKeeps ==
    ASSUME ViewInv, NEW p \in Fighter, PetSelected(p)
    PROVE  ViewInv'
<1>1. PICK pkt : pkt = [op |-> "SELCET_PET", id |-> p, hp |-> FullPet]
  OBVIOUS
<1>2. PICK r : r = [[man[p] EXCEPT !.pet = TRUE] EXCEPT !.hp = FullPet]
  OBVIOUS
<1>3. inScene \subseteq Fighter /\ SceneOK(man, plants, thrones) /\ IsMan(man[p])
  BY DEF ViewInv, SceneOK
<1>4. IsMan(r)
  BY <1>2, <1>3 DEF IsMan
<1>5. man' = [man EXCEPT ![p] = r]
  <2>1. man' = [man EXCEPT ![p].pet = TRUE, ![p].hp = FullPet]
    BY DEF PetSelected
  <2>2. [man EXCEPT ![p].pet = TRUE, ![p].hp = FullPet]
          = [[man EXCEPT ![p].pet = TRUE] EXCEPT ![p].hp = FullPet]
    OBVIOUS
  <2>3. PICK x : x = [man EXCEPT ![p].pet = TRUE]
    OBVIOUS
  <2>4. x = [q \in Fighter |-> IF q = p THEN [man[p] EXCEPT !.pet = TRUE] ELSE man[q]]
    BY <1>3, <2>3 DEF SceneOK
  <2>5. [x EXCEPT ![p].hp = FullPet] = [q \in Fighter |-> IF q = p THEN r ELSE man[q]]
    BY <1>2, <2>4
  <2>6. [man EXCEPT ![p] = r] = [q \in Fighter |-> IF q = p THEN r ELSE man[q]]
    BY <1>3 DEF SceneOK
  <2> QED
    BY <2>1, <2>2, <2>3, <2>5, <2>6
<1>6. /\ view' = Broad(view, inScene, pkt) /\ inScene' = inScene /\ plants' = plants
      /\ thrones' = thrones /\ lying' = lying /\ stage' = stage
  BY <1>1 DEF PetSelected
<1>7. SceneOK(man', plants', thrones')
  BY <1>3, <1>4, <1>5, <1>6, OneManOK
<1>8. ASSUME NEW v, Sees(v, inScene, man, plants, thrones, lying, stage)
      PROVE  Sees(Apply(v, pkt), inScene, man', plants', thrones', lying', stage')
  <2>1. PICK mine : mine = [[v.men[p] EXCEPT !.pet = TRUE] EXCEPT !.hp = FullPet]
    OBVIOUS
  <2>2. PICK x : x = Apply(v, pkt)
    OBVIOUS
  <2>3. p \notin DOMAIN v.men => x = v
    BY <1>1, <2>2 DEF Apply
  <2>4. ASSUME p \in DOMAIN v.men
        PROVE  x = [v EXCEPT !.men = [v.men EXCEPT ![p] = mine]]
    <3>1. x = [v EXCEPT !.men[p].pet = TRUE, !.men[p].hp = FullPet]
      BY <1>1, <2>2, <2>4 DEF Apply
    <3>2. [v EXCEPT !.men[p].pet = TRUE, !.men[p].hp = FullPet]
            = [[v EXCEPT !.men[p].pet = TRUE] EXCEPT !.men[p].hp = FullPet]
      OBVIOUS
    <3>3. PICK m : m = [v.men EXCEPT ![p].pet = TRUE]
      OBVIOUS
    <3>4. PICK y : y = [v EXCEPT !.men[p].pet = TRUE]
      OBVIOUS
    <3>5. y = [v EXCEPT !.men = m]
      BY <3>3, <3>4
    <3>6. y = [listed |-> v.listed, informed |-> v.informed, men |-> m, plants |-> v.plants,
               thrones |-> v.thrones, lying |-> v.lying, stage |-> v.stage]
      BY <1>8, <3>5 DEF Sees, IsView
    <3>7. [m EXCEPT ![p].hp = FullPet] = [v.men EXCEPT ![p] = mine]
      <4>1. v.men = [q \in DOMAIN v.men |-> v.men[q]]
        BY <1>8 DEF Sees
      <4>2. m = [q \in DOMAIN v.men |-> IF q = p THEN [v.men[p] EXCEPT !.pet = TRUE] ELSE v.men[q]]
        BY <3>3, <4>1
      <4>3. [m EXCEPT ![p].hp = FullPet]
              = [q \in DOMAIN v.men |-> IF q = p THEN mine ELSE v.men[q]]
        BY <2>1, <2>4, <4>2
      <4>4. [v.men EXCEPT ![p] = mine] = [q \in DOMAIN v.men |-> IF q = p THEN mine ELSE v.men[q]]
        BY <4>1
      <4> QED
        BY <4>3, <4>4
    <3>8. PICK k : k = [m EXCEPT ![p].hp = FullPet]
      OBVIOUS
    <3>9. [y EXCEPT !.men[p].hp = FullPet] = [y EXCEPT !.men = k]
      BY <3>6, <3>8
    <3>10. [y EXCEPT !.men = k] = [v EXCEPT !.men = k]
      <4>1. [y EXCEPT !.men = k]
              = [listed |-> v.listed, informed |-> v.informed, men |-> k, plants |-> v.plants,
                 thrones |-> v.thrones, lying |-> v.lying, stage |-> v.stage]
        BY <3>6
      <4>2. [v EXCEPT !.men = k]
              = [listed |-> v.listed, informed |-> v.informed, men |-> k, plants |-> v.plants,
                 thrones |-> v.thrones, lying |-> v.lying, stage |-> v.stage]
        BY <1>8 DEF Sees, IsView
      <4> QED
        BY <4>1, <4>2
    <3> QED
      BY <3>1, <3>2, <3>4, <3>7, <3>8, <3>9, <3>10
  <2>5. v.men[p] = man[p] => mine = r
    BY <1>2, <2>1
  <2>6. Sees(x, inScene, [man EXCEPT ![p] = r], plants, thrones, lying, stage)
    BY <1>3, <1>8, <2>3, <2>4, <2>5, ManIsSeen
  <2> QED
    BY <1>5, <1>6, <2>2, <2>6
<1> QED
  BY <1>6, <1>7, <1>8, BroadKeeps

LEMMA ItemUsedKeeps ==
    ASSUME ViewInv, NEW p \in Fighter, ItemUsed(p)
    PROVE  ViewInv'
<1>1. PICK pkt : pkt = [op |-> "ADD_HP", id |-> p, hp |-> FullPet]
  OBVIOUS
<1>2. PICK r : r = [man[p] EXCEPT !.hp = FullPet]
  OBVIOUS
<1>3. inScene \subseteq Fighter /\ SceneOK(man, plants, thrones) /\ IsMan(man[p])
  BY DEF ViewInv, SceneOK
<1>4. IsMan(r)
  BY <1>2, <1>3 DEF IsMan
<1>5. man' = [man EXCEPT ![p] = r]
  BY <1>2 DEF ItemUsed
<1>6. /\ view' = Broad(view, inScene, pkt) /\ inScene' = inScene /\ plants' = plants
      /\ thrones' = thrones /\ lying' = lying /\ stage' = stage
  BY <1>1 DEF ItemUsed
<1>7. SceneOK(man', plants', thrones')
  BY <1>3, <1>4, <1>5, <1>6, OneManOK
<1>8. ASSUME NEW v, Sees(v, inScene, man, plants, thrones, lying, stage)
      PROVE  Sees(Apply(v, pkt), inScene, man', plants', thrones', lying', stage')
  <2>1. PICK mine : mine = [v.men[p] EXCEPT !.hp = FullPet]
    OBVIOUS
  <2>2. PICK x : x = Apply(v, pkt)
    OBVIOUS
  <2>3. p \notin DOMAIN v.men => x = v
    BY <1>1, <2>2 DEF Apply
  <2>4. p \in DOMAIN v.men => x = [v EXCEPT !.men = [v.men EXCEPT ![p] = mine]]
    BY <1>1, <2>1, <2>2 DEF Apply
  <2>5. v.men[p] = man[p] => mine = r
    BY <1>2, <2>1
  <2>6. Sees(x, inScene, [man EXCEPT ![p] = r], plants, thrones, lying, stage)
    BY <1>3, <1>8, <2>3, <2>4, <2>5, ManIsSeen
  <2> QED
    BY <1>5, <1>6, <2>2, <2>6
<1> QED
  BY <1>6, <1>7, <1>8, BroadKeeps

LEMMA FlowerPlantedKeeps ==
    ASSUME ViewInv, NEW p, NEW f \in Plant, NEW n \in Sowing, FlowerPlanted(p, f, n)
    PROVE  ViewInv'
<1>1. PICK pkt : pkt = [op |-> "PLANT_FLOWER", id |-> f, hp |-> FullPlant]
  OBVIOUS
<1>2. PICK b : b = BedAfter(plants, f, n, FullPlant)
  OBVIOUS
<1>3. /\ view' = Broad(view, inScene, pkt) /\ inScene' = inScene /\ plants' = b
      /\ man' = man /\ thrones' = thrones /\ lying' = lying /\ stage' = stage
  BY <1>1, <1>2 DEF FlowerPlanted, BedAfter
<1>4. SceneOK(man, plants, thrones) /\ BedOK(plants)
  BY DEF ViewInv, SceneOK
<1>5. n \notin DOMAIN plants
  <2>1. n \in Nat /\ \A x \in DOMAIN plants : x < n
    BY ViewAssumption DEF FlowerPlanted
  <2>2. ~(n < n)
    BY <2>1
  <2> QED
    BY <2>1, <2>2
<1>6. SceneOK(man', plants', thrones')
  BY <1>2, <1>3, <1>4, <1>5, BedGrows DEF SceneOK
<1>7. ASSUME NEW v, Sees(v, inScene, man, plants, thrones, lying, stage)
      PROVE  Sees(Apply(v, pkt), inScene, man', plants', thrones', lying', stage')
  <2>1. /\ DOMAIN b = DOMAIN plants \cup {n} /\ b[n].id = f /\ b[n].hp = FullPlant
        /\ \A x \in DOMAIN plants : b[x].id = plants[x].id /\ b[x].hp = plants[x].hp
        /\ \A x \in DOMAIN plants : ~b[x].twin => ~plants[x].twin /\ plants[x].id # f
    BY <1>2, <1>4, <1>5, BedGrows
  <2>2. Sees(Apply(v, pkt), inScene, man, b, thrones, lying, stage)
    BY <1>1, <1>4, <1>5, <1>7, <2>1, FlowerIsSeen
  <2> QED
    BY <1>3, <2>2
<1> QED
  BY <1>3, <1>6, <1>7, BroadKeeps

LEMMA SameKeeps ==
    ASSUME ViewInv, UNCHANGED <<man, inScene, plants, thrones, lying, stage, view>>
    PROVE  ViewInv'
BY DEF ViewInv, AllClients

LEMMA ItemPickedUpKeeps ==
    ASSUME ViewInv, NEW p, NEW x, ItemPickedUp(p, x)
    PROVE  ViewInv'
<1>1. CASE x \in lying
  <2>1. PICK pkt : pkt = [op |-> "PICKUP_ITEM", at |-> x]
    OBVIOUS
  <2>2. /\ view' = Broad(view, inScene, pkt) /\ inScene' = inScene /\ lying' = lying \ {x}
        /\ man' = man /\ plants' = plants /\ thrones' = thrones /\ stage' = stage
    BY <1>1, <2>1 DEF ItemPickedUp
  <2>3. SceneOK(man', plants', thrones')
    BY <2>2 DEF ViewInv
  <2>4. ASSUME NEW v, Sees(v, inScene, man, plants, thrones, lying, stage)
        PROVE  Sees(Apply(v, pkt), inScene, man', plants', thrones', lying', stage')
    BY <2>1, <2>2, <2>4, PickUpIsSeen
  <2> QED
    BY <2>2, <2>3, <2>4, BroadKeeps
<1>2. CASE x \notin lying
  BY <1>2, SameKeeps DEF ItemPickedUp
<1> QED
  BY <1>1, <1>2

LEMMA SwitchStageKeeps ==
    ASSUME ViewInv, NEW s \in BgStage, SwitchStage(s)
    PROVE  ViewInv'
<1>1. PICK pkt : pkt = [op |-> "TELLCLIENT_STATE", stage |-> s]
  OBVIOUS
<1>2. /\ view' = Broad(view, inScene, pkt) /\ inScene' = inScene /\ stage' = s /\ s # "none"
      /\ man' = man /\ plants' = plants /\ thrones' = thrones /\ lying' = lying
  BY <1>1, ViewAssumption DEF SwitchStage
<1>3. SceneOK(man', plants', thrones')
  BY <1>2 DEF ViewInv
<1>4. ASSUME NEW v, Sees(v, inScene, man, plants, thrones, lying, stage)
      PROVE  Sees(Apply(v, pkt), inScene, man', plants', thrones', lying', stage')
  BY <1>1, <1>2, <1>4, StageIsSeen
<1> QED
  BY <1>2, <1>3, <1>4, BroadKeeps

\* Who asks is told everything about the players, or about the rest.
LEMMA OnReqPlayerListKeeps ==
    ASSUME ViewInv, NEW p \in Fighter, OnReqPlayerList(p)
    PROVE  ViewInv'
<1>1. PICK men : men = [q \in inScene |-> man[q]]
  OBVIOUS
<1>2. PICK v : v = view[p]
  OBVIOUS
<1>3. PICK x : x = Apply(v, [op |-> "REQ_PLAYER_LIST", men |-> men])
  OBVIOUS
<1>4. /\ man' = man /\ inScene' = inScene /\ plants' = plants /\ thrones' = thrones
      /\ lying' = lying /\ stage' = stage /\ p \in inScene
  BY DEF OnReqPlayerList
<1>5. view' = [view EXCEPT ![p] = x]
  <2>1. [q \in inScene |-> Serialize(q)] = men
    BY <1>1, <1>4 DEF Serialize
  <2> QED
    BY <1>2, <1>3, <2>1 DEF OnReqPlayerList, SendTo
<1>6. inScene \subseteq Fighter /\ Sees(v, inScene, man, plants, thrones, lying, stage)
  BY <1>2, <1>4 DEF ViewInv
<1>7. x = [listed |-> TRUE, informed |-> v.informed, men |-> men, plants |-> v.plants,
           thrones |-> v.thrones, lying |-> v.lying, stage |-> v.stage]
  BY <1>3, <1>6 DEF Apply, Sees, IsView
<1>8. Sees(x, inScene, man, plants, thrones, lying, stage)
  BY <1>1, <1>6, <1>7 DEF Sees, IsView
<1>9. /\ AllClients(view') /\ view'[p] = x
      /\ \A q \in inScene : q # p => view'[q] = view[q]
  BY <1>5 DEF ViewInv, AllClients
<1> QED
  BY <1>4, <1>8, <1>9 DEF ViewInv

\* The list of the flowers, by their ids.
LEMMA ListIsKnown ==
    ASSUME NEW bed, BedOK(bed),
           NEW list, list = [x \in DOMAIN bed |-> [id |-> bed[x].id, hp |-> bed[x].hp]]
    PROVE  KnowsBed(ById(list), bed)
<1>1. PICK known : known = ById(list)
  OBVIOUS
<1>2. DOMAIN list = DOMAIN bed /\ \A x \in DOMAIN bed : list[x].id = bed[x].id /\ list[x].hp = bed[x].hp
  OBVIOUS
<1>3. /\ known = [f \in DOMAIN known |-> known[f]]
      /\ DOMAIN known = {bed[x].id : x \in DOMAIN bed}
      /\ \A f \in DOMAIN known : known[f] = list[CHOOSE x \in DOMAIN list : list[x].id = f].hp
  <2>1. PICK ids : ids = {list[x].id : x \in DOMAIN list}
    OBVIOUS
  <2>2. ids = {bed[x].id : x \in DOMAIN bed}
    BY <1>2, <2>1
  <2>3. known = [f \in ids |-> list[CHOOSE x \in DOMAIN list : list[x].id = f].hp]
    BY <1>1, <2>1 DEF ById
  <2> QED
    BY <2>2, <2>3
<1>4. ASSUME NEW x \in DOMAIN bed, ~bed[x].twin
      PROVE  bed[x].id \in DOMAIN known /\ known[bed[x].id] = bed[x].hp
  <2>1. PICK f, y : f = bed[x].id /\ y = CHOOSE z \in DOMAIN list : list[z].id = f
    OBVIOUS
  <2>2. y \in DOMAIN list /\ list[y].id = f
    BY <1>2, <2>1
  <2>3. y = x
    BY <1>2, <1>4, <2>1, <2>2 DEF BedOK
  <2>4. f \in DOMAIN known
    BY <1>3, <2>1
  <2>5. known[f] = list[y].hp
    <3>1. known[f] = list[CHOOSE z \in DOMAIN list : list[z].id = f].hp
      BY <1>3, <2>4
    <3> QED
      BY <2>1, <3>1
  <2> QED
    BY <1>2, <2>1, <2>3, <2>4, <2>5
<1>5. \A f \in DOMAIN known : \E x \in DOMAIN bed : bed[x].id = f
  BY <1>3
<1> QED
  BY <1>1, <1>3, <1>4, <1>5 DEF KnowsBed

LEMMA OnReqBattleInfoKeeps ==
    ASSUME ViewInv, NEW p \in Fighter, OnReqBattleInfo(p)
    PROVE  ViewInv'
<1>1. PICK v : v = view[p]
  OBVIOUS
<1>2. PICK x : x = Apply(v, [op |-> "REQ_BATTLE_INFO", info |-> BgInfo])
  OBVIOUS
<1>3. /\ man' = man /\ inScene' = inScene /\ plants' = plants /\ thrones' = thrones
      /\ lying' = lying /\ stage' = stage /\ p \in inScene
  BY DEF OnReqBattleInfo
<1>4. view' = [view EXCEPT ![p] = x]
  BY <1>1, <1>2 DEF OnReqBattleInfo, SendTo
<1>5. /\ Sees(v, inScene, man, plants, thrones, lying, stage)
      /\ SceneOK(man, plants, thrones)
  BY <1>1, <1>3 DEF ViewInv
<1>6. PICK list, known :
          /\ list = [y \in DOMAIN plants |-> [id |-> plants[y].id, hp |-> plants[y].hp]]
          /\ known = ById(list)
  OBVIOUS
<1>10. /\ BgInfo.scene.plants = list /\ BgInfo.scene.thrones = thrones
       /\ BgInfo.scene.lying = lying /\ BgInfo.stage = stage
  BY <1>6 DEF BgInfo, SerializeScene, SerializeFlowers, SerializeFlower, SerializeItems
<1>7. x = [listed |-> v.listed, informed |-> TRUE, men |-> v.men, plants |-> known,
           thrones |-> thrones, lying |-> lying, stage |-> stage]
  <2>1. PICK info : info = BgInfo
    OBVIOUS
  <2>2. x = [listed |-> v.listed, informed |-> TRUE, men |-> v.men, plants |-> ById(info.scene.plants),
             thrones |-> info.scene.thrones, lying |-> info.scene.lying, stage |-> info.stage]
    BY <1>2, <1>5, <2>1 DEF Apply, Sees, IsView
  <2> QED
    BY <1>6, <1>10, <2>1, <2>2
<1>11. KnowsBed(known, plants)
  BY <1>5, <1>6, ListIsKnown DEF SceneOK
<1>8. Sees(x, inScene, man, plants, thrones, lying, stage)
  BY <1>5, <1>7, <1>11 DEF Sees, IsView
<1>9. /\ AllClients(view') /\ view'[p] = x
      /\ \A q \in inScene : q # p => view'[q] = view[q]
  BY <1>4 DEF ViewInv, AllClients
<1> QED
  BY <1>3, <1>8, <1>9 DEF ViewInv

-----------------------------------------------------------------------------
(* Coming and going                                                         *)

LEMMA NothingIsKnown ==
    ASSUME NEW S, NEW men, NEW pl, NEW th, NEW ly, NEW st
    PROVE  Sees(FreshView, S, men, pl, th, ly, st)
<1>1. /\ IsView(FreshView) /\ ~FreshView.listed /\ ~FreshView.informed
      /\ FreshView.men = <<>>
  BY DEF FreshView, IsView
<1>2. <<>> = [q \in DOMAIN <<>> |-> <<>>[q]] /\ DOMAIN <<>> = {}
  OBVIOUS
<1> QED
  BY <1>1, <1>2 DEF Sees

LEMMA PlayerIsSeen ==
    ASSUME NEW v, NEW S, NEW men, NEW pl, NEW th, NEW ly, NEW st, NEW p \in Fighter, NEW r,
           S \subseteq Fighter, SceneOK(men, pl, th), Sees(v, S, men, pl, th, ly, st)
    PROVE  Sees(Apply(v, [op |-> "ADD_PLAYER", id |-> p, man |-> r]), S \cup {p},
                [men EXCEPT ![p] = r], pl, th, ly, st)
<1>1. PICK men2 : men2 = [men EXCEPT ![p] = r]
  OBVIOUS
<1>2. \A q \in Fighter : men2[q] = IF q = p THEN r ELSE men[q]
  BY <1>1 DEF SceneOK
<1>3. PICK x : x = Apply(v, [op |-> "ADD_PLAYER", id |-> p, man |-> r])
  OBVIOUS
<1>4. CASE v.listed
  <2>1. PICK to : to = With(v.men, p, r)
    OBVIOUS
  <2>2. x = [v EXCEPT !.men = With(v.men, p, r)]
    BY <1>3, <1>4 DEF Apply
  <2>3. x = [listed |-> v.listed, informed |-> v.informed, men |-> to, plants |-> v.plants,
             thrones |-> v.thrones, lying |-> v.lying, stage |-> v.stage]
    BY <2>1, <2>2 DEF Sees, IsView
  <2>4. v.men = [q \in S |-> men[q]] /\ DOMAIN v.men = S
    BY <1>4 DEF Sees
  <2>5. to = [q \in S \cup {p} |-> men2[q]]
    <3>1. to = [q \in S \cup {p} |-> IF q = p THEN r ELSE v.men[q]]
      BY <2>1, <2>4 DEF With
    <3>2. \A q \in S \cup {p} : (IF q = p THEN r ELSE v.men[q]) = men2[q]
      BY <1>2, <2>4
    <3> QED
      BY <3>1, <3>2
  <2>6. to = [q \in DOMAIN to |-> to[q]] /\ DOMAIN to \subseteq Fighter
    BY <2>5
  <2>7. Sees(x, S \cup {p}, men2, pl, th, ly, st)
    BY <2>3, <2>5, <2>6 DEF Sees, IsView
  <2> QED
    BY <1>1, <1>3, <2>7
<1>5. CASE ~v.listed
  <2>1. x = v
    BY <1>3, <1>5 DEF Apply
  <2>2. Sees(x, S \cup {p}, men2, pl, th, ly, st)
    BY <1>5, <2>1 DEF Sees
  <2> QED
    BY <1>1, <1>3, <2>2
<1> QED
  BY <1>4, <1>5

LEMMA LeaverIsSeen ==
    ASSUME NEW v, NEW S, NEW men, NEW pl, NEW th, NEW ly, NEW st, NEW p \in Fighter, NEW r,
           S \subseteq Fighter, SceneOK(men, pl, th), Sees(v, S, men, pl, th, ly, st)
    PROVE  Sees(Apply(v, [op |-> "REMOVE_PLAYER", id |-> p]), S \ {p},
                [men EXCEPT ![p] = r], pl, th, ly, st)
<1>1. PICK men2 : men2 = [men EXCEPT ![p] = r]
  OBVIOUS
<1>2. \A q \in Fighter : men2[q] = IF q = p THEN r ELSE men[q]
  BY <1>1 DEF SceneOK
<1>3. PICK x : x = Apply(v, [op |-> "REMOVE_PLAYER", id |-> p])
  OBVIOUS
<1>4. PICK to : to = Without(v.men, p)
  OBVIOUS
<1>5. x = [v EXCEPT !.men = Without(v.men, p)]
  BY <1>3 DEF Apply
<1>6. x = [listed |-> v.listed, informed |-> v.informed, men |-> to, plants |-> v.plants,
           thrones |-> v.thrones, lying |-> v.lying, stage |-> v.stage]
  BY <1>4, <1>5 DEF Sees, IsView
<1>7. to = [q \in DOMAIN to |-> to[q]] /\ DOMAIN to \subseteq Fighter
  BY <1>4 DEF Without, Sees
<1>8. ASSUME v.listed PROVE to = [q \in S \ {p} |-> men2[q]]
  <2>1. v.men = [q \in S |-> men[q]] /\ DOMAIN v.men = S
    BY <1>8 DEF Sees
  <2>2. to = [q \in S \ {p} |-> v.men[q]]
    BY <1>4, <2>1 DEF Without
  <2>3. \A q \in S \ {p} : v.men[q] = men2[q]
    BY <1>2, <2>1
  <2> QED
    BY <2>2, <2>3
<1>9. Sees(x, S \ {p}, men2, pl, th, ly, st)
  BY <1>6, <1>7, <1>8 DEF Sees, IsView
<1> QED
  BY <1>1, <1>3, <1>9

FreshFor(p) == [view EXCEPT ![p] = FreshView]

\* A packet about one player, to everybody in the scene but that player's client,
\* which knows nothing yet, or any more.
LEMMA OneFresh ==
    ASSUME AllClients(view), NEW p \in Fighter, NEW S, S \subseteq Fighter, NEW pkt,
           NEW v, v = FreshFor(p), NEW w, w = Broad(v, S, pkt)
    PROVE  /\ AllClients(w)
           /\ \A q \in S : w[q] = Apply(IF q = p THEN FreshView ELSE view[q], pkt)
<1>1. \A q \in Fighter : v[q] = IF q = p THEN FreshView ELSE view[q]
  BY DEF AllClients, FreshFor
<1>2. AllClients(w)
  BY BroadToAll
<1>3. \A q \in S : w[q] = Apply(v[q], pkt)
  BY DEF Broad
<1> QED
  BY <1>1, <1>2, <1>3

LEMMA OnEnterBattleKeeps ==
    ASSUME ViewInv, NEW p \in Fighter, NEW t, OnEnterBattle(p, t)
    PROVE  ViewInv'
<1>1. PICK r : r = [man[p] EXCEPT !.team = t]
  OBVIOUS
<1>2. PICK pkt : pkt = [op |-> "ADD_PLAYER", id |-> p, man |-> r]
  OBVIOUS
<1>3. /\ inScene \subseteq Fighter /\ SceneOK(man, plants, thrones) /\ IsMan(man[p]) /\ AllClients(view)
      /\ \A q \in inScene : Sees(view[q], inScene, man, plants, thrones, lying, stage)
  BY DEF ViewInv, SceneOK
<1>4. man' = [man EXCEPT ![p] = r] /\ man'[p] = r
  BY <1>1, <1>3 DEF OnEnterBattle, SceneOK
<1>5. /\ inScene' = inScene \cup {p} /\ plants' = plants /\ thrones' = thrones /\ lying' = lying
      /\ stage' = (IF stage = "none" THEN "wait" ELSE stage)
      /\ view' = Broad([view EXCEPT ![p] = FreshView], inScene', pkt)
  BY <1>2, <1>4 DEF OnEnterBattle, Serialize
<1>6. IsMan(r)
  BY <1>1, <1>3 DEF IsMan
<1>7. SceneOK(man', plants', thrones')
  BY <1>3, <1>4, <1>5, <1>6, OneManOK
<1>8. /\ AllClients(view')
      /\ \A q \in inScene' : view'[q] = Apply(IF q = p THEN FreshView ELSE view[q], pkt)
  <2>1. PICK v : v = FreshFor(p)
    OBVIOUS
  <2>2. PICK S : S = inScene'
    OBVIOUS
  <2>3. PICK w : w = view'
    OBVIOUS
  <2>4. w = Broad(v, S, pkt)
    BY <1>3, <1>5, <2>1, <2>2, <2>3, Zenon DEF FreshFor
  <2>5. S \subseteq Fighter /\ AllClients(view)
    BY <1>3, <1>5, <2>2
  <2>6. AllClients(w) /\ \A q \in S : w[q] = Apply(IF q = p THEN FreshView ELSE view[q], pkt)
    BY <2>1, <2>4, <2>5, OneFresh
  <2> QED
    BY <2>2, <2>3, <2>6
<1>9. ASSUME NEW q \in inScene'
      PROVE  Sees(view'[q], inScene', man', plants', thrones', lying', stage')
  <2>1. PICK v : v = IF q = p THEN FreshView ELSE view[q]
    OBVIOUS
  <2>2. Sees(v, inScene, man, plants, thrones, lying, stage')
    <3>1. CASE q = p
      BY <2>1, <3>1, NothingIsKnown
    <3>2. CASE q # p
      <4>1. q \in inScene /\ v = view[q]
        BY <1>5, <1>9, <2>1, <3>2
      <4>2. stage' = stage
        BY <1>5, <4>1 DEF ViewInv
      <4> QED
        BY <1>3, <4>1, <4>2
    <3> QED
      BY <3>1, <3>2
  <2>3. PICK st : st = stage'
    OBVIOUS
  <2>4. Sees(Apply(v, pkt), inScene \cup {p}, [man EXCEPT ![p] = r], plants, thrones, lying, st)
    BY <1>2, <1>3, <2>2, <2>3, PlayerIsSeen
  <2> QED
    BY <1>4, <1>5, <1>8, <2>1, <2>3, <2>4
<1>10. stage' # "none" /\ inScene' \subseteq Fighter
  BY <1>3, <1>5
<1> QED
  BY <1>7, <1>8, <1>9, <1>10 DEF ViewInv

LEMMA RemovePlayerKeeps ==
    ASSUME ViewInv, NEW p \in Fighter, NEW r, IsMan(r), RemovePlayer(p), man' = [man EXCEPT ![p] = r]
    PROVE  ViewInv'
<1>1. PICK pkt : pkt = [op |-> "REMOVE_PLAYER", id |-> p]
  OBVIOUS
<1>2. /\ inScene \subseteq Fighter /\ SceneOK(man, plants, thrones) /\ AllClients(view)
      /\ \A q \in inScene : Sees(view[q], inScene, man, plants, thrones, lying, stage)
  BY DEF ViewInv
<1>3. /\ inScene' = inScene \ {p} /\ plants' = plants /\ thrones' = thrones /\ lying' = lying
      /\ stage' = stage
      /\ view' = Broad([view EXCEPT ![p] = FreshView], inScene', pkt)
  BY <1>1 DEF RemovePlayer
<1>4. SceneOK(man', plants', thrones')
  BY <1>2, <1>3, OneManOK
<1>5. /\ AllClients(view')
      /\ \A q \in inScene' : view'[q] = Apply(IF q = p THEN FreshView ELSE view[q], pkt)
  <2>1. PICK v : v = FreshFor(p)
    OBVIOUS
  <2>2. PICK S : S = inScene'
    OBVIOUS
  <2>3. PICK w : w = view'
    OBVIOUS
  <2>4. w = Broad(v, S, pkt)
    BY <1>2, <1>3, <2>1, <2>2, <2>3, Zenon DEF FreshFor
  <2>5. S \subseteq Fighter /\ AllClients(view)
    BY <1>2, <1>3, <2>2
  <2>6. AllClients(w) /\ \A q \in S : w[q] = Apply(IF q = p THEN FreshView ELSE view[q], pkt)
    BY <2>1, <2>4, <2>5, OneFresh
  <2> QED
    BY <2>2, <2>3, <2>6
<1>6. ASSUME NEW q \in inScene'
      PROVE  Sees(view'[q], inScene', man', plants', thrones', lying', stage')
  <2>1. PICK v : v = view[q]
    OBVIOUS
  <2>2. q # p /\ q \in inScene
    BY <1>3, <1>6
  <2>3. Sees(v, inScene, man, plants, thrones, lying, stage)
    BY <1>2, <2>1, <2>2
  <2>4. Sees(Apply(v, pkt), inScene \ {p}, [man EXCEPT ![p] = r], plants, thrones, lying, stage)
    BY <1>1, <1>2, <2>3, LeaverIsSeen
  <2> QED
    BY <1>3, <1>5, <2>1, <2>2, <2>4
<1>7. inScene' \subseteq Fighter /\ (stage' = "none" => inScene' = {})
  BY <1>2, <1>3 DEF ViewInv
<1> QED
  BY <1>4, <1>5, <1>6, <1>7 DEF ViewInv

LEMMA OnExitBattleKeeps ==
    ASSUME ViewInv, NEW p \in Fighter, OnExitBattle(p)
    PROVE  ViewInv'
<1>1. PICK r : r = [man[p] EXCEPT !.team = "none"]
  OBVIOUS
<1>2. IsMan(r)
  BY <1>1 DEF IsMan, ViewInv, SceneOK
<1>3. RemovePlayer(p) /\ man' = [man EXCEPT ![p] = r]
  BY <1>1 DEF OnExitBattle
<1> QED
  BY <1>2, <1>3, RemovePlayerKeeps

LEMMA GoneKeeps ==
    ASSUME ViewInv, NEW p \in Fighter, Gone(p)
    PROVE  ViewInv'
<1>1. PICK r : r = NewMan
  OBVIOUS
<1>2. IsMan(r)
  BY <1>1 DEF IsMan, NewMan
<1>3. RemovePlayer(p) /\ man' = [man EXCEPT ![p] = r]
  BY <1>1 DEF Gone
<1> QED
  BY <1>2, <1>3, RemovePlayerKeeps

\* A scene without flowers, buildings that are whole, and clients that know nothing.
LEMMA EmptyScene ==
    ASSUME inScene' = {}, plants' = <<>>, thrones' = [b \in Throne |-> FullThrone],
           view' = [p \in Fighter |-> FreshView],
           man' = [p \in Fighter |-> man'[p]], \A p \in Fighter : IsMan(man'[p])
    PROVE  ViewInv'
<1>1. <<>> = [f \in DOMAIN <<>> |-> <<>>[f]] /\ DOMAIN <<>> = {}
  OBVIOUS
<1>2. BedOK(plants')
  BY <1>1 DEF BedOK
<1>3. thrones' = [b \in Throne |-> thrones'[b]] /\ AllClients(view')
  BY DEF AllClients
<1> QED
  BY <1>2, <1>3 DEF ViewInv, SceneOK

LEMMA BattleClosesKeeps == ViewInv /\ BattleCloses => ViewInv'
<1>1. SUFFICES ASSUME ViewInv, BattleCloses PROVE ViewInv'
  OBVIOUS
<1>2. man' = [p \in Fighter |-> IF p \in inScene THEN [man[p] EXCEPT !.team = "none"] ELSE man[p]]
  BY <1>1 DEF BattleCloses
<1>3. ASSUME NEW p \in Fighter PROVE IsMan(man'[p])
  <2>1. IsMan(man[p])
    BY <1>1 DEF ViewInv, SceneOK
  <2>2. IsMan([man[p] EXCEPT !.team = "none"])
    BY <2>1 DEF IsMan
  <2> QED
    BY <1>2, <2>1, <2>2
<1>4. /\ inScene' = {} /\ plants' = <<>> /\ thrones' = [b \in Throne |-> FullThrone]
      /\ view' = [p \in Fighter |-> FreshView]
  BY <1>1 DEF BattleCloses
<1> QED
  BY <1>2, <1>3, <1>4, EmptyScene

-----------------------------------------------------------------------------
(* The theorem                                                              *)

LEMMA ViewInitOK == ViewInit => ViewInv
<1>1. SUFFICES ASSUME ViewInit PROVE ViewInv
  OBVIOUS
<1>2. <<>> = [f \in DOMAIN <<>> |-> <<>>[f]] /\ DOMAIN <<>> = {}
  OBVIOUS
<1>3. BedOK(plants)
  BY <1>1, <1>2 DEF ViewInit, BedOK
<1>4. man = [p \in Fighter |-> man[p]] /\ \A p \in Fighter : IsMan(man[p])
  BY <1>1 DEF ViewInit, NewMan, IsMan
<1>5. thrones = [b \in Throne |-> thrones[b]] /\ AllClients(view) /\ inScene = {}
  BY <1>1 DEF ViewInit, AllClients
<1> QED
  BY <1>3, <1>4, <1>5 DEF ViewInv, SceneOK

LEMMA ViewStep == ViewInv /\ [ViewNext]_viewVars => ViewInv'
<1>1. SUFFICES ASSUME ViewInv, [ViewNext]_viewVars PROVE ViewInv'
  OBVIOUS
<1>2. ASSUME NEW p \in Fighter, NEW t, OnEnterBattle(p, t) PROVE ViewInv'
  BY <1>1, <1>2, OnEnterBattleKeeps
<1>3. ASSUME NEW p \in Fighter, OnExitBattle(p) \/ Gone(p) PROVE ViewInv'
  BY <1>1, <1>3, OnExitBattleKeeps, GoneKeeps
<1>4. ASSUME NEW p \in Fighter, OnReqPlayerList(p) \/ OnReqBattleInfo(p) PROVE ViewInv'
  BY <1>1, <1>4, OnReqPlayerListKeeps, OnReqBattleInfoKeeps
<1>5. ASSUME NEW p \in Fighter, PetSelected(p) \/ ItemUsed(p) PROVE ViewInv'
  BY <1>1, <1>5, PetSelectedKeeps, ItemUsedKeeps
<1>6. ASSUME NEW p \in Fighter, NEW f \in Plant, NEW n \in Sowing, FlowerPlanted(p, f, n)
      PROVE  ViewInv'
  BY <1>1, <1>6, FlowerPlantedKeeps
<1>7. ASSUME NEW p \in Fighter, NEW x \in Spot, ItemPickedUp(p, x) PROVE ViewInv'
  BY <1>1, <1>7, ItemPickedUpKeeps
<1>8. ASSUME NEW p \in Fighter, NEW u, NEW d, NEW near, SkillUsed(p, u, d, near) PROVE ViewInv'
  BY <1>1, <1>8, SkillUsedKeeps
<1>9. ASSUME NEW s \in BgStage, SwitchStage(s) PROVE ViewInv'
  BY <1>1, <1>9, SwitchStageKeeps
<1>10. ASSUME BattleCloses PROVE ViewInv'
  BY <1>1, <1>10, BattleClosesKeeps
<1>11. ASSUME NEW burn, NEW drop \in (Spot \ lying) \cup {"nowhere"}, NEW over, NEW aim, NEW d,
              SceneRuns(burn, drop, over, aim, d)
       PROVE  ViewInv'
  BY <1>1, <1>11, SceneRunsKeeps
<1>12. CASE UNCHANGED viewVars
  BY <1>1, <1>12, SameKeeps DEF viewVars
<1>13. CASE ViewNext
  BY <1>2, <1>3, <1>4, <1>5, <1>6, <1>7, <1>8, <1>9, <1>10, <1>11, <1>13, Zenon DEF ViewNext
<1> QED
  BY <1>1, <1>12, <1>13

LEMMA ViewsHold == ViewInv => ViewsAgree
BY DEF ViewInv, ViewsAgree, Sees, KnowsBed

\* A client that has asked once knows the scene from the broadcasts alone, whatever
\* the players, the flowers, the blows and the order in which they come: the handlers
\* of BgPlayer and Scene tell every change there is, and each is told as it happens.
THEOREM ClientsSeeTheScene == ViewSpec => []ViewsAgree
<1> QED
  BY ViewInitOK, ViewStep, ViewsHold, PTL DEF ViewSpec
=============================================================================
