------------------------------- MODULE BossSrv -------------------------------
(***************************************************************************)
(* bosssrv: a boss that all players hit together, the list of those that   *)
(* hurt it most (BossHurtMgr), what their clients are shown of its hit     *)
(* points, and the thread that tells php, which also sends the prizes.     *)
(*                                                                         *)
(* A handler of the loop is one step, as is what the php thread does with  *)
(* one message. A share is counted in hit points: AwardMin is awardper of  *)
(* the boss's. Clients send no more than a blow: the sums stay far from    *)
(* the width of an int.                                                    *)
(***************************************************************************)
EXTENDS Integers, Sequences, FiniteSets, SequencesExt

CONSTANTS
    Viewer,     \* connections
    Uid,        \* players
    LongName,   \* players whose name php cannot be told
    InitBossHp, AwardMin,
    MaxTopNum,  \* sMaxTopNum
    Blow,       \* hurtValue of a message
    MaxBlows    \* bound: blows that count

ASSUME BossAssumption ==
    /\ LongName \subseteq Uid /\ InitBossHp \in Nat \ {0} /\ AwardMin \in Nat \ {0}
    /\ MaxTopNum \in Nat \ {0} /\ Blow \subseteq Nat \ {0} /\ MaxBlows \in Nat

VARIABLES
    boss,      \* bossHp_, haveAward_, bUpdateHp_, isJiesuan
    hurt,      \* playerMap_
    top,       \* topPlayerVector_
    bossAt,    \* main: "loop", "stop", "join", "done"
    bossEnv,   \* SIGTERM has come, it is late in the evening, blows so far
    shown,     \* connection -> the hit points it was last sent
    phpQueue,  \* queue_
    phpEnded,
    loaded,    \* history: what php was told, in order
    awarded    \* history: the map and the list when the prizes were given

bossVars == <<boss, hurt, top, bossAt, bossEnv, shown, phpQueue, phpEnded, loaded, awarded>>

NotUp == -1
NoAwards == [hurt |-> <<>>, top |-> <<>>]

BossInit ==
    /\ boss = [hp |-> InitBossHp, haveAward |-> FALSE, update |-> FALSE, isJiesuan |-> FALSE]
    /\ hurt = [u \in {} |-> 0] /\ top = <<>>
    /\ bossAt = "loop"
    /\ bossEnv = [sigterm |-> FALSE, late |-> FALSE, blows |-> 0]
    /\ shown = [v \in Viewer |-> NotUp]
    /\ phpQueue = <<[tell |-> "elem"]>>
    /\ phpEnded = FALSE /\ loaded = <<>> /\ awarded = NoAwards

-----------------------------------------------------------------------------
(* BossHurtMgr                                                              *)

\* std::sort leaves equals in any order.
Orders(list) ==
    {s \in {[i \in DOMAIN list |-> list[p[i]]] : p \in [DOMAIN list -> DOMAIN list]} :
        /\ ToSet(s) = ToSet(list)
        /\ \A i, j \in DOMAIN s : i < j => s[i].hurt >= s[j].hurt}

GetHurtValue(u) == IF u \in DOMAIN hurt THEN hurt[u] ELSE 0

AddTop(list, entry) ==
    LET i == SelectInSeq(list, LAMBDA e : e.uid = entry.uid)
    IN  IF i # 0 THEN Orders([list EXCEPT ![i] = entry])
        ELSE IF Len(list) < MaxTopNum THEN Orders(Append(list, entry))
        ELSE {Front(s) : s \in Orders(Append(list, entry))}

-----------------------------------------------------------------------------
(* What php is told                                                         *)

TellPhpPlayerHurt(u, n) ==
    IF u \in LongName THEN <<>> ELSE <<[tell |-> "hurt", uid |-> u, hurt |-> n]>>

\* tellPhpTop gives up at the first name it cannot encode.
TellPhpTop(list) ==
    LET bad == {i \in DOMAIN list : list[i].uid \in LongName}
        last == IF bad = {} THEN Len(list) ELSE (CHOOSE i \in bad : \A j \in bad : i <= j) - 1
    IN  [i \in 1..last |-> [tell |-> "win", uid |-> list[i].uid, hurt |-> list[i].hurt]]

TopMails(list) == [i \in DOMAIN list |-> [tell |-> "topMail", uid |-> list[i].uid, rank |-> i]]

Deserving(map) == {u \in DOMAIN map : map[u] >= AwardMin}

ShareMails(map) ==
    LET s == SetToSeq(Deserving(map))
    IN  [i \in DOMAIN s |-> [tell |-> "shareMail", uid |-> s[i]]]

Prizes(map, list) == TopMails(list) \o ShareMails(map) \o TellPhpTop(list)

\* tellPhpActOver without its test of haveAward_.
TellPhpActOverAgain(b, map, list, before, after) ==
    /\ boss' = [b EXCEPT !.haveAward = TRUE]
    /\ phpQueue' = before \o Prizes(map, list) \o after
    /\ awarded' = [hurt |-> map, top |-> list]

\* `before' is the queue, `after' what the caller puts into it next.
TellPhpActOver(b, map, list, before, after) ==
    IF b.haveAward THEN boss' = b /\ phpQueue' = before \o after /\ UNCHANGED awarded
    ELSE /\ boss' = [b EXCEPT !.haveAward = TRUE]
         /\ phpQueue' = before \o Prizes(map, list) \o after
         /\ awarded' = [hurt |-> map, top |-> list]

-----------------------------------------------------------------------------
(* The handlers of the loop                                                 *)

Up == {v \in Viewer : shown[v] # NotUp}

Positive(hp) == IF hp < 0 THEN 0 ELSE hp

BroadMsg(hp) == shown' = [v \in Viewer |-> IF v \in Up THEN Positive(hp) ELSE NotUp]

ViewerUp(v) ==
    /\ bossAt = "loop" /\ v \notin Up
    /\ shown' = [shown EXCEPT ![v] = boss.hp]
    /\ UNCHANGED <<boss, hurt, top, bossAt, bossEnv, phpQueue, phpEnded, loaded, awarded>>

ViewerDown(v) ==
    /\ bossAt = "loop" /\ v \in Up
    /\ shown' = [shown EXCEPT ![v] = NotUp]
    /\ UNCHANGED <<boss, hurt, top, bossAt, bossEnv, phpQueue, phpEnded, loaded, awarded>>

\* onKaBuMessage, param 0: once the boss is dead a blow is ignored.
Strike(u, n) ==
    /\ bossAt = "loop" /\ Up # {} /\ boss.hp > 0 /\ bossEnv.blows < MaxBlows
    /\ bossEnv' = [bossEnv EXCEPT !.blows = @ + 1]
    /\ LET sum == GetHurtValue(u) + n
           told == phpQueue \o TellPhpPlayerHurt(u, n)
       IN  /\ hurt' = [x \in DOMAIN hurt \cup {u} |-> IF x = u THEN sum ELSE hurt[x]]
           /\ top' \in AddTop(top, [uid |-> u, hurt |-> sum])
           /\ IF boss.hp - n <= 0
              THEN /\ BroadMsg(boss.hp - n)
                   /\ TellPhpActOver([boss EXCEPT !.hp = 0, !.update = FALSE], hurt', top', told, <<>>)
              ELSE /\ boss' = [boss EXCEPT !.hp = @ - n, !.update = TRUE]
                   /\ phpQueue' = told
                   /\ UNCHANGED <<shown, awarded>>
    /\ UNCHANGED <<bossAt, phpEnded, loaded>>

\* Every two seconds.
UpdateHp ==
    /\ bossAt = "loop" /\ boss.update
    /\ BroadMsg(boss.hp)
    /\ boss' = [boss EXCEPT !.update = FALSE]
    /\ UNCHANGED <<hurt, top, bossAt, bossEnv, phpQueue, phpEnded, loaded, awarded>>

\* Every minute, of which the evening has some.
Jiesuan ==
    /\ bossAt = "loop" /\ ~boss.isJiesuan /\ bossEnv.late
    /\ TellPhpActOver([boss EXCEPT !.isJiesuan = TRUE], hurt, top, phpQueue, <<>>)
    /\ UNCHANGED <<hurt, top, bossAt, bossEnv, shown, phpEnded, loaded>>

TickMe ==
    /\ bossAt = "loop" /\ bossEnv.sigterm
    /\ bossAt' = "stop"
    /\ UNCHANGED <<boss, hurt, top, bossEnv, shown, phpQueue, phpEnded, loaded, awarded>>

-----------------------------------------------------------------------------
(* stop(), the php thread, and the world                                    *)

\* stop(): the prizes if nobody has had them, then the end of the thread.
StopBoss ==
    /\ bossAt = "stop"
    /\ TellPhpActOver(boss, hurt, top, phpQueue, <<[tell |-> "stop"]>>)
    /\ bossAt' = "join"
    /\ UNCHANGED <<hurt, top, bossEnv, shown, phpEnded, loaded>>

JoinPhp ==
    /\ bossAt = "join" /\ phpEnded
    /\ bossAt' = "done"
    /\ UNCHANGED <<boss, hurt, top, bossEnv, shown, phpQueue, phpEnded, loaded, awarded>>

PhpThreadHandler ==
    /\ ~phpEnded /\ phpQueue # <<>>
    /\ phpQueue' = Tail(phpQueue)
    /\ IF Head(phpQueue).tell = "stop" THEN phpEnded' = TRUE /\ UNCHANGED loaded
       ELSE loaded' = Append(loaded, Head(phpQueue)) /\ UNCHANGED phpEnded
    /\ UNCHANGED <<boss, hurt, top, bossAt, bossEnv, shown, awarded>>

BossWorld ==
    /\ bossAt = "loop"
    /\ bossEnv' \in {[bossEnv EXCEPT !.sigterm = TRUE], [bossEnv EXCEPT !.late = TRUE]}
    /\ bossEnv' # bossEnv
    /\ UNCHANGED <<boss, hurt, top, bossAt, shown, phpQueue, phpEnded, loaded, awarded>>

BossNext ==
    \/ \E v \in Viewer : ViewerUp(v) \/ ViewerDown(v)
    \/ \E u \in Uid, n \in Blow : Strike(u, n)
    \/ UpdateHp \/ Jiesuan \/ TickMe \/ StopBoss \/ JoinPhp \/ PhpThreadHandler
    \/ BossWorld

BossSpec == BossInit /\ [][BossNext]_bossVars

-----------------------------------------------------------------------------
(* What must hold                                                           *)

\* The list the players are shown and given prizes by is the top of the map:
\* in order, each with the sum of his blows, and nobody outside it has more
\* than the last.
TopOfMap ==
    /\ Len(top) = IF Cardinality(DOMAIN hurt) < MaxTopNum THEN Cardinality(DOMAIN hurt)
                                                          ELSE MaxTopNum
    /\ \A i \in DOMAIN top : hurt[top[i].uid] = top[i].hurt
    /\ \A i, j \in DOMAIN top : i < j => top[i].hurt >= top[j].hurt /\ top[i].uid # top[j].uid
    /\ \A u \in DOMAIN hurt : (\A i \in DOMAIN top : top[i].uid # u) =>
          hurt[u] <= top[Len(top)].hurt

\* Where what php was told says `tell'.
Places(tell) == {i \in DOMAIN loaded : loaded[i].tell = tell}

\* The ranking is right at every moment, and when the server has stopped, php was
\* told everything, and the prizes once each: whether the boss was killed, the
\* evening came, the server was stopped, or all of it.
PrizesRight ==
    /\ TopOfMap
    /\ bossAt = "done" =>
          /\ phpQueue = <<>> /\ boss.haveAward
          /\ \E n \in 0..Len(loaded) :
                /\ Places("topMail") = {n + i : i \in DOMAIN awarded.top}
                /\ \A i \in DOMAIN awarded.top : loaded[n + i] = TopMails(awarded.top)[i]
          /\ Cardinality(Places("shareMail")) = Cardinality(Deserving(awarded.hurt))
          /\ {loaded[i].uid : i \in Places("shareMail")} = Deserving(awarded.hurt)
          /\ boss.hp = 0 => awarded.hurt = hurt \/ boss.isJiesuan
=============================================================================
