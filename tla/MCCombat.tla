------------------------------ MODULE MCCombat ------------------------------
(***************************************************************************)
(* Instances of Combat and SceneView for TLC: a behaviour is one of the    *)
(* fight, or one of what its clients are told.                             *)
(***************************************************************************)
EXTENDS Combat, SceneView, TLC

CONSTANTS bite, burn, stun, splash, spit   \* skills

VARIABLE told    \* whether this behaviour is one of SceneView

MCSkillBufs == [s \in {bite, burn, stun, splash, spit} |->
    CASE s = burn   -> <<"fire", "daze", "sleep">>
      [] s = stun   -> <<"daze">>
      [] s = splash -> <<"spray">>
      [] OTHER      -> <<>>]
MCCooldown == [s \in {bite, burn, stun, splash, spit} |-> 0]
MCItemBufs == <<<<>>, <<"shield">>, <<"boots">>, <<>>>>
Interchangeable == Permutations(Player)

\* Two bufs stun.
MCTypeOf == [fire |-> "zhouShang", daze |-> "hunXuan", sleep |-> "hunXuan",
             spray |-> "jianShe", shield |-> "mianYi", boots |-> "addSpeed"]
MCDuration == [b \in BufId |-> IF b = "sleep" THEN 2 ELSE 1]

Init == told \in BOOLEAN /\ CombatInit /\ ViewInit

Next == \/ ~told /\ CombatNext /\ UNCHANGED <<told, viewVars>>
        \/ told /\ ViewNext /\ UNCHANGED <<told, combatVars>>

Spec == Init /\ [][Next]_<<told, combatVars, viewVars>>
=============================================================================
