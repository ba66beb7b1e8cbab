------------------------------ MODULE Battle ------------------------------
(***************************************************************************)
(* What LoongBgSrv promises of its battlegrounds, without teams, scenes,   *)
(* clocks or connections: a player is in one battle at a time, nobody      *)
(* joins a battle that is over, a prize is given at most once, at the end  *)
(* of a fight with at least two players in it, and a battleground that is  *)
(* free again holds nobody.                                                *)
(*                                                                         *)
(* LoongBgSrv implements this specification (see Promise in that module).  *)
(***************************************************************************)
CONSTANTS Bg, Player

VARIABLES
    phase,    \* "idle", "gather", "fight" or "over", of each battleground
    members,  \* the players in it
    prize     \* the result its fight was settled with, or "none"

vars == <<phase, members, prize>>

Init ==
    /\ phase = [b \in Bg |-> "idle"]
    /\ members = [b \in Bg |-> {}]
    /\ prize = [b \in Bg |-> "none"]

Join(p, b) ==
    /\ \A d \in Bg : p \notin members[d]
    /\ members' = [members EXCEPT ![b] = @ \cup {p}]
    /\ phase[b] # "over"
    /\ phase' = [phase EXCEPT ![b] = IF @ = "idle" THEN "gather" ELSE @]
    /\ UNCHANGED prize

Leave(p, b) ==
    /\ p \in members[b]
    /\ members' = [members EXCEPT ![b] = @ \ {p}]
    /\ UNCHANGED <<phase, prize>>

Begin(b) ==
    /\ phase[b] = "gather"
    /\ \E p, q \in members[b] : p # q
    /\ phase' = [phase EXCEPT ![b] = "fight"]
    /\ UNCHANGED <<members, prize>>

\* The battle ends without a prize.
CallOff(b) ==
    /\ phase[b] \in {"gather", "fight"}
    /\ phase' = [phase EXCEPT ![b] = "over"]
    /\ UNCHANGED <<members, prize>>

Settle(b) ==
    /\ phase[b] = "fight"
    /\ \E p, q \in members[b] : p # q
    /\ phase' = [phase EXCEPT ![b] = "over"]
    /\ \E r \in {"black", "white", "draw"} : prize' = [prize EXCEPT ![b] = r]
    /\ UNCHANGED members

Release(b) ==
    /\ phase[b] = "over"
    /\ phase' = [phase EXCEPT ![b] = "idle"]
    /\ members' = [members EXCEPT ![b] = {}]
    /\ prize' = [prize EXCEPT ![b] = "none"]

Next ==
    \E b \in Bg :
        \/ \E p \in Player : Join(p, b) \/ Leave(p, b)
        \/ Begin(b) \/ CallOff(b) \/ Settle(b) \/ Release(b)

Spec == Init /\ [][Next]_vars
=============================================================================
