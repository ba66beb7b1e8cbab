---------------------------- MODULE MCLoongBgSrv ----------------------------
(* Instances of LoongBgSrv for TLC. *)
EXTENDS LoongBgSrv, TLC

\* Nothing tells one battleground, connection or playerId from another.
Symmetry == Permutations(Bg) \cup Permutations(Conn) \cup Permutations(Id)
=============================================================================
