------------------------------ MODULE MCDBSrv ------------------------------
(* Instances of DBSrv for TLC. *)
EXTENDS DBSrv, TLC

Pet(u) == [uid |-> u, name |-> "pet"]

\* A read of one table, which asks redis and then answers that it found none.
MCRequests == {[op |-> "mget", uid |-> 1, tables |-> <<Pet(1)>>, sql |-> "none"]}
MCConId == 0 .. ConIdLimit - 1
=============================================================================
