---------------------------- MODULE MCDBSrvStore ----------------------------
(* Instances of DBSrvStore for TLC. *)
EXTENDS DBSrvStore, TLC

Ask(u, t) == [uid |-> u, name |-> t]
Req(op, ts, sql) == [op |-> op, uid |-> 1, tables |-> ts, sql |-> sql]

Pet == <<Ask(1, "pet")>>

\* One table of one user, written with contents that are escaped and contents that
\* need no escaping, and read by itself and with others.
MCSetRead == {Req("set", Pet, "escaped"), Req("set", Pet, "plain"),
              Req("get", Pet, "none"), Req("mget", Pet, "none")}

\* A set of one table.
MCSet == {Req("set", Pet, "escaped")}
=============================================================================
