---------------------------- MODULE MCTableRows ----------------------------
(* An instance of TableRows for TLC: the kinds of columns that both ways know. *)
EXTENDS TableRows

MCColumn == <<"uid", "name", "rate", "bag">>
MCTypeOf == [uid |-> "int32", name |-> "string", rate |-> "double", bag |-> "message"]
MCValuesOf == [uid |-> {7}, name |-> {0, 1}, rate |-> {2}, bag |-> {1}]
=============================================================================
