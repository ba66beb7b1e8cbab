------------------------------- MODULE MCParts -------------------------------
(***************************************************************************)
(* An instance of the parts of the servers that share no state: the        *)
(* battlegrounds of LoongBgSrv and its base tables, bosssrv, the           *)
(* configuration, the start and the end of a server and its log files. A   *)
(* behaviour picks one of them and is a behaviour of its module; the       *)
(* variables of the others keep the values of one initial state.           *)
(***************************************************************************)
EXTENDS LoongBgSrv, BaseTables, BossSrv, ConfigFile, Startup, LogFiles, TLC

VARIABLE part

partsVars ==
    <<part, vars, baseVars, bossVars, cfgVars, startVars, logFileVars>>

\* Nothing tells one battleground, connection or playerId from another.
Symmetry == Permutations(Bg) \cup Permutations(Conn) \cup Permutations(Id)

\* Base tables: in order, out of order, too long, and with columns that say nothing,
\* more than there is room for, or a number that is not a short.
RowsOf(columns) ==
    {<<>>} \cup {<<[id |-> i, column |-> col], [id |-> 3 - i, column |-> col]>> :
                   i \in {1, 2}, col \in columns}
NoRows == [t \in {"buf", "item", "pet", "skill"} |-> <<>>]
TableContents ==
    {[buf |-> <<[id |-> 1, column |-> <<1, 3>>]>>, item |-> items, pet |-> pets, skill |-> skills] :
        items \in RowsOf({<<>>, <<1, 1>>, <<1, 65537>>}), pets \in RowsOf({<<2, 2, 1>>}),
        skills \in RowsOf({<<0>>, <<2, 1, 2>>})}
    \cup {NoRows, [NoRows EXCEPT !["buf"] = [i \in 1 .. 3 |-> [id |-> i, column |-> <<0>>]]]}
Rooms == [t \in {"buf", "item", "pet", "skill"} |-> 2]
ListRooms == [t \in {"buf", "item", "pet", "skill"} |-> IF t = "skill" THEN 1 ELSE 2]

\* Names of letters: two blocks and two settings.
Blocks == {<<1>>, <<2>>}
Names == {<<3>>, <<4>>}

CommandLines ==
    {[says |-> "run", cores |-> on, daemon |-> on, pidFile |-> TRUE, user |-> on] : on \in BOOLEAN}
    \cup {[says |-> says, cores |-> FALSE, daemon |-> FALSE, pidFile |-> FALSE, user |-> FALSE] :
            says \in {"version", "unknown"}}

PartsInit ==
    /\ part \in {"battles", "bases", "boss", "config", "startup", "logs"}
    /\ Init /\ BossInit /\ CfgInit /\ LogInit
    /\ BaseInit /\ (part # "bases" => rowsOf = NoRows)
    /\ StartInit /\ (part # "startup" => prog = "dbsrv")

PartsNext ==
    \/ /\ part = "battles" /\ Next
       /\ UNCHANGED <<part, baseVars, bossVars, cfgVars, startVars, logFileVars>>
    \/ /\ part = "bases" /\ BaseNext
       /\ UNCHANGED <<part, vars, bossVars, cfgVars, startVars, logFileVars>>
    \/ /\ part = "boss" /\ BossNext
       /\ UNCHANGED <<part, vars, baseVars, cfgVars, startVars, logFileVars>>
    \/ /\ part = "config" /\ CfgNext
       /\ UNCHANGED <<part, vars, baseVars, bossVars, startVars, logFileVars>>
    \/ /\ part = "startup" /\ StartNext
       /\ UNCHANGED <<part, vars, baseVars, bossVars, cfgVars, logFileVars>>
    \/ /\ part = "logs" /\ LogNext
       /\ UNCHANGED <<part, vars, baseVars, bossVars, cfgVars, startVars>>

PartsSpec == PartsInit /\ [][PartsNext]_partsVars
=============================================================================
