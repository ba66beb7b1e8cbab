---------------------------- MODULE WriteBehind ----------------------------
(***************************************************************************)
(* What dbsrv promises of a stored table, without threads, queues or       *)
(* connections: a value accepted into the cache and owed to the database   *)
(* stays owed until it is either stored there or its key is taken by the   *)
(* log thread, and the program does not end while anything is owed.        *)
(*                                                                         *)
(* DBSrvStore implements this specification (see Promise in that module).  *)
(***************************************************************************)
EXTENDS Naturals

CONSTANT Key  \* what a table is stored under

(* Values are numbered in the order the cache took them; 0 is no value.     *)

VARIABLES
    cache,     \* the value redis holds for a key, 0 when it holds none
    db,        \* the value MySQL holds for a key, 0 when it has no row
    owed,      \* accepted writes that have been neither stored nor recorded
    recorded,  \* writes whose key the log thread has taken, for the recover file
    ended      \* the program has left main

vars == <<cache, db, owed, recorded, ended>>

Init ==
    /\ cache = [k \in Key |-> 0]
    /\ db \in [Key -> {0, 1}]
    /\ owed = {}
    /\ recorded = {}
    /\ ended = FALSE

\* A set of k reaches the cache; its value is new to every key.
Cache(k) ==
    /\ cache' = [cache EXCEPT ![k] = cache'[k]]
    /\ \A j \in Key : cache[j] < cache'[k]
    /\ UNCHANGED <<db, owed, recorded, ended>>

\* A value becomes owed to the database.
Owe(w) ==
    /\ ~ended
    /\ owed' = owed \cup {w}
    /\ UNCHANGED <<cache, db, recorded, ended>>

\* An owed write reaches the database; whoever owes it may not learn so, and
\* goes on owing it. Two owed writes are stored in either order.
Store(w) ==
    /\ w \in owed
    /\ db' = [db EXCEPT ![w.key] = w.ver]
    /\ owed' \in {owed, owed \ {w}}
    /\ UNCHANGED <<cache, recorded, ended>>

\* An owed write is given up, and the log thread has its key.
Record(w) ==
    /\ w \in owed
    /\ owed' = owed \ {w}
    /\ recorded' = recorded \cup {w}
    /\ UNCHANGED <<cache, db, ended>>

\* The cache may lose a key at any time.
Forget(k) ==
    /\ cache' = [cache EXCEPT ![k] = 0]
    /\ UNCHANGED <<db, owed, recorded, ended>>

\* A crash loses what is owed: the price of writing behind. Neither the cache
\* nor the database changes.
Crash ==
    /\ ~ended
    /\ owed' = {}
    /\ UNCHANGED <<cache, db, recorded, ended>>

\* The program ends in good order.
End ==
    /\ owed = {}
    /\ ended' = TRUE
    /\ UNCHANGED <<cache, db, owed, recorded>>

Next ==
    \/ \E k \in Key : Cache(k) \/ Forget(k)
    \/ \E w \in owed' : Owe(w)
    \/ \E w \in owed : Store(w) \/ Record(w)
    \/ Crash
    \/ End

Spec == Init /\ [][Next]_vars
=============================================================================
