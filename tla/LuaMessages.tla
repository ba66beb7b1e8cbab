---------------------------- MODULE LuaMessages ----------------------------
(***************************************************************************)
(* Who owns a protobuf message in dbsrv (WorkerThread, its dispatcher,     *)
(* LuaPB, LuaWK): the codec makes it, the queue carries it, a handler or   *)
(* the garbage collector of lua deletes it, and a reply is deleted by the  *)
(* functor that sends it. Scripts hold userdata that point to messages and *)
(* to parts of messages, and let go of them in any order.                  *)
(*                                                                         *)
(* One worker. A message has one sub-message and one repeated sub-message; *)
(* what the scalar fields hold is left out. A script may call pb.delete,   *)
(* and go on with a message that is gone: that is undefined, and noted in  *)
(* "wild" or by "twice".                                                   *)
(***************************************************************************)
EXTENDS Naturals, FiniteSets, Sequences, SequencesExt

CONSTANTS
    MaxMsg,       \* bound: messages that are made
    MaxUd,        \* bound: userdata of the lua state
    MaxRequests   \* bound: requests of clients

ASSUME LuaAssumption == MaxMsg \in Nat /\ MaxUd \in Nat /\ MaxRequests \in Nat

VARIABLES
    heap,         \* message -> "none", "live", "freed", or "twice" freed
    whole,        \* message -> the message that it is a part of, or NoMsg
    part1,        \* message -> its singular sub-message, or NoMsg
    requests,     \* queue_ of the worker: messages with the kind of command
    ud,           \* userdata -> what it points to, whether its collection deletes, who holds it
    inLua,        \* whether onLuaMessage runs
    functors,     \* replies that wait for the loop
    lost,         \* history: messages dropped because no onLuaMessage is defined
    deleted,      \* history: messages a script has deleted with pb.delete
    wild,         \* history: messages used when they were gone, or NoMsg
    nreq          \* counts requests for MaxRequests

luaVars == <<heap, whole, part1, requests, ud, inLua, functors, lost, deleted, wild, nreq>>

Msg == 1 .. MaxMsg       \* addresses: each is used once
Ud == 1 .. MaxUd
NoMsg == 0
NoUd == [msg |-> NoMsg, isDelete |-> FALSE, held |-> FALSE]
Live(m) == m \in Msg /\ heap[m] = "live"

\* Memory that nothing points to yet; the first, since all are alike.
Fresh == {m \in Msg : heap[m] = "none" /\ \A x \in 1 .. m - 1 : heap[x] # "none"}
Unused == {u \in Ud : ud[u] = NoUd /\ \A x \in 1 .. u - 1 : ud[x] # NoUd}

Parts(m) == {x \in Msg : whole[x] = m}

\* delete: a message takes its parts with it, and theirs; the least set that has m and,
\* with each message, its parts.
Below(m) ==
    {x \in Msg : \A S \in SUBSET Msg : m \in S /\ (\A y \in S : Parts(y) \subseteq S) => x \in S}
Freed(m) == [x \in Msg |-> IF x \notin Below(m) THEN heap[x]
                           ELSE IF heap[x] = "live" THEN "freed" ELSE "twice"]

\* lua_newuserdata and the metatable.
PushUserdata(u, m, isDelete) ==
    /\ u \in Unused
    /\ ud' = [ud EXCEPT ![u] = [msg |-> m, isDelete |-> isDelete, held |-> TRUE]]

-----------------------------------------------------------------------------
(* The loop and the worker                                                  *)

\* onKaBuMessage: the codec has made the message.
Request(m, kind) ==
    /\ nreq < MaxRequests /\ m \in Fresh
    /\ heap' = [heap EXCEPT ![m] = "live"]
    /\ requests' = Append(requests, [msg |-> m, kind |-> kind]) /\ nreq' = nreq + 1
    /\ UNCHANGED <<whole, part1, ud, inLua, functors, lost, deleted, wild>>

TakesNext(kind) == requests # <<>> /\ ~inLua /\ Head(requests).kind = kind

\* onGet, onSet, onMGet: the reply is new, the request is deleted.
OnCommand(r) ==
    /\ TakesNext("table") /\ r \in Fresh
    /\ heap' = [Freed(Head(requests).msg) EXCEPT ![r] = "live"]
    /\ functors' = Append(functors, r) /\ requests' = Tail(requests)
    /\ UNCHANGED <<whole, part1, ud, inLua, lost, deleted, wild, nreq>>

\* onLuaMessage: pushMessage gives the message to lua; when the scripts that
\* reloadLua has just run define no such function, it is forgotten.
OnLuaMessage(u, defined) ==
    /\ TakesNext("script")
    /\ requests' = Tail(requests) /\ inLua' = defined
    /\ IF defined THEN PushUserdata(u, Head(requests).msg, TRUE) /\ UNCHANGED lost
                  ELSE lost' = lost \cup {Head(requests).msg} /\ UNCHANGED ud
    /\ UNCHANGED <<heap, whole, part1, functors, deleted, wild, nreq>>

\* sendReply, in the loop: sent, or the connection is gone; deleted in both cases.
RunReply ==
    /\ functors # <<>>
    /\ heap' = (IF Live(Head(functors)) THEN Freed(Head(functors)) ELSE heap)
    /\ functors' = Tail(functors)
    /\ UNCHANGED <<whole, part1, requests, ud, inLua, lost, deleted, wild, nreq>>

-----------------------------------------------------------------------------
(* What a script does                                                       *)

Usable(u) == inLua /\ ud[u].held /\ Live(ud[u].msg)

\* pb.new; an unknown type gives a userdata without a message.
PbNew(u, m) ==
    /\ inLua /\ PushUserdata(u, m, TRUE) /\ m \in Fresh \cup {NoMsg}
    /\ heap' = IF m = NoMsg THEN heap ELSE [heap EXCEPT ![m] = "live"]
    /\ UNCHANGED <<whole, part1, requests, inLua, functors, lost, deleted, wild, nreq>>

\* pb_get of a sub-message: MutableMessage makes it when it is not there.
PbGetMessage(u, v, m) ==
    LET p == ud[u].msg IN
    /\ Usable(u)
    /\ IF part1[p] # NoMsg
       THEN m = part1[p] /\ UNCHANGED <<heap, whole, part1>>
       ELSE /\ m \in Fresh
            /\ heap' = [heap EXCEPT ![m] = "live"]
            /\ whole' = [whole EXCEPT ![m] = p] /\ part1' = [part1 EXCEPT ![p] = m]
    /\ PushUserdata(v, m, FALSE)
    /\ UNCHANGED <<requests, inLua, functors, lost, deleted, wild, nreq>>

\* MUTANT of PbRepeatedAdd: the userdata of the new element owns it.
PbRepeatedAddOwning(u, v, m) ==
    /\ Usable(u) /\ m \in Fresh
    /\ heap' = [heap EXCEPT ![m] = "live"] /\ whole' = [whole EXCEPT ![m] = ud[u].msg]
    /\ PushUserdata(v, m, TRUE)
    /\ UNCHANGED <<part1, requests, inLua, functors, lost, deleted, wild, nreq>>

\* pb_repeated_add
PbRepeatedAdd(u, v, m) ==
    /\ Usable(u) /\ m \in Fresh
    /\ heap' = [heap EXCEPT ![m] = "live"] /\ whole' = [whole EXCEPT ![m] = ud[u].msg]
    /\ PushUserdata(v, m, FALSE)
    /\ UNCHANGED <<part1, requests, inLua, functors, lost, deleted, wild, nreq>>

\* pb_repeated_get: the elements that are there.
PbRepeatedGet(u, v, m) ==
    /\ Usable(u) /\ m \in Parts(ud[u].msg) \ {part1[ud[u].msg]}
    /\ PushUserdata(v, m, FALSE)
    /\ UNCHANGED <<heap, whole, part1, requests, inLua, functors, lost, deleted, wild, nreq>>

\* pb.get of a scalar, pb.set, pb.tostring, pb.serializeToString, pb.parseFromString, which
\* keeps the sub-messages and clears them; and any of the functions here for a message that
\* is gone, since nothing tells. A userdata without a message is let be by get and set only.
PbUse(u) ==
    /\ inLua /\ ud[u].held
    /\ wild' = IF Live(ud[u].msg) THEN wild ELSE wild \cup {ud[u].msg}
    /\ UNCHANGED <<heap, whole, part1, requests, ud, inLua, functors, lost, deleted, nreq>>

\* pb.delete: the userdata goes on pointing to what it has deleted.
PbDelete(u) ==
    /\ inLua /\ ud[u].held /\ ud[u].isDelete /\ ud[u].msg # NoMsg
    /\ heap' = Freed(ud[u].msg) /\ deleted' = deleted \cup Below(ud[u].msg)
    /\ UNCHANGED <<whole, part1, requests, ud, inLua, functors, lost, wild, nreq>>

\* wk.send: sendReplyEx takes the bytes of the message, not the message.
WkSend(u) ==
    /\ Usable(u) /\ Len(functors) < 2
    /\ functors' = Append(functors, NoMsg)
    /\ UNCHANGED <<heap, whole, part1, requests, ud, inLua, lost, deleted, wild, nreq>>

\* A variable goes out of its scope, or is given another value.
LetGo(u) ==
    /\ ud[u].held /\ inLua
    /\ ud' = [ud EXCEPT ![u].held = FALSE]
    /\ UNCHANGED <<heap, whole, part1, requests, inLua, functors, lost, deleted, wild, nreq>>

\* The handler returns, or fails: what its locals hold is let go of, globals keep
\* theirs until the scripts run again.
LuaReturns(kept) ==
    /\ inLua /\ kept \subseteq {u \in Ud : ud[u].held}
    /\ inLua' = FALSE
    /\ ud' = [u \in Ud |-> [ud[u] EXCEPT !.held = u \in kept]]
    /\ UNCHANGED <<heap, whole, part1, requests, functors, lost, deleted, wild, nreq>>

\* pb_delete as __gc: in any order, whenever lua collects.
PbGc(u) ==
    /\ ud[u] # NoUd /\ ~ud[u].held
    /\ heap' = (IF ud[u].isDelete /\ ud[u].msg # NoMsg THEN Freed(ud[u].msg) ELSE heap)
    /\ ud' = [ud EXCEPT ![u] = NoUd]
    /\ UNCHANGED <<whole, part1, requests, inLua, functors, lost, deleted, wild, nreq>>

LuaInit ==
    /\ heap = [m \in Msg |-> "none"] /\ deleted = {} /\ wild = {}
    /\ whole = [m \in Msg |-> NoMsg] /\ part1 = [m \in Msg |-> NoMsg]
    /\ requests = <<>> /\ functors = <<>> /\ lost = {} /\ inLua = FALSE /\ nreq = 0
    /\ ud = [u \in Ud |-> NoUd]

LuaNext ==
    \/ \E m \in Msg, kind \in {"table", "script"} : Request(m, kind)
    \/ \E r \in Msg : OnCommand(r)
    \/ \E u \in Ud, defined \in BOOLEAN : OnLuaMessage(u, defined)
    \/ RunReply
    \/ \E u \in Ud :
          \/ \E m \in Msg \cup {NoMsg} : PbNew(u, m)
          \/ \E v \in Ud, m \in Msg :
                PbGetMessage(u, v, m) \/ PbRepeatedAdd(u, v, m) \/ PbRepeatedGet(u, v, m)
          \/ PbUse(u) \/ WkSend(u) \/ PbDelete(u) \/ LetGo(u) \/ PbGc(u)
    \/ \E kept \in SUBSET Ud : LuaReturns(kept)

LuaSpec == LuaInit /\ [][LuaNext]_luaVars

-----------------------------------------------------------------------------
(* Properties                                                               *)

OwnersOf(m) ==
    Cardinality({i \in DOMAIN requests : requests[i].msg = m})
    + Cardinality({i \in DOMAIN functors : functors[i] = m})
    + Cardinality({u \in Ud : ud[u].msg = m /\ ud[u].isDelete})
    + Cardinality({x \in {whole[m]} : Live(x)})

\* Every message that exists has one owner, which deletes it, once, and its parts with it:
\* through scripts that hold wholes and parts, handlers that fail, and a collector that
\* takes userdata in any order; excepted are a message dropped for want of a handler,
\* which nobody deletes, and one that a script has deleted by pb.delete, which the
\* collector deletes again. What a script uses is there, but for a part of a whole that is
\* gone, what it has deleted, and the nothing that pb.new gives for an unknown type.
ScriptsAreSafe ==
    /\ \A m \in Msg \ deleted :
          /\ heap[m] # "twice"
          /\ OwnersOf(m) = IF heap[m] = "live" /\ m \notin lost THEN 1 ELSE 0
    /\ \A m \in Msg : whole[m] # NoMsg => heap[m] = heap[whole[m]]
    /\ \A m \in wild : m = NoMsg \/ m \in deleted \/ whole[m] # NoMsg
=============================================================================
