----------------------------- MODULE NetServer -----------------------------
(***************************************************************************)
(* mysdk/net as a server uses it: one EventLoop thread with its poller, an *)
(* Acceptor, a TcpServer that owns the connections in an array_t, and the  *)
(* TcpConnection objects with their Session and output buffer. Peers and   *)
(* the kernel are outside; other threads only queue functors.              *)
(*                                                                         *)
(* A round of the loop takes what epoll reported, runs the handlers in the *)
(* order of the report, then swaps out and runs the queued functors. A     *)
(* closed connection is deleted by a functor, never inside a handler.      *)
(* A byte is the number of its position in what was sent.                  *)
(***************************************************************************)
EXTENDS Naturals, Sequences, FiniteSets

CONSTANTS
    Conn,       \* connections, each opened once by its peer
    None,
    SndBuf,     \* bytes the kernel holds for a connection
    MaxIn,      \* bound: messages the peers send
    MaxReset,   \* bound: resets by peers and other socket errors
    Sizes,      \* bound: bytes of an answer
    MaxOut,     \* bound: bytes sent on a connection
    MaxPost,    \* bound: functors queued by other threads
    MaxTick     \* bound: firings of timers

ASSUME NetAssumption ==
    /\ None \notin Conn
    /\ SndBuf \in Nat \ {0} /\ Sizes \subseteq Nat \ {0}
    /\ MaxIn \in Nat /\ MaxReset \in Nat /\ MaxOut \in Nat /\ MaxPost \in Nat /\ MaxTick \in Nat

VARIABLES
    \* the kernel and the peers
    backlog,     \* connections made and not yet accepted
    inbox,       \* messages in the receive buffer
    fin,         \* the peer has closed its side
    rst,         \* a socket error, a reset by the peer or any other (ETIMEDOUT and the
                 \* like): "none", "error" in SO_ERROR, "seen"
    room,        \* room in the send buffer
    wire,        \* bytes the kernel took, in order
    \* TcpConnection and Session
    state, reading, writing, output,
    \* TcpServer::tcpConnectionArray_ and array_item_t::array_index
    array, index,
    \* EventLoop: where it is, what the poll reported, functors
    at, fired, current, acceptable, due, pending, functors, quit,
    \* abort() was called
    aborted,
    \* history: bytes sent, calls of connectionCallback_, a timer has closed a
    \* connection, a deleted connection was used
    sent, ups, downs, idled, dangling,
    \* use of the bounds
    nin, nreset, npost, ntick

kernelVars == <<backlog, inbox, fin, rst, room, wire>>
connVars == <<state, reading, writing, output>>
arrayVars == <<array, index>>
loopVars == <<at, fired, current, acceptable, due>>
functorVars == <<pending, functors>>
callVars == <<ups, downs, idled, dangling>>
boundVars == <<nin, nreset, npost, ntick>>
vars == <<kernelVars, connVars, arrayVars, loopVars, functorVars, quit, aborted, sent,
          callVars, boundVars>>

Destroy(c) == [do |-> "connectDestroyed", conn |-> c]
Task(c) == [do |-> "send", conn |-> c]

Init ==
    /\ backlog = <<>>
    /\ inbox = [c \in Conn |-> 0] /\ fin = [c \in Conn |-> FALSE]
    /\ rst = [c \in Conn |-> "none"]
    /\ room = [c \in Conn |-> SndBuf] /\ wire = [c \in Conn |-> <<>>]
    /\ state = [c \in Conn |-> "none"]
    /\ reading = [c \in Conn |-> FALSE] /\ writing = [c \in Conn |-> FALSE]
    /\ output = [c \in Conn |-> <<>>]
    /\ array = <<>> /\ index = [c \in Conn |-> 0]
    /\ at = "poll" /\ fired = [c \in Conn |-> {}] /\ current = None
    /\ acceptable = FALSE /\ due = FALSE
    /\ pending = <<>> /\ functors = <<>>
    /\ quit = FALSE /\ aborted = FALSE
    /\ sent = [c \in Conn |-> 0]
    /\ ups = [c \in Conn |-> 0] /\ downs = [c \in Conn |-> 0]
    /\ idled = FALSE /\ dangling = FALSE
    /\ nin = 0 /\ nreset = 0 /\ npost = 0 /\ ntick = 0

Running == at # "ended" /\ ~aborted
Serving == Running /\ at # "out"
Up(c) == state[c] \in {"connected", "disconnecting"}
Closed(c) == state[c] \in {"disconnected", "deleted"}

-----------------------------------------------------------------------------
(* Peers                                                                    *)

Known(c) == state[c] # "none" \/ \E i \in DOMAIN backlog : backlog[i] = c

\* What a peer does matters until the server has closed the connection.
Open(c) == Serving /\ Known(c) /\ state[c] \notin {"disconnected", "deleted"}

Connect(c) ==
    /\ Serving /\ ~Known(c)
    /\ backlog' = Append(backlog, c)
    /\ UNCHANGED <<inbox, fin, rst, room, wire, connVars, arrayVars, loopVars, functorVars, quit,
                   aborted, sent, callVars, boundVars>>

PeerSends(c) ==
    /\ Open(c) /\ ~fin[c] /\ rst[c] = "none"
    /\ nin < MaxIn
    /\ nin' = nin + 1
    /\ inbox' = [inbox EXCEPT ![c] = @ + 1]
    /\ UNCHANGED <<backlog, fin, rst, room, wire, connVars, arrayVars, loopVars, functorVars,
                   quit, aborted, sent, callVars, nreset, npost, ntick>>

PeerCloses(c) ==
    /\ Open(c) /\ ~fin[c]
    /\ fin' = [fin EXCEPT ![c] = TRUE]
    /\ UNCHANGED <<backlog, inbox, rst, room, wire, connVars, arrayVars, loopVars, functorVars,
                   quit, aborted, sent, callVars, boundVars>>

\* The peer resets, or the connection fails in another way: nothing the kernel holds
\* for either side survives.
PeerResets(c) ==
    /\ Open(c) /\ rst[c] = "none"
    /\ nreset < MaxReset
    /\ nreset' = nreset + 1
    /\ rst' = [rst EXCEPT ![c] = "error"]
    /\ fin' = [fin EXCEPT ![c] = TRUE]
    /\ inbox' = [inbox EXCEPT ![c] = 0]
    /\ UNCHANGED <<backlog, room, wire, connVars, arrayVars, loopVars, functorVars, quit,
                   aborted, sent, callVars, nin, npost, ntick>>

PeerReads(c) ==
    /\ Open(c) /\ rst[c] = "none" /\ room[c] < SndBuf
    /\ room' = [room EXCEPT ![c] = SndBuf]
    /\ UNCHANGED <<backlog, inbox, fin, rst, wire, connVars, arrayVars, loopVars, functorVars,
                   quit, aborted, sent, callVars, boundVars>>

-----------------------------------------------------------------------------
(* Another thread calls queueInLoop; nothing wakes the loop for it, the     *)
(* poll returns by itself after kPollTimeMs.                                *)

Post(c) ==
    /\ Serving /\ npost < MaxPost
    /\ npost' = npost + 1
    /\ pending' = Append(pending, Task(c))
    /\ UNCHANGED <<kernelVars, connVars, arrayVars, loopVars, functors, quit, aborted, sent,
                   callVars, nin, nreset, ntick>>

-----------------------------------------------------------------------------
(* TcpConnection                                                            *)

\* MUTANT of Send: what fits is written at once, past what waits in the buffer.
SendOvertaking(c, k) ==
    LET bytes == [i \in 1 .. k |-> sent[c] + i]
        fits == IF rst[c] = "none" THEN (IF k < room[c] THEN k ELSE room[c]) ELSE 0
    IN  IF state[c] # "connected" THEN UNCHANGED <<room, wire, output, writing, sent>>
        ELSE /\ sent' = [sent EXCEPT ![c] = @ + k]
             /\ room' = [room EXCEPT ![c] = @ - fits]
             /\ wire' = [wire EXCEPT ![c] = @ \o SubSeq(bytes, 1, fits)]
             /\ output' = [output EXCEPT ![c] = @ \o SubSeq(bytes, fits + 1, k)]
             /\ writing' = [writing EXCEPT ![c] = @ \/ fits < k]

\* TcpConnection::send of k bytes: straight to the kernel when nothing waits,
\* the rest into outputBuffer_. A failed write is logged and counts as 0 bytes.
Send(c, k) ==
    LET bytes == [i \in 1 .. k |-> sent[c] + i]
        direct == ~writing[c] /\ output[c] = <<>> /\ rst[c] = "none"
        fits == IF direct THEN (IF k < room[c] THEN k ELSE room[c]) ELSE 0
    IN  IF state[c] # "connected" THEN UNCHANGED <<room, wire, output, writing, sent>>
        ELSE /\ sent' = [sent EXCEPT ![c] = @ + k]
             /\ room' = [room EXCEPT ![c] = @ - fits]
             /\ wire' = [wire EXCEPT ![c] = @ \o SubSeq(bytes, 1, fits)]
             /\ output' = [output EXCEPT ![c] = @ \o SubSeq(bytes, fits + 1, k)]
             /\ writing' = [writing EXCEPT ![c] = @ \/ fits < k]

\* TcpConnection::shutdown; what shutdownWrite tells the peer is not modelled.
Shutdown(c) == state' = [state EXCEPT ![c] = IF @ = "connected" THEN "disconnecting" ELSE @]

\* Session::disableAll of the connections in S.
DisableAll(S) ==
    /\ reading' = [c \in Conn |-> reading[c] /\ c \notin S]
    /\ writing' = [c \in Conn |-> writing[c] /\ c \notin S]

\* MUTANT of HandleClose: the state is left for connectDestroyed to change.
HandleCloseKeepingState(S) ==
    LET open == {c \in S : Up(c)} IN
    /\ state' = state
    /\ DisableAll(open)
    /\ downs' = [c \in Conn |-> IF c \in open THEN downs[c] + 1 ELSE downs[c]]
    /\ \E order \in [1 .. Cardinality(S) -> S] :
          /\ {order[i] : i \in DOMAIN order} = S
          /\ pending' = pending \o [i \in 1 .. Cardinality(S) |-> Destroy(order[i])]

\* TcpConnection::handleClose of every connection in S, one after the other.
HandleClose(S) ==
    LET open == {c \in S : Up(c)} IN
    /\ state' = [c \in Conn |-> IF c \in open THEN "disconnected" ELSE state[c]]
    /\ DisableAll(open)
    /\ downs' = [c \in Conn |-> IF c \in open THEN downs[c] + 1 ELSE downs[c]]
    /\ \E order \in [1 .. Cardinality(S) -> S] :
          /\ {order[i] : i \in DOMAIN order} = S
          /\ pending' = pending \o [i \in 1 .. Cardinality(S) |-> Destroy(order[i])]

PushBack(c) ==
    /\ array' = Append(array, c)
    /\ index' = [index EXCEPT ![c] = Len(array')]

\* MUTANT of Erase: the item that moves keeps its old index.
EraseKeepingIndex(i) ==
    LET last == array[Len(array)] IN
    /\ array' = SubSeq([array EXCEPT ![i] = last], 1, Len(array) - 1)
    /\ index' = index

\* array_t::erase: the last item takes the place of the erased one.
Erase(i) ==
    LET last == array[Len(array)] IN
    /\ array' = SubSeq([array EXCEPT ![i] = last], 1, Len(array) - 1)
    /\ index' = [index EXCEPT ![last] = i]

\* The session is enabled for reading, connectionCallback_ called.
ConnectEstablished(c) ==
    /\ state' = [state EXCEPT ![c] = "connected"]
    /\ reading' = [reading EXCEPT ![c] = TRUE]
    /\ ups' = [ups EXCEPT ![c] = @ + 1]

\* TcpConnection::connectDestroyed and TcpServer::removeConnection.
ConnectDestroyed(c) ==
    /\ state' = [state EXCEPT ![c] = "deleted"]
    /\ DisableAll({c})
    /\ downs' = IF Up(c) THEN [downs EXCEPT ![c] = @ + 1] ELSE downs
    /\ Erase(index[c])

-----------------------------------------------------------------------------
(* EventLoop::loop                                                          *)

\* What epoll reports of a connection; a session is registered for reading for
\* as long as it is registered at all, so EPOLLHUP never comes without EPOLLIN
\* and the first branch of Session::handleEvent is never taken.
Ready(c) ==
    IF ~reading[c] THEN {}
    ELSE {f \in {"in", "out", "err"} :
            \/ f = "in" /\ (inbox[c] > 0 \/ fin[c])
            \/ f = "out" /\ writing[c] /\ (room[c] > 0 \/ rst[c] # "none")
            \/ f = "err" /\ rst[c] = "error"}

Poll ==
    /\ at = "poll" /\ ~aborted
    /\ at' = "events"
    /\ fired' = [c \in Conn |-> Ready(c)]
    /\ acceptable' = (backlog # <<>>)
    /\ due' \in {FALSE, ntick < MaxTick}
    /\ ntick' = IF due' THEN ntick + 1 ELSE ntick
    /\ UNCHANGED <<kernelVars, connVars, arrayVars, current, functorVars, quit, aborted, sent,
                   callVars, nin, nreset, npost>>

\* Session::handleEvent of c is at flag f: errors first, then writing, then
\* reading. Another session is next when the flags of c are used up.
Handling(c, f) ==
    /\ at = "events" /\ ~aborted
    /\ current \in {None, c}
    /\ f \in fired[c]
    /\ f = "out" => "err" \notin fired[c]
    /\ f = "in" => fired[c] = {"in"}
    /\ fired' = [fired EXCEPT ![c] = @ \ {f}]
    /\ current' = IF fired[c] = {f} THEN None ELSE c
    /\ UNCHANGED <<at, acceptable, due>>

\* handleError: getSocketError takes the error out of the socket.
HandleError(c) ==
    /\ Handling(c, "err")
    /\ rst' = [rst EXCEPT ![c] = IF @ = "error" THEN "seen" ELSE @]
    /\ UNCHANGED <<backlog, inbox, fin, room, wire, connVars, arrayVars, functorVars, quit,
                   aborted, sent, callVars, boundVars>>

\* MUTANT of HandleWrite: EPOLLOUT stays asked for when the buffer is empty.
HandleWriteKeepsAsking(c) ==
    LET fits == IF rst[c] # "none" THEN 0
                ELSE IF Len(output[c]) < room[c] THEN Len(output[c]) ELSE room[c]
    IN  /\ Handling(c, "out")
        /\ IF ~writing[c] THEN UNCHANGED <<output, writing, room, wire, aborted>>
           ELSE IF fits = 0 THEN aborted' = TRUE /\ UNCHANGED <<output, writing, room, wire>>
           ELSE /\ wire' = [wire EXCEPT ![c] = @ \o SubSeq(output[c], 1, fits)]
                /\ room' = [room EXCEPT ![c] = @ - fits]
                /\ output' = [output EXCEPT ![c] = SubSeq(@, fits + 1, Len(@))]
                /\ UNCHANGED <<writing, aborted>>
        /\ UNCHANGED <<backlog, inbox, fin, rst, state, reading, arrayVars, functorVars, quit,
                       sent, callVars, boundVars>>

\* handleWrite: a write that fails or writes nothing aborts the program. After
\* the last byte EPOLLOUT is no longer asked for; the shutdown that was waiting
\* for this does nothing, because the state is kDisconnecting already.
HandleWrite(c) ==
    LET fits == IF rst[c] # "none" THEN 0
                ELSE IF Len(output[c]) < room[c] THEN Len(output[c]) ELSE room[c]
    IN  /\ Handling(c, "out")
        /\ IF ~writing[c] THEN UNCHANGED <<output, writing, room, wire, aborted>>
           ELSE IF fits = 0 THEN aborted' = TRUE /\ UNCHANGED <<output, writing, room, wire>>
           ELSE /\ wire' = [wire EXCEPT ![c] = @ \o SubSeq(output[c], 1, fits)]
                /\ room' = [room EXCEPT ![c] = @ - fits]
                /\ output' = [output EXCEPT ![c] = SubSeq(@, fits + 1, Len(@))]
                /\ writing' = [writing EXCEPT ![c] = fits < Len(output[c])]
                /\ UNCHANGED aborted
        /\ UNCHANGED <<backlog, inbox, fin, rst, state, reading, arrayVars, functorVars, quit,
                       sent, callVars, boundVars>>

\* handleRead of a message. What the server does with it: nothing, send to a
\* connection it knows, shut this one down, or close it.
HandleMessage(c) ==
    /\ Handling(c, "in")
    /\ inbox[c] > 0
    /\ inbox' = [inbox EXCEPT ![c] = 0]
    /\ \/ UNCHANGED <<connVars, room, wire, sent, downs, pending>>
       \/ \E d \in Conn, k \in Sizes :
             /\ Up(c) /\ Up(d) /\ sent[d] + k <= MaxOut
             /\ Send(d, k)
             /\ UNCHANGED <<state, reading, downs, pending>>
       \/ /\ Up(c) /\ Shutdown(c)
          /\ UNCHANGED <<reading, writing, output, room, wire, sent, downs, pending>>
       \/ Up(c) /\ HandleClose({c}) /\ UNCHANGED <<output, room, wire, sent>>
    /\ UNCHANGED <<backlog, fin, rst, arrayVars, functors, quit, aborted, ups, idled,
                   dangling, boundVars>>

\* MUTANT of HandleEnd: the end of the stream is taken for nothing to read.
HandleEndIgnored(c) ==
    /\ Handling(c, "in")
    /\ inbox[c] = 0
    /\ rst' = [rst EXCEPT ![c] = IF @ = "error" THEN "seen" ELSE @]
    /\ UNCHANGED <<backlog, inbox, fin, room, wire, connVars, arrayVars, functorVars, quit,
                   aborted, sent, callVars, boundVars>>

\* handleRead without a message: the end of the stream closes the connection, a
\* reset that nobody has seen is an error of read(), which does nothing.
HandleEnd(c) ==
    /\ Handling(c, "in")
    /\ inbox[c] = 0
    /\ rst' = [rst EXCEPT ![c] = IF @ = "error" THEN "seen" ELSE @]
    /\ IF rst[c] # "error" /\ fin[c]
       THEN HandleClose({c}) /\ UNCHANGED output
       ELSE UNCHANGED <<connVars, downs, pending>>
    /\ UNCHANGED <<backlog, inbox, fin, room, wire, arrayVars, functors, quit, aborted, sent,
                   ups, idled, dangling, boundVars>>

\* Acceptor::handleRead accepts one connection, TcpServer::newConnection.
NewConnection ==
    LET c == Head(backlog) IN
    /\ at = "events" /\ ~aborted /\ current = None /\ acceptable
    /\ acceptable' = FALSE
    /\ backlog' = Tail(backlog)
    /\ PushBack(c)
    /\ ConnectEstablished(c)
    /\ UNCHANGED <<inbox, fin, rst, room, wire, writing, output, at, fired, current, due,
                   functorVars, quit, aborted, sent, downs, idled, dangling, boundVars>>

\* The same without a descriptor left: the connection is accepted with the one
\* kept in reserve, and closed.
OutOfDescriptors ==
    LET c == Head(backlog) IN
    /\ at = "events" /\ ~aborted /\ current = None /\ acceptable
    /\ acceptable' = FALSE
    /\ backlog' = Tail(backlog)
    /\ state' = [state EXCEPT ![c] = "deleted"]
    /\ UNCHANGED <<inbox, fin, rst, room, wire, reading, writing, output, arrayVars, at, fired,
                   current, due, functorVars, quit, aborted, sent, callVars, boundVars>>

AtTimer ==
    /\ at = "events" /\ ~aborted /\ current = None /\ due
    /\ due' = FALSE
    /\ UNCHANGED <<at, fired, current, acceptable>>

\* A timer of the program calls quit().
QuitTimer ==
    /\ AtTimer
    /\ quit' = TRUE
    /\ UNCHANGED <<kernelVars, connVars, arrayVars, functorVars, aborted, sent, callVars, boundVars>>

\* A timer of the program closes connections that were idle (LoongBgSrv::onTimer).
IdleTimer ==
    /\ AtTimer
    /\ idled' = TRUE
    /\ \E S \in SUBSET {c \in Conn : Up(c)} : S # {} /\ HandleClose(S)
    /\ UNCHANGED <<kernelVars, output, arrayVars, functors, quit, aborted, sent, ups, dangling,
                   boundVars>>

\* doPendingFunctors swaps the queue.
EventsDone ==
    /\ at = "events" /\ ~aborted
    /\ \A c \in Conn : fired[c] = {}
    /\ ~acceptable /\ ~due
    /\ at' = "functors"
    /\ functors' = pending /\ pending' = <<>>
    /\ UNCHANGED <<kernelVars, connVars, arrayVars, fired, current, acceptable, due, quit,
                   aborted, sent, callVars, boundVars>>

\* A functor of handleClose. On a connection that is deleted already the
\* outcome is undefined; the model notes it and leaves the rest alone.
RunDestroy ==
    LET c == Head(functors).conn IN
    /\ at = "functors" /\ ~aborted /\ functors # <<>>
    /\ Head(functors).do = "connectDestroyed"
    /\ functors' = Tail(functors)
    /\ dangling' = (dangling \/ state[c] = "deleted")
    /\ IF state[c] = "deleted" THEN UNCHANGED <<connVars, arrayVars, downs>>
                               ELSE ConnectDestroyed(c) /\ UNCHANGED output
    /\ UNCHANGED <<kernelVars, loopVars, pending, quit, aborted, sent, ups, idled, boundVars>>

\* A functor of another thread sends to a connection if it is still there.
RunTask ==
    LET c == Head(functors).conn IN
    /\ at = "functors" /\ ~aborted /\ functors # <<>>
    /\ Head(functors).do = "send"
    /\ functors' = Tail(functors)
    /\ IF Up(c)
       THEN \E k \in Sizes : sent[c] + k <= MaxOut /\ Send(c, k)
       ELSE UNCHANGED <<room, wire, output, writing, sent>>
    /\ UNCHANGED <<backlog, inbox, fin, rst, state, reading, arrayVars, loopVars, pending, quit,
                   aborted, callVars, boundVars>>

\* The round is over; while (!quit_).
FunctorsDone ==
    /\ at = "functors" /\ ~aborted /\ functors = <<>>
    /\ at' = IF quit THEN "out" ELSE "poll"
    /\ UNCHANGED <<kernelVars, connVars, arrayVars, fired, current, acceptable, due, functorVars,
                   quit, aborted, sent, callVars, boundVars>>

\* TcpServer::~TcpServer after the loop, from the end of the array.
DestroyServer ==
    /\ at = "out"
    /\ IF array = <<>>
       THEN at' = "ended" /\ UNCHANGED <<connVars, arrayVars, downs>>
       ELSE ConnectDestroyed(array[Len(array)]) /\ UNCHANGED <<at, output>>
    /\ UNCHANGED <<kernelVars, fired, current, acceptable, due, functorVars, quit, aborted, sent,
                   ups, idled, dangling, boundVars>>

LoopStep ==
    \/ Poll
    \/ \E c \in Conn : HandleError(c) \/ HandleWrite(c) \/ HandleMessage(c) \/ HandleEnd(c)
    \/ NewConnection \/ OutOfDescriptors \/ QuitTimer \/ IdleTimer
    \/ EventsDone \/ RunDestroy \/ RunTask \/ FunctorsDone \/ DestroyServer

Terminated == ~Running /\ UNCHANGED vars

Next ==
    \/ \E c \in Conn :
          Connect(c) \/ PeerSends(c) \/ PeerCloses(c) \/ PeerResets(c) \/ PeerReads(c) \/ Post(c)
    \/ LoopStep
    \/ Terminated

Spec == Init /\ [][Next]_vars

\* The loop thread runs; peers and other threads owe nothing.
FairSpec == Spec /\ WF_vars(LoopStep)

-----------------------------------------------------------------------------
(* Properties *)

\* The array holds exactly the connections that are not deleted yet, each under
\* the index it carries: removal by index never takes another connection.
ArrayIndexed ==
    /\ \A i \in DOMAIN array : index[array[i]] = i
    /\ {array[i] : i \in DOMAIN array} =
           {c \in Conn : state[c] \in {"connected", "disconnecting", "disconnected"}}

\* What the kernel took of a connection and what waits in outputBuffer_ are
\* together what was sent, in order, whoever called send and however the writes
\* were cut; and EPOLLOUT is asked for exactly while bytes wait, so that none is
\* forgotten and the loop does not spin on an empty buffer.
SentInOrder ==
    \A c \in Conn :
        /\ wire[c] \o output[c] = [i \in 1 .. sent[c] |-> i]
        /\ Up(c) => (writing[c] <=> output[c] # <<>>)

\* A connection ends once, through whatever: it is reported up once and, before it
\* is deleted, down once; and the functor that deletes it is queued once wherever no
\* timer closes connections.
EndsOnce ==
    /\ \A c \in Conn :
           /\ ups[c] <= 1
           /\ downs[c] = IF ups[c] = 1 /\ Closed(c) THEN 1 ELSE 0
    /\ dangling => idled

\* abort() in handleWrite is reached only after a socket error of some connection: a
\* reset by its peer, or any other.
AbortsOnlyOnReset == aborted => \E c \in Conn : rst[c] # "none"

\* TcpConnection.cc:193 says of the callback that deletes the connection that it
\* "must be the last line": nothing uses the connection afterwards.
DestroyedIsLast == ~dangling

\* The connection of a peer that has closed is deleted.
ClosedPeerIsDeleted ==
    \A c \in Conn : fin[c] /\ Up(c) ~> state[c] = "deleted" \/ aborted

=============================================================================
