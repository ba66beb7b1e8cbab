-------------------------- MODULE NetServerProofs --------------------------
(***************************************************************************)
(* Theorems about NetServer, for any number of connections and any sizes:  *)
(* where a connection is found in the array, what of its bytes reaches the *)
(* peer, how often it ends, and when the program aborts. Then the timers   *)
(* of a loop: the file descriptor is set for the first of them in time.    *)
(***************************************************************************)
EXTENDS NetServer, TimerQueue, FiniteSetTheorems, SequenceTheorems, TLAPS

-----------------------------------------------------------------------------
(* The inductive invariant                                                  *)

States == {"none", "connected", "disconnecting", "disconnected", "deleted"}
Items == [do : {"connectDestroyed", "send"}, conn : Conn]
Flags == {"in", "out", "err"}

\* In the array, from connectEstablished to connectDestroyed.
Live(c) == state[c] \in {"connected", "disconnecting", "disconnected"}

NetOK ==
    /\ backlog \in Seq(Conn)
    /\ inbox \in [Conn -> Nat] /\ fin \in [Conn -> BOOLEAN]
    /\ rst \in [Conn -> {"none", "error", "seen"}]
    /\ room \in [Conn -> Nat] /\ wire \in [Conn -> Seq(Nat)]
    /\ state \in [Conn -> States]
    /\ reading \in [Conn -> BOOLEAN] /\ writing \in [Conn -> BOOLEAN]
    /\ output \in [Conn -> Seq(Nat)]
    /\ array \in Seq(Conn) /\ index \in [Conn -> Nat]
    /\ at \in {"poll", "events", "functors", "out", "ended"}
    /\ fired \in [Conn -> SUBSET Flags]
    /\ acceptable \in BOOLEAN
    /\ pending \in Seq(Items) /\ functors \in Seq(Items)
    /\ sent \in [Conn -> Nat] /\ ups \in [Conn -> Nat] /\ downs \in [Conn -> Nat]

\* A connection waits in the backlog once, and what the poll found there is
\* there still when the acceptor takes it.
Waiting ==
    /\ acceptable = TRUE => backlog # <<>>
    /\ \A i \in 1 .. Len(backlog) : state[backlog[i]] = "none"
    /\ \A i, j \in 1 .. Len(backlog) : backlog[i] = backlog[j] => i = j

\* Array and index are each other's inverse on the live connections.
Indexed ==
    /\ \A i \in 1 .. Len(array) : Live(array[i]) /\ index[array[i]] = i
    /\ \A c \in Conn : Live(c) => index[c] \in 1 .. Len(array) /\ array[index[c]] = c

InOrder ==
    \A c \in Conn :
        /\ wire[c] \o output[c] = [i \in 1 .. sent[c] |-> i]
        /\ Up(c) => (writing[c] = TRUE <=> output[c] # <<>>)
        /\ writing[c] = TRUE => Up(c)
        /\ reading[c] = TRUE => Up(c)
        /\ state[c] = "none" => output[c] = <<>>

Counted ==
    \A c \in Conn :
        /\ ups[c] \in {0, 1}
        /\ state[c] = "none" => ups[c] = 0
        /\ Live(c) => ups[c] = 1
        /\ downs[c] = IF ups[c] = 1 /\ Closed(c) THEN 1 ELSE 0

\* What the poll reported of a connection is for the handlers of one round, in
\* which no connection is deleted. A
\* connection reported writable stays so until its handler runs, or is closed.
Asked ==
    /\ at # "events" => \A c \in Conn : fired[c] = {}
    /\ \A c \in Conn : fired[c] # {} => Live(c)
    /\ \A c \in Conn : "out" \in fired[c] /\ ~Closed(c) =>
           /\ writing[c] = TRUE
           /\ rst[c] # "none" \/ room[c] > 0
    /\ aborted = TRUE => \E c \in Conn : rst[c] # "none"

\* Connections that the handlers of a round have closed are deleted by the
\* functors of that round.
DeletedLater ==
    /\ at # "functors" => functors = <<>>
    /\ at # "events" => \A i \in 1 .. Len(pending) : pending[i].do = "send"
    /\ \A i \in 1 .. Len(pending) : pending[i].do = "send" \/ Closed(pending[i].conn)
    /\ \A i \in 1 .. Len(functors) : functors[i].do = "send" \/ Closed(functors[i].conn)

OnceEach(q) ==
    /\ \A i \in 1 .. Len(q) : q[i].do = "send" \/ state[q[i].conn] = "disconnected"
    /\ \A i, j \in 1 .. Len(q) :
          q[i].do # "send" /\ q[j].do # "send" /\ q[i].conn = q[j].conn => i = j

\* Without a timer that closes them, whatever is reported of a connection finds
\* it open, so it is closed by one handler only.
DeletedOnce ==
    idled = FALSE =>
        /\ dangling = FALSE
        /\ \A c \in Conn : fired[c] # {} => Up(c)
        /\ OnceEach(pending)
        /\ OnceEach(functors)

NetInv ==
    /\ NetOK /\ Waiting /\ Indexed /\ InOrder /\ Counted /\ Asked
    /\ DeletedLater /\ DeletedOnce

-----------------------------------------------------------------------------
(* Operators                                                                *)

Bytes(n) == [i \in 1 .. n |-> i]

LEMMA EqualSeqs ==
    ASSUME NEW s \in Seq(Nat), NEW t \in Seq(Nat), Len(s) = Len(t),
           \A i \in 1 .. Len(s) : s[i] = t[i]
    PROVE  s = t
OBVIOUS

LEMMA JoinIsAssociative ==
    ASSUME NEW s \in Seq(Nat), NEW t \in Seq(Nat), NEW u \in Seq(Nat)
    PROVE  (s \o t) \o u = s \o (t \o u)
BY SMTT(30)

LEMMA JoinEmpty ==
    ASSUME NEW s \in Seq(Nat)
    PROVE  s \o <<>> = s /\ <<>> \o s = s
OBVIOUS

\* A sequence is what it is cut into.
LEMMA CutSeq ==
    ASSUME NEW s \in Seq(Nat), NEW t \in Seq(Nat), NEW u \in Seq(Nat),
           Len(t) + Len(u) = Len(s),
           \A i \in 1 .. Len(t) : t[i] = s[i],
           \A i \in 1 .. Len(u) : u[i] = s[Len(t) + i]
    PROVE  t \o u = s
<1>1. t \o u \in Seq(Nat) /\ Len(t \o u) = Len(s)
  OBVIOUS
<1>2. ASSUME NEW i \in 1 .. Len(s) PROVE (t \o u)[i] = s[i]
  <2>1. CASE i <= Len(t)
    BY <2>1
  <2>2. CASE ~(i <= Len(t))
    <3>1. i - Len(t) \in 1 .. Len(u) /\ i = Len(t) + (i - Len(t))
      BY <2>2
    <3>2. PICK j \in 1 .. Len(u) : i = Len(t) + j
      BY <3>1
    <3> QED
      BY SMTT(30), <3>2
  <2> QED
    BY <2>1, <2>2
<1> QED
  BY <1>1, <1>2, EqualSeqs

LEMMA FrontAndBack ==
    ASSUME NEW s \in Seq(Nat), NEW f \in Nat, f <= Len(s)
    PROVE  /\ SubSeq(s, 1, f) \in Seq(Nat) /\ Len(SubSeq(s, 1, f)) = f
           /\ SubSeq(s, f + 1, Len(s)) \in Seq(Nat)
           /\ Len(SubSeq(s, f + 1, Len(s))) = Len(s) - f
           /\ SubSeq(s, 1, f) \o SubSeq(s, f + 1, Len(s)) = s
<1> DEFINE t == SubSeq(s, 1, f)
           u == SubSeq(s, f + 1, Len(s))
<1>1. t \in Seq(Nat) /\ Len(t) = f /\ \A i \in 1 .. f : t[i] = s[i]
  OBVIOUS
<1>2. u \in Seq(Nat) /\ Len(u) = Len(s) - f /\ \A i \in 1 .. Len(s) - f : u[i] = s[f + i]
  OBVIOUS
<1> HIDE DEF t, u
<1>3. Len(t) + Len(u) = Len(s)
  BY <1>1, <1>2
<1>4. /\ \A i \in 1 .. Len(t) : t[i] = s[i]
      /\ \A i \in 1 .. Len(u) : u[i] = s[Len(t) + i]
  BY <1>1, <1>2
<1>5. t \in Seq(Nat) /\ u \in Seq(Nat)
  BY <1>1, <1>2
<1>6. t \o u = s
  BY <1>3, <1>4, <1>5, CutSeq
<1> QED
  BY <1>1, <1>2, <1>6 DEF t, u

LEMMA MoreBytes ==
    ASSUME NEW n \in Nat, NEW b \in Seq(Nat), \A i \in 1 .. Len(b) : b[i] = n + i
    PROVE  Bytes(n) \o b = Bytes(n + Len(b))
<1>1. /\ Bytes(n) \in Seq(Nat) /\ Len(Bytes(n)) = n
      /\ Bytes(n + Len(b)) \in Seq(Nat) /\ Len(Bytes(n + Len(b))) = n + Len(b)
  BY DEF Bytes
<1>2. Len(Bytes(n)) + Len(b) = Len(Bytes(n + Len(b)))
  BY <1>1
<1>3. \A i \in 1 .. Len(Bytes(n)) : Bytes(n)[i] = Bytes(n + Len(b))[i]
  BY <1>1 DEF Bytes
<1>4. \A i \in 1 .. Len(b) : b[i] = Bytes(n + Len(b))[Len(Bytes(n)) + i]
  BY <1>1 DEF Bytes
<1> QED
  BY <1>1, <1>2, <1>3, <1>4, CutSeq

\* A write moves bytes from the front of the buffer to the wire.
LEMMA WrittenBytes ==
    ASSUME NEW w \in Seq(Nat), NEW o \in Seq(Nat), NEW f \in Nat, f <= Len(o)
    PROVE  /\ SubSeq(o, 1, f) \in Seq(Nat) /\ SubSeq(o, f + 1, Len(o)) \in Seq(Nat)
           /\ (w \o SubSeq(o, 1, f)) \o SubSeq(o, f + 1, Len(o)) = w \o o
           /\ f < Len(o) <=> SubSeq(o, f + 1, Len(o)) # <<>>
<1> DEFINE u == SubSeq(o, 1, f)
           v == SubSeq(o, f + 1, Len(o))
<1>1. /\ u \in Seq(Nat) /\ v \in Seq(Nat) /\ Len(v) = Len(o) - f
      /\ u \o v = o
  BY FrontAndBack
<1> HIDE DEF u, v
<1>2. (w \o u) \o v = w \o (u \o v)
  <2>1. u \in Seq(Nat) /\ v \in Seq(Nat)
    BY <1>1
  <2> QED
    BY <2>1, JoinIsAssociative
<1>3. f < Len(o) <=> v # <<>>
  BY <1>1
<1> QED
  BY <1>1, <1>2, <1>3 DEF u, v

-----------------------------------------------------------------------------
(* The methods of a connection                                              *)

\* Send appends to what was sent, and leaves alone what the poll relied on: what
\* goes to an empty buffer may be cut anywhere, behind a full one nothing is cut.
LEMMA SendKeeps ==
    ASSUME NetOK, InOrder, NEW c \in Conn, NEW k \in Nat, Send(c, k), UNCHANGED <<state, reading>>
    PROVE  /\ room' \in [Conn -> Nat] /\ wire' \in [Conn -> Seq(Nat)]
           /\ output' \in [Conn -> Seq(Nat)] /\ writing' \in [Conn -> BOOLEAN]
           /\ sent' \in [Conn -> Nat]
           /\ InOrder'
           /\ \A d \in Conn : writing[d] = TRUE => writing'[d] = TRUE /\ room'[d] = room[d]
<1>1. CASE state[c] # "connected"
  <2>1. UNCHANGED <<room, wire, output, writing, sent>>
    BY <1>1 DEF Send
  <2> QED
    BY <2>1 DEF NetOK, InOrder, Up
<1>2. CASE state[c] = "connected"
  <2> DEFINE b == [i \in 1 .. k |-> sent[c] + i]
             direct == ~writing[c] /\ output[c] = <<>> /\ rst[c] = "none"
             fits == IF direct THEN (IF k < room[c] THEN k ELSE room[c]) ELSE 0
             u == SubSeq(b, 1, fits)
             v == SubSeq(b, fits + 1, k)
  <2>1. /\ wire[c] \in Seq(Nat) /\ output[c] \in Seq(Nat) /\ sent[c] \in Nat
        /\ room[c] \in Nat /\ writing[c] \in BOOLEAN
    BY DEF NetOK
  <2>2. /\ fits \in Nat /\ fits <= k /\ fits <= room[c]
        /\ fits = 0 \/ output[c] = <<>>
        /\ writing[c] = TRUE => fits = 0
    BY <2>1
  <2>3. /\ sent' = [sent EXCEPT ![c] = @ + k]
        /\ room' = [room EXCEPT ![c] = @ - fits]
        /\ wire' = [wire EXCEPT ![c] = @ \o u]
        /\ output' = [output EXCEPT ![c] = @ \o v]
        /\ writing' = [writing EXCEPT ![c] = @ \/ fits < k]
    BY <1>2 DEF Send
  <2> HIDE DEF fits
  <2>4. wire[c] \o output[c] = Bytes(sent[c])
    BY DEF InOrder, Bytes
  <2>5. /\ u \in Seq(Nat) /\ v \in Seq(Nat) /\ Len(v) = k - fits
        /\ (wire[c] \o u) \o (output[c] \o v) = Bytes(sent[c] + k)
    <3>1. b \in Seq(Nat) /\ Len(b) = k /\ \A i \in 1 .. k : b[i] = sent[c] + i
      BY <2>1
    <3> HIDE DEF b
    <3>2. Bytes(sent[c]) \o b = Bytes(sent[c] + k)
      <4>1. \A i \in 1 .. Len(b) : b[i] = sent[c] + i
        BY <3>1
      <4>2. Bytes(sent[c]) \o b = Bytes(sent[c] + Len(b))
        BY <2>1, <3>1, <4>1, MoreBytes
      <4> QED
        BY <3>1, <4>2
    <3>3. /\ u \in Seq(Nat) /\ Len(u) = fits
          /\ v \in Seq(Nat) /\ Len(v) = k - fits
          /\ u \o v = b
      <4>1. fits \in Nat /\ fits <= Len(b)
        BY <2>2, <3>1
      <4> QED
        BY <3>1, <4>1, FrontAndBack
    <3> HIDE DEF u, v
    <3>4. u = <<>> \/ output[c] = <<>>
      BY <2>2, <3>3
    <3>5. (wire[c] \o u) \o (output[c] \o v) = (wire[c] \o output[c]) \o (u \o v)
      <4>1. wire[c] \in Seq(Nat) /\ output[c] \in Seq(Nat) /\ u \in Seq(Nat) /\ v \in Seq(Nat)
        BY <2>1, <3>3
      <4>2. CASE u = <<>>
        <5>1. wire[c] \o u = wire[c] /\ u \o v = v
          BY <4>1, <4>2, JoinEmpty
        <5>2. (wire[c] \o output[c]) \o v = wire[c] \o (output[c] \o v)
          BY <4>1, JoinIsAssociative
        <5> QED
          BY <5>1, <5>2
      <4>3. CASE output[c] = <<>>
        <5>1. output[c] \o v = v /\ wire[c] \o output[c] = wire[c]
          BY <4>1, <4>3, JoinEmpty
        <5>2. (wire[c] \o u) \o v = wire[c] \o (u \o v)
          BY <4>1, JoinIsAssociative
        <5> QED
          BY <5>1, <5>2
      <4> QED
        BY <3>4, <4>2, <4>3
    <3> QED
      BY <2>4, <3>2, <3>3, <3>5
  <2> HIDE DEF u, v
  <2>6. /\ wire[c] \o u \in Seq(Nat) /\ output[c] \o v \in Seq(Nat)
        /\ Len(output[c] \o v) = Len(output[c]) + Len(v)
    <3>1. u \in Seq(Nat) /\ v \in Seq(Nat)
      BY <2>5
    <3> QED
      BY <2>1, <3>1
  <2>7. room[c] - fits \in Nat /\ (fits < k) \in BOOLEAN /\ sent[c] + k \in Nat
    BY <2>1, <2>2
  <2>8. /\ room' \in [Conn -> Nat] /\ wire' \in [Conn -> Seq(Nat)]
        /\ output' \in [Conn -> Seq(Nat)] /\ sent' \in [Conn -> Nat]
    BY <2>3, <2>6, <2>7 DEF NetOK
  <2>9. writing' \in [Conn -> BOOLEAN]
    BY <2>1, <2>3 DEF NetOK
  <2>10. ASSUME NEW d \in Conn, writing[d] = TRUE
         PROVE  writing'[d] = TRUE /\ room'[d] = room[d]
    <3>1. CASE d = c
      <4>1. room[c] - fits = room[c]
        BY <2>1, <2>2, <2>10, <3>1
      <4> QED
        BY <2>3, <2>10, <3>1, <4>1 DEF NetOK
    <3>2. CASE d # c
      BY <2>3, <2>10, <3>2 DEF NetOK
    <3> QED
      BY <3>1, <3>2
  <2>11. ASSUME NEW d \in Conn
         PROVE  /\ wire'[d] \o output'[d] = [i \in 1 .. sent'[d] |-> i]
                /\ Up(d)' => (writing'[d] = TRUE <=> output'[d] # <<>>)
                /\ writing'[d] = TRUE => Up(d)'
                /\ reading'[d] = TRUE => Up(d)'
                /\ state'[d] = "none" => output'[d] = <<>>
    <3>1. CASE d = c
      <4>1. wire'[d] \o output'[d] = [i \in 1 .. sent'[d] |-> i]
        BY <2>3, <2>5, <3>1 DEF NetOK, Bytes
      <4>2. writing'[d] = (writing[c] \/ fits < k) /\ output'[d] = output[c] \o v
        BY <2>3, <3>1 DEF NetOK
      <4>3. writing[c] = TRUE <=> output[c] # <<>>
        BY <1>2 DEF InOrder, Up
      <4>4. (writing[c] = TRUE \/ fits < k) <=> output[c] \o v # <<>>
        <5>1. output[c] # <<>> <=> Len(output[c]) > 0
          BY <2>1
        <5>2. output[c] \o v # <<>> <=> Len(output[c]) + Len(v) > 0
          BY <2>6
        <5>3. fits < k <=> Len(v) > 0
          BY <2>2, <2>5
        <5> QED
          BY <2>1, <2>5, <4>3, <5>1, <5>2, <5>3
      <4>5. writing'[d] = TRUE <=> output'[d] # <<>>
        BY <2>1, <4>2, <4>4
      <4> QED
        BY <1>2, <3>1, <4>1, <4>5 DEF Up, InOrder
    <3>2. CASE d # c
      BY <2>3, <3>2 DEF NetOK, InOrder, Up
    <3> QED
      BY <3>1, <3>2
  <2>12. InOrder'
    BY <2>11 DEF InOrder
  <2> QED
    BY <2>8, <2>9, <2>10, <2>12
<1> QED
  BY <1>1, <1>2

\* handleClose queues the functors that delete the connections, and closes those
\* that were open.
LEMMA CloseKeeps ==
    ASSUME NetInv, NEW S \in SUBSET Conn, IsFiniteSet(S), \A c \in S : state[c] # "none",
           HandleClose(S), UNCHANGED <<backlog, acceptable, wire, output, sent, ups, array, index>>
    PROVE  /\ state' \in [Conn -> States] /\ downs' \in [Conn -> Nat]
           /\ reading' \in [Conn -> BOOLEAN] /\ writing' \in [Conn -> BOOLEAN]
           /\ pending' \in Seq(Items) /\ Len(pending') = Len(pending) + Cardinality(S)
           /\ \A i \in 1 .. Len(pending) : pending'[i] = pending[i]
           /\ \A i \in 1 .. Len(pending') : i > Len(pending) =>
                  pending'[i].do = "connectDestroyed" /\ pending'[i].conn \in S
           /\ \A c \in S : Closed(c)' /\ (Up(c) => state'[c] = "disconnected")
           /\ \A c \in Conn : Live(c) => Live(c)'
           /\ \A c \in Conn : /\ Closed(c) \/ c \notin S => state'[c] = state[c]
                              /\ c \notin S => writing'[c] = writing[c]
           /\ Waiting' /\ Indexed' /\ InOrder' /\ Counted'
<1> DEFINE open == {c \in S : Up(c)}
<1>1. NetOK /\ Waiting /\ Indexed /\ InOrder /\ Counted
  BY DEF NetInv
<1>2. /\ state' = [c \in Conn |-> IF c \in open THEN "disconnected" ELSE state[c]]
      /\ reading' = [c \in Conn |-> reading[c] /\ c \notin open]
      /\ writing' = [c \in Conn |-> writing[c] /\ c \notin open]
      /\ downs' = [c \in Conn |-> IF c \in open THEN downs[c] + 1 ELSE downs[c]]
  BY DEF HandleClose, DisableAll
<1>3. /\ state' \in [Conn -> States] /\ downs' \in [Conn -> Nat]
      /\ reading' \in [Conn -> BOOLEAN] /\ writing' \in [Conn -> BOOLEAN]
  BY <1>1, <1>2 DEF NetOK, States
<1>4. Cardinality(S) \in Nat
  BY FS_CardinalityType
<1>5. PICK order \in [1 .. Cardinality(S) -> S] :
          pending' = pending \o [i \in 1 .. Cardinality(S) |-> Destroy(order[i])]
  BY DEF HandleClose
<1> DEFINE more == [i \in 1 .. Cardinality(S) |-> Destroy(order[i])]
<1>6. /\ more \in Seq(Items) /\ Len(more) = Cardinality(S)
      /\ \A i \in 1 .. Cardinality(S) : more[i].do = "connectDestroyed" /\ more[i].conn \in S
  <2>1. \A i \in 1 .. Cardinality(S) :
           /\ more[i] \in Items
           /\ more[i].do = "connectDestroyed" /\ more[i].conn \in S
    BY DEF Destroy, Items
  <2>2. more \in [1 .. Cardinality(S) -> Items]
    BY <2>1
  <2> QED
    BY <1>4, <2>1, <2>2
<1>7. pending' = pending \o more /\ pending \in Seq(Items)
  BY <1>1, <1>5 DEF NetOK
<1> HIDE DEF more
<1>8. /\ pending' \in Seq(Items) /\ Len(pending') = Len(pending) + Cardinality(S)
      /\ \A i \in 1 .. Len(pending) : pending'[i] = pending[i]
  BY <1>4, <1>6, <1>7
<1>9. ASSUME NEW i \in 1 .. Len(pending'), i > Len(pending)
      PROVE  pending'[i].do = "connectDestroyed" /\ pending'[i].conn \in S
  <2>1. i - Len(pending) \in 1 .. Cardinality(S) /\ i = Len(pending) + (i - Len(pending))
    BY <1>4, <1>7, <1>8, <1>9
  <2>2. PICK j \in 1 .. Cardinality(S) : i = Len(pending) + j
    BY <2>1
  <2>3. pending'[i] = more[j]
    BY <1>6, <1>7, <2>2
  <2> QED
    BY <1>6, <2>2, <2>3
<1>10. ASSUME NEW c \in S PROVE Closed(c)' /\ (Up(c) => state'[c] = "disconnected")
  BY <1>1, <1>2 DEF NetOK, States, Up, Closed
<1>11. ASSUME NEW c \in Conn
       PROVE  /\ Closed(c) \/ c \notin S => state'[c] = state[c]
              /\ c \notin S => writing'[c] = writing[c]
  <2>1. writing[c] \in BOOLEAN
    BY <1>1 DEF NetOK
  <2> QED
    BY <1>2, <2>1 DEF Up, Closed
<1>12. Waiting'
  <2>1. \A c \in Conn : state[c] = "none" => state'[c] = "none"
    BY <1>2 DEF Up
  <2>2. \A i \in 1 .. Len(backlog) : backlog[i] \in Conn
    BY <1>1 DEF NetOK
  <2> QED
    BY <1>1, <2>1, <2>2 DEF Waiting
<1>13. Indexed'
  <2>1. \A c \in Conn : Live(c)' <=> Live(c)
    BY <1>2 DEF Live, Up
  <2>2. \A i \in 1 .. Len(array) : array[i] \in Conn
    BY <1>1 DEF NetOK
  <2> QED
    BY <1>1, <2>1, <2>2 DEF Indexed, Live
<1>14. InOrder'
  <2>1. ASSUME NEW c \in Conn, Up(c)'
        PROVE  Up(c) /\ writing'[c] = writing[c] /\ reading'[c] = reading[c]
    <3>1. c \notin open /\ Up(c)
      BY <1>2, <2>1 DEF Up
    <3> QED
      BY <1>1, <1>2, <3>1 DEF NetOK
  <2>2. ASSUME NEW c \in Conn, writing'[c] = TRUE \/ reading'[c] = TRUE
        PROVE  Up(c)'
    <3>1. c \notin open /\ (writing[c] = TRUE \/ reading[c] = TRUE)
      BY <1>1, <1>2, <2>2 DEF NetOK
    <3>2. Up(c)
      BY <1>1, <3>1 DEF InOrder
    <3> QED
      BY <1>2, <3>1, <3>2 DEF Up
  <2>3. \A c \in Conn : state'[c] = "none" => state[c] = "none"
    BY <1>2
  <2> QED
    BY <1>1, <2>1, <2>2, <2>3 DEF InOrder
<1>15. Counted'
  BY <1>1, <1>2 DEF Counted, NetOK, States, Live, Up, Closed
<1>16. \A c \in Conn : Live(c) => Live(c)'
  BY <1>2 DEF Live, Up
<1> QED
  BY <1>3, <1>8, <1>9, <1>10, <1>11, <1>12, <1>13, <1>14, <1>15, <1>16

\* A sequence without its last element.
LEMMA FrontOf ==
    ASSUME NEW S, NEW e \in Seq(S), NEW n \in Nat, n >= 1, Len(e) = n
    PROVE  /\ SubSeq(e, 1, n - 1) \in Seq(S) /\ Len(SubSeq(e, 1, n - 1)) = n - 1
           /\ \A j \in 1 .. n - 1 : SubSeq(e, 1, n - 1)[j] = e[j]
OBVIOUS

\* connectDestroyed takes a live connection out of the array, and the connection
\* that moves to its place carries that place's index.
LEMMA DestroyKeeps ==
    ASSUME NetInv, NEW c \in Conn, Live(c), ConnectDestroyed(c),
           UNCHANGED <<backlog, acceptable, wire, output, sent, ups>>
    PROVE  /\ state' \in [Conn -> States] /\ downs' \in [Conn -> Nat]
           /\ reading' \in [Conn -> BOOLEAN] /\ writing' \in [Conn -> BOOLEAN]
           /\ array' \in Seq(Conn) /\ index' \in [Conn -> Nat]
           /\ state'[c] = "deleted" /\ \A d \in Conn : d # c => state'[d] = state[d]
           /\ Waiting' /\ Indexed' /\ InOrder' /\ Counted'
<1>1. NetOK /\ Waiting /\ Indexed /\ InOrder /\ Counted
  BY DEF NetInv
<1>2. /\ state' = [state EXCEPT ![c] = "deleted"]
      /\ reading' = [d \in Conn |-> reading[d] /\ d # c]
      /\ writing' = [d \in Conn |-> writing[d] /\ d # c]
      /\ downs' = IF Up(c) THEN [downs EXCEPT ![c] = @ + 1] ELSE downs
  BY DEF ConnectDestroyed, DisableAll
<1>3. /\ state' \in [Conn -> States] /\ downs' \in [Conn -> Nat]
      /\ reading' \in [Conn -> BOOLEAN] /\ writing' \in [Conn -> BOOLEAN]
      /\ state'[c] = "deleted" /\ \A d \in Conn : d # c => state'[d] = state[d]
  BY <1>1, <1>2 DEF NetOK, States
<1> DEFINE i == index[c]
           n == Len(array)
           last == array[n]
           e == [array EXCEPT ![i] = last]
<1>4. /\ n \in Nat /\ i \in 1 .. n /\ array[i] = c /\ last \in Conn
      /\ array \in Seq(Conn) /\ index \in [Conn -> Nat]
  <2>1. array \in Seq(Conn) /\ index \in [Conn -> Nat] /\ n \in Nat
    BY <1>1 DEF NetOK
  <2>2. i \in 1 .. n /\ array[i] = c
    BY <1>1 DEF Indexed
  <2>3. last \in Conn
    BY <2>1, <2>2
  <2> QED
    BY <2>1, <2>2, <2>3
<1>5. array' = SubSeq(e, 1, n - 1) /\ index' = [index EXCEPT ![last] = i]
  BY DEF ConnectDestroyed, Erase
<1>6. e \in Seq(Conn) /\ Len(e) = n /\ \A j \in 1 .. n : e[j] = IF j = i THEN last ELSE array[j]
  BY <1>4
<1> HIDE DEF e
<1>7. /\ array' \in Seq(Conn) /\ Len(array') = n - 1
      /\ \A j \in 1 .. n - 1 : array'[j] = IF j = i THEN last ELSE array[j]
  <2>1. n \in Nat /\ n >= 1 /\ e \in Seq(Conn) /\ Len(e) = n
    BY <1>4, <1>6
  <2>2. array' = SubSeq(e, 1, n - 1)
    BY <1>5
  <2>3. \A j \in 1 .. n - 1 : e[j] = IF j = i THEN last ELSE array[j]
    BY <1>6, <2>1
  <2> HIDE DEF i, last, n
  <2>4. /\ array' \in Seq(Conn) /\ Len(array') = n - 1
        /\ \A j \in 1 .. n - 1 : array'[j] = e[j]
    BY <2>1, <2>2, FrontOf
  <2> QED
    BY <2>3, <2>4
<1>8. index' \in [Conn -> Nat] /\ index'[last] = i /\ \A d \in Conn : d # last => index'[d] = index[d]
  BY <1>4, <1>5
<1>9. \A j \in 1 .. n : array[j] \in Conn /\ Live(array[j]) /\ index[array[j]] = j
  BY <1>1, <1>4 DEF Indexed
<1>10. index[last] = n
  BY <1>4, <1>9
<1> HIDE DEF i, n, last
<1>11. ASSUME NEW j \in 1 .. n - 1
       PROVE  state'[array'[j]] \in {"connected", "disconnecting", "disconnected"}
              /\ index'[array'[j]] = j
  <2>1. j \in 1 .. n /\ j # n
    BY <1>4
  <2>2. CASE j = i
    <3>1. array'[j] = last /\ last # c
      BY <1>4, <1>7, <1>9, <1>10, <2>1, <2>2
    <3>2. Live(last)
      BY <1>4, <1>9 DEF last, n
    <3> QED
      BY <1>3, <1>4, <1>8, <2>2, <3>1, <3>2 DEF Live
  <2>3. CASE j # i
    <3>1. array'[j] = array[j] /\ array[j] # c /\ array[j] # last /\ array[j] \in Conn
      BY <1>4, <1>7, <1>9, <1>10, <2>1, <2>3 DEF i
    <3>2. index'[array[j]] = j /\ Live(array[j])
      BY <1>8, <1>9, <2>1, <3>1
    <3> QED
      BY <1>3, <3>1, <3>2 DEF Live
  <2> QED
    BY <2>2, <2>3
<1>12. ASSUME NEW d \in Conn, state'[d] \in {"connected", "disconnecting", "disconnected"}
       PROVE  index'[d] \in 1 .. n - 1 /\ array'[index'[d]] = d
  <2>1. d # c /\ Live(d)
    BY <1>3, <1>12 DEF Live
  <2>2. index[d] \in 1 .. n /\ array[index[d]] = d /\ index[d] # i
    BY <1>1, <1>4, <2>1 DEF Indexed, n
  <2>3. CASE d = last
    <3>1. i # n
      BY <1>4, <2>1, <2>3 DEF last
    <3>2. i \in 1 .. n - 1 /\ index'[d] = i
      BY <1>4, <1>8, <2>3, <3>1
    <3> QED
      BY <1>7, <2>3, <3>2
  <2>4. CASE d # last
    <3>1. index'[d] = index[d] /\ index[d] # n
      BY <1>8, <2>2, <2>4 DEF last
    <3>2. index[d] \in 1 .. n - 1
      BY <1>4, <2>2, <3>1
    <3> QED
      BY <1>7, <2>2, <3>1, <3>2
  <2> QED
    BY <2>3, <2>4
<1>13. Indexed'
  BY <1>7, <1>11, <1>12 DEF Indexed, Live
<1>14. Waiting'
  <2>1. \A d \in Conn : state[d] = "none" => state'[d] = "none"
    BY <1>3 DEF Live
  <2>2. \A j \in 1 .. Len(backlog) : backlog[j] \in Conn
    BY <1>1 DEF NetOK
  <2> QED
    BY <1>1, <2>1, <2>2 DEF Waiting
<1>15. InOrder'
  <2>1. ~Up(c)'
    BY <1>3 DEF Up
  <2>2. ~(reading'[c] = TRUE) /\ ~(writing'[c] = TRUE)
    BY <1>2
  <2>3. \A d \in Conn : d # c => /\ writing'[d] = writing[d] /\ reading'[d] = reading[d]
                              /\ state'[d] = state[d]
    BY <1>1, <1>2, <1>3 DEF NetOK
  <2> QED
    BY <1>1, <1>3, <2>1, <2>2, <2>3 DEF InOrder, Up
<1>16. Counted'
  <2>1. ups[c] = 1
    BY <1>1 DEF Counted
  <2>2. downs'[c] = 1
    BY <1>1, <1>2, <2>1 DEF Counted, NetOK, Live, Up, Closed
  <2>3. \A d \in Conn : d # c => downs'[d] = downs[d] /\ state'[d] = state[d]
    BY <1>1, <1>2, <1>3 DEF NetOK
  <2>4. state'[c] = "deleted"
    BY <1>3
  <2> QED
    BY <1>1, <2>1, <2>2, <2>3, <2>4 DEF Counted, Live, Closed
<1> QED
  BY <1>3, <1>7, <1>8, <1>13, <1>14, <1>15, <1>16

\* There are never more open connections than the array holds.
LEMMA OpenAreFinite ==
    ASSUME NetInv, NEW S \in SUBSET {c \in Conn : Up(c)}
    PROVE  IsFiniteSet(S)
<1> DEFINE held == [i \in {index[c] : c \in S} |-> array[i]]
           D == {index[c] : c \in S}
<1>1. array \in Seq(Conn) /\ Len(array) \in Nat
  BY DEF NetInv, NetOK
<1>2. \A c \in S : c \in Conn /\ index[c] \in 1 .. Len(array) /\ array[index[c]] = c
  BY DEF NetInv, Indexed, Live, Up
<1>3. IsFiniteSet(1 .. Len(array))
  BY <1>1, FS_Interval
<1>4. IsFiniteSet(D)
  BY <1>2, <1>3, FS_Subset
<1>5. held \in [D -> S] /\ \A c \in S : \E i \in D : held[i] = c
  BY <1>2
<1>6. held \in Surjection(D, S)
  BY <1>5 DEF Surjection
<1> QED
  BY <1>4, <1>6, FS_Surjection

-----------------------------------------------------------------------------
(* Every step keeps the invariant                                           *)

LEMMA InitNet == Init => NetInv
<1> SUFFICES ASSUME Init PROVE NetInv
  OBVIOUS
<1>1. NetOK
  <2>1. <<>> \in Seq(Conn) /\ <<>> \in Seq(Nat) /\ <<>> \in Seq(Items)
    OBVIOUS
  <2> QED
    BY <2>1, NetAssumption DEF Init, NetOK, States, Flags
<1>2. Waiting /\ Indexed
  BY DEF Init, Waiting, Indexed, Live
<1>3. InOrder
  <2>1. \A c \in Conn : wire[c] \o output[c] = [i \in 1 .. sent[c] |-> i]
    BY DEF Init
  <2> QED
    BY <2>1 DEF Init, InOrder, Up
<1>4. Counted /\ Asked /\ DeletedLater /\ DeletedOnce
  BY DEF Init, Counted, Live, Up, Closed, Asked, DeletedLater, DeletedOnce, OnceEach
<1> QED
  BY <1>1, <1>2, <1>3, <1>4 DEF NetInv

LEMMA AddedToQueue ==
    ASSUME NEW S, NEW q \in Seq(S), NEW m \in S
    PROVE  /\ Append(q, m) \in Seq(S) /\ Len(Append(q, m)) = Len(q) + 1
           /\ \A i \in 1 .. Len(q) : Append(q, m)[i] = q[i]
           /\ Append(q, m)[Len(q) + 1] = m
OBVIOUS

\* What an action leaves alone stays as it was.
LEMMA Untouched ==
    ASSUME NetInv
    PROVE  /\ UNCHANGED <<backlog, acceptable, state>> => Waiting'
           /\ UNCHANGED <<array, index, state>> => Indexed'
           /\ UNCHANGED <<wire, output, sent, writing, reading, state>> => InOrder'
           /\ UNCHANGED <<ups, downs, state>> => Counted'
           /\ UNCHANGED <<at, fired, state, writing, rst, room, aborted>> => Asked'
           /\ UNCHANGED <<at, functors, pending, state>> => DeletedLater'
           /\ UNCHANGED <<idled, dangling, fired, state, pending, functors>> => DeletedOnce'
<1> USE DEF NetInv
<1>1. UNCHANGED <<backlog, acceptable, state>> => Waiting'
  BY DEF Waiting
<1>2. UNCHANGED <<array, index, state>> => Indexed'
  BY DEF Indexed, Live
<1>3. UNCHANGED <<wire, output, sent, writing, reading, state>> => InOrder'
  BY DEF InOrder, Up
<1>4. UNCHANGED <<ups, downs, state>> => Counted'
  BY DEF Counted, Live, Closed
<1>5. UNCHANGED <<at, fired, state, writing, rst, room, aborted>> => Asked'
  BY DEF Asked, Live, Closed
<1>6. UNCHANGED <<at, functors, pending, state>> => DeletedLater'
  BY DEF DeletedLater, Closed
<1>7. UNCHANGED <<idled, dangling, fired, state, pending, functors>> => DeletedOnce'
  BY DEF DeletedOnce, OnceEach, Up
<1> QED
  BY <1>1, <1>2, <1>3, <1>4, <1>5, <1>6, <1>7

LEMMA PeersKeep ==
    ASSUME NetInv, NEW c \in Conn,
           \/ Connect(c) \/ PeerSends(c) \/ PeerCloses(c) \/ PeerResets(c) \/ PeerReads(c)
           \/ Post(c)
    PROVE  NetInv'
<1> USE DEF kernelVars, connVars, arrayVars, loopVars, functorVars, callVars, boundVars
<1>1. NetOK /\ Waiting /\ Asked /\ DeletedLater /\ DeletedOnce
  BY DEF NetInv
<1>2. CASE Connect(c)
  <2>1. backlog' = Append(backlog, c) /\ UNCHANGED <<state, acceptable>>
    BY <1>2 DEF Connect
  <2>2. backlog \in Seq(Conn) /\ Len(backlog) \in Nat
    BY <1>1 DEF NetOK
  <2>3. state[c] = "none" /\ \A i \in 1 .. Len(backlog) : backlog[i] # c
    BY <1>2, <2>2 DEF Connect, Known
  <2>4. /\ backlog' \in Seq(Conn) /\ Len(backlog') = Len(backlog) + 1
        /\ \A i \in 1 .. Len(backlog) : backlog'[i] = backlog[i]
        /\ backlog'[Len(backlog) + 1] = c
    BY <2>1, <2>2, AddedToQueue
  <2>5. NetOK'
    BY <1>1, <1>2, <2>4 DEF Connect, NetOK
  <2>6. Waiting'
    <3>1. \A i \in 1 .. Len(backlog') : i \in 1 .. Len(backlog) \/ i = Len(backlog) + 1
      BY <2>2, <2>4
    <3>2. acceptable' = TRUE => backlog' # <<>>
      BY <2>2, <2>4
    <3> QED
      BY <1>1, <2>1, <2>3, <2>4, <3>1, <3>2 DEF Waiting
  <2>7. (Indexed /\ InOrder /\ Counted /\ Asked /\ DeletedLater /\ DeletedOnce)'
    BY <1>2, Untouched DEF Connect
  <2> QED
    BY <2>5, <2>6, <2>7 DEF NetInv
<1>3. CASE PeerSends(c)
  <2>1. inbox' \in [Conn -> Nat]
    BY <1>1, <1>3 DEF PeerSends, NetOK
  <2>2. NetOK'
    BY <1>1, <1>3, <2>1 DEF PeerSends, NetOK
  <2>3. (Waiting /\ Indexed /\ InOrder /\ Counted /\ Asked /\ DeletedLater /\ DeletedOnce)'
    BY <1>3, Untouched DEF PeerSends
  <2> QED
    BY <2>2, <2>3 DEF NetInv
<1>4. CASE PeerCloses(c)
  <2>1. NetOK'
    BY <1>1, <1>4 DEF PeerCloses, NetOK
  <2>2. (Waiting /\ Indexed /\ InOrder /\ Counted /\ Asked /\ DeletedLater /\ DeletedOnce)'
    BY <1>4, Untouched DEF PeerCloses
  <2> QED
    BY <2>1, <2>2 DEF NetInv
<1>5. CASE PeerResets(c)
  <2>1. /\ rst' = [rst EXCEPT ![c] = "error"] /\ rst \in [Conn -> {"none", "error", "seen"}]
        /\ UNCHANGED <<at, fired, state, writing, room, aborted>>
    BY <1>1, <1>5 DEF PeerResets, NetOK
  <2>2. NetOK'
    BY <1>1, <1>5 DEF PeerResets, NetOK
  <2>3. Asked'
    BY <1>1, <2>1 DEF Asked, Live, Closed
  <2>4. (Waiting /\ Indexed /\ InOrder /\ Counted /\ DeletedLater /\ DeletedOnce)'
    BY <1>5, Untouched DEF PeerResets
  <2> QED
    BY <2>2, <2>3, <2>4 DEF NetInv
<1>6. CASE PeerReads(c)
  <2>1. SndBuf \in Nat /\ SndBuf > 0
    BY NetAssumption
  <2>2. /\ room' = [room EXCEPT ![c] = SndBuf] /\ room \in [Conn -> Nat]
        /\ UNCHANGED <<at, fired, state, writing, rst, aborted>>
    BY <1>1, <1>6 DEF PeerReads, NetOK
  <2>3. NetOK'
    BY SMTT(30), <1>1, <1>6, <2>1, <2>2 DEF PeerReads, NetOK
  <2>4. Asked'
    BY <1>1, <2>1, <2>2 DEF Asked, Live, Closed
  <2>5. (Waiting /\ Indexed /\ InOrder /\ Counted /\ DeletedLater /\ DeletedOnce)'
    BY <1>6, Untouched DEF PeerReads
  <2> QED
    BY <2>3, <2>4, <2>5 DEF NetInv
<1>7. CASE Post(c)
  <2>1. /\ pending' = Append(pending, Task(c)) /\ Task(c) \in Items /\ Task(c).do = "send"
        /\ UNCHANGED <<state, functors, at, fired, idled, dangling>>
    BY <1>7 DEF Post, Task, Items
  <2>2. pending \in Seq(Items) /\ Len(pending) \in Nat
    BY <1>1 DEF NetOK
  <2>3. /\ pending' \in Seq(Items) /\ Len(pending') = Len(pending) + 1
        /\ \A i \in 1 .. Len(pending) : pending'[i] = pending[i]
        /\ pending'[Len(pending) + 1] = Task(c)
    BY <2>1, <2>2, AddedToQueue
  <2>4. \A i \in 1 .. Len(pending') : i \in 1 .. Len(pending) \/ pending'[i].do = "send"
    BY <2>1, <2>2, <2>3
  <2>5. NetOK'
    BY <1>1, <1>7, <2>3 DEF Post, NetOK
  <2>6. DeletedLater'
    BY <1>1, <2>1, <2>3, <2>4 DEF DeletedLater, Closed
  <2>7. DeletedOnce'
    BY <1>1, <2>1, <2>3, <2>4 DEF DeletedOnce, OnceEach, Up
  <2>8. (Waiting /\ Indexed /\ InOrder /\ Counted /\ Asked)'
    BY <1>7, Untouched DEF Post
  <2> QED
    BY <2>5, <2>6, <2>7, <2>8 DEF NetInv
<1> QED
  BY <1>2, <1>3, <1>4, <1>5, <1>6, <1>7

LEMMA PollKeeps == ASSUME NetInv, Poll PROVE NetInv'
<1> USE DEF kernelVars, connVars, arrayVars, functorVars, callVars, boundVars
<1>1. NetOK /\ Waiting /\ InOrder /\ Asked /\ DeletedLater /\ DeletedOnce
  BY DEF NetInv
<1>2. \A c \in Conn : /\ Ready(c) \subseteq Flags
                      /\ Ready(c) # {} => reading[c] = TRUE
                      /\ "out" \in Ready(c) => /\ writing[c] = TRUE
                                               /\ rst[c] # "none" \/ room[c] > 0
  BY <1>1 DEF Ready, Flags, NetOK
<1>3. /\ fired' = [c \in Conn |-> Ready(c)] /\ acceptable' = (backlog # <<>>) /\ at' = "events"
      /\ UNCHANGED <<backlog, state, reading, writing, rst, room, aborted, pending, functors,
                     idled, dangling>>
      /\ at = "poll"
  BY DEF Poll
<1>4. NetOK'
  BY <1>1, <1>2, <1>3 DEF Poll, NetOK
<1>5. Asked'
  <2>1. \A c \in Conn : fired'[c] # {} => state[c] \in {"connected", "disconnecting"}
    BY <1>1, <1>2, <1>3 DEF InOrder, Up
  <2> QED
    BY <1>1, <1>2, <1>3, <2>1 DEF Asked, Live
<1>6. DeletedLater'
  BY <1>1, <1>3 DEF DeletedLater, Closed
<1>7. DeletedOnce'
  <2>1. \A c \in Conn : fired'[c] # {} => Up(c)
    BY <1>1, <1>2, <1>3 DEF InOrder
  <2> QED
    BY <1>1, <1>3, <2>1 DEF DeletedOnce, OnceEach, Up
<1>8. Waiting'
  BY <1>1, <1>3 DEF Waiting
<1>9. (Indexed /\ InOrder /\ Counted)'
  BY Untouched DEF Poll
<1> QED
  BY <1>4, <1>5, <1>6, <1>7, <1>8, <1>9 DEF NetInv

LEMMA HandlingFacts ==
    ASSUME NetOK, NEW c \in Conn, NEW f \in Flags, Handling(c, f)
    PROVE  /\ at = "events" /\ at' = at /\ acceptable' = acceptable
           /\ fired' \in [Conn -> SUBSET Flags]
           /\ f \in fired[c] /\ f \notin fired'[c] /\ (f = "in" => fired'[c] = {})
           /\ \A d \in Conn : fired'[d] \subseteq fired[d]
BY DEF Handling, NetOK

\* What is left of the report is about connections that were in it.
LEMMA LessAsked ==
    ASSUME NetInv, at' = "events", \A d \in Conn : fired'[d] \subseteq fired[d],
           \A d \in Conn : rst[d] # "none" <=> rst'[d] # "none", UNCHANGED aborted,
           \A d \in Conn : Live(d) => Live(d)',
           \A d \in Conn : "out" \in fired'[d] /\ ~Closed(d)' =>
               ~Closed(d) /\ (writing[d] = TRUE => writing'[d] = TRUE /\ room'[d] = room[d])
    PROVE  Asked'
BY DEF NetInv, Asked, Live

LEMMA ErrorKeeps == ASSUME NetInv, NEW c \in Conn, HandleError(c) PROVE NetInv'
<1> USE DEF kernelVars, connVars, arrayVars, loopVars, functorVars, callVars, boundVars
<1>1. NetOK /\ DeletedOnce
  BY DEF NetInv
<1>2. /\ at = "events" /\ at' = at /\ acceptable' = acceptable
      /\ fired' \in [Conn -> SUBSET Flags] /\ \A d \in Conn : fired'[d] \subseteq fired[d]
  BY <1>1, HandlingFacts DEF HandleError, Flags
<1>3. /\ rst' = [rst EXCEPT ![c] = IF @ = "error" THEN "seen" ELSE @]
      /\ UNCHANGED <<backlog, inbox, fin, room, wire, state, reading, writing, output, array, index,
                     pending, functors, aborted, sent, ups, downs, idled, dangling>>
  BY DEF HandleError
<1>4. \A d \in Conn : rst[d] # "none" <=> rst'[d] # "none"
  BY <1>1, <1>3 DEF NetOK
<1>5. NetOK'
  BY <1>1, <1>2, <1>3 DEF NetOK
<1>6. Asked'
  <2>1. \A d \in Conn : "out" \in fired'[d] /\ ~Closed(d)' =>
               ~Closed(d) /\ (writing[d] = TRUE => writing'[d] = TRUE /\ room'[d] = room[d])
    BY <1>3 DEF Closed
  <2> QED
    BY <1>2, <1>3, <1>4, <2>1, LessAsked DEF Live
<1>7. DeletedOnce'
  BY <1>1, <1>2, <1>3 DEF DeletedOnce, OnceEach, Up
<1>8. (Waiting /\ Indexed /\ InOrder /\ Counted /\ DeletedLater)'
  BY <1>2, <1>3, Untouched
<1> QED
  BY <1>5, <1>6, <1>7, <1>8 DEF NetInv

LEMMA WriteKeeps == ASSUME NetInv, NEW c \in Conn, HandleWrite(c) PROVE NetInv'
<1> USE DEF kernelVars, connVars, arrayVars, loopVars, functorVars, callVars, boundVars
<1>1. NetOK /\ InOrder /\ Asked /\ DeletedOnce
  BY DEF NetInv
<1>2. /\ at = "events" /\ at' = at /\ acceptable' = acceptable
      /\ fired' \in [Conn -> SUBSET Flags] /\ \A d \in Conn : fired'[d] \subseteq fired[d]
      /\ "out" \in fired[c] /\ "out" \notin fired'[c]
  BY <1>1, HandlingFacts DEF HandleWrite, Flags
<1>3. UNCHANGED <<backlog, inbox, fin, rst, state, reading, array, index, pending, functors, sent, ups, downs,
                  idled, dangling>>
  BY DEF HandleWrite
<1>4. (Waiting /\ Indexed /\ Counted /\ DeletedLater)'
  BY <1>2, <1>3, Untouched
<1>5. DeletedOnce'
  BY <1>1, <1>2, <1>3 DEF DeletedOnce, OnceEach, Up
<1> DEFINE fits == IF rst[c] # "none" THEN 0
                   ELSE IF Len(output[c]) < room[c] THEN Len(output[c]) ELSE room[c]
<1>6. CASE ~writing[c]
  <2>1. UNCHANGED <<output, writing, room, wire, aborted>>
    BY <1>6 DEF HandleWrite
  <2>2. NetOK' /\ InOrder'
    BY <1>1, <1>2, <1>3, <2>1, Untouched DEF NetOK
  <2>3. Asked'
    BY <1>2, <1>3, <2>1, LessAsked DEF Live, Closed
  <2> QED
    BY <1>4, <1>5, <2>2, <2>3 DEF NetInv
<1>7. CASE writing[c] /\ fits = 0
  <2>1. aborted' = TRUE /\ UNCHANGED <<output, writing, room, wire>>
    BY <1>7 DEF HandleWrite
  <2>2. NetOK' /\ InOrder'
    BY <1>1, <1>2, <1>3, <2>1, Untouched DEF NetOK
  <2>3. rst[c] # "none"
    <3>1. writing[c] = TRUE /\ output[c] # <<>> /\ ~Closed(c)
      BY <1>1, <1>7 DEF NetOK, InOrder, Up, Closed
    <3>2. output[c] \in Seq(Nat) /\ room[c] \in Nat
      BY <1>1 DEF NetOK
    <3>3. Len(output[c]) > 0
      BY <3>1, <3>2
    <3>4. rst[c] # "none" \/ room[c] > 0
      BY <1>1, <1>2, <3>1 DEF Asked
    <3> QED
      BY <1>7, <3>2, <3>3, <3>4
  <2>4. Asked'
    BY <1>1, <1>2, <1>3, <2>1, <2>3 DEF Asked, Live, Closed
  <2> QED
    BY <1>4, <1>5, <2>2, <2>4 DEF NetInv
<1>8. CASE writing[c] /\ fits # 0
  <2> DEFINE o == output[c]
             u == SubSeq(o, 1, fits)
             v == SubSeq(o, fits + 1, Len(o))
  <2>1. /\ wire' = [wire EXCEPT ![c] = @ \o u]
        /\ room' = [room EXCEPT ![c] = @ - fits]
        /\ output' = [output EXCEPT ![c] = v]
        /\ writing' = [writing EXCEPT ![c] = fits < Len(o)]
        /\ UNCHANGED aborted
    BY <1>1, <1>8 DEF HandleWrite, NetOK
  <2>2. o \in Seq(Nat) /\ room[c] \in Nat /\ wire[c] \in Seq(Nat)
    BY <1>1 DEF NetOK
  <2>3. fits \in Nat /\ fits <= Len(o) /\ fits <= room[c]
    BY <2>2
  <2> HIDE DEF fits, o
  <2>4. /\ u \in Seq(Nat) /\ v \in Seq(Nat)
        /\ (wire[c] \o u) \o v = wire[c] \o o
        /\ fits < Len(o) <=> v # <<>>
    BY <2>2, <2>3, WrittenBytes
  <2> HIDE DEF u, v
  <2>5. wire[c] \o u \in Seq(Nat) /\ room[c] - fits \in Nat
    BY <2>2, <2>3, <2>4
  <2>6. /\ room' \in [Conn -> Nat] /\ wire' \in [Conn -> Seq(Nat)]
        /\ output' \in [Conn -> Seq(Nat)] /\ writing' \in [Conn -> BOOLEAN]
    <3>1. room' \in [Conn -> Nat]
      BY <1>1, <2>1, <2>5 DEF NetOK
    <3>2. wire' \in [Conn -> Seq(Nat)] /\ output' \in [Conn -> Seq(Nat)]
      BY <1>1, <2>1, <2>4, <2>5 DEF NetOK
    <3>3. writing' \in [Conn -> BOOLEAN]
      <4>1. (fits < Len(o)) \in BOOLEAN
        BY <2>2, <2>3
      <4> QED
        BY <1>1, <2>1, <4>1 DEF NetOK
    <3> QED
      BY <3>1, <3>2, <3>3
  <2>7. NetOK'
    BY <1>1, <1>2, <1>3, <2>1, <2>6 DEF NetOK
  <2>8. InOrder'
    <3>1. /\ wire'[c] \o output'[c] = wire[c] \o output[c]
          /\ writing'[c] = TRUE <=> output'[c] # <<>>
          /\ Up(c)
      <4>1. wire'[c] = wire[c] \o u /\ output'[c] = v /\ writing'[c] = (fits < Len(o))
        BY <1>1, <2>1 DEF NetOK
      <4>2. Up(c)
        BY <1>1, <1>8 DEF NetOK, InOrder
      <4> QED
        BY <2>4, <4>1, <4>2 DEF o
    <3>2. \A d \in Conn : d # c => wire'[d] = wire[d] /\ output'[d] = output[d]
                                  /\ writing'[d] = writing[d]
      BY <1>1, <2>1 DEF NetOK
    <3> QED
      BY <1>1, <1>3, <3>1, <3>2 DEF InOrder, Up
  <2>9. Asked'
    <3>1. \A d \in Conn : d # c => writing'[d] = writing[d] /\ room'[d] = room[d]
      BY <1>1, <2>1 DEF NetOK
    <3> QED
      BY <1>2, <1>3, <2>1, <3>1, LessAsked DEF Live, Closed
  <2> QED
    BY <1>4, <1>5, <2>7, <2>8, <2>9 DEF NetInv
<1> QED
  BY <1>6, <1>7, <1>8

\* What closing S leaves of the functors, of the report and of the bookkeeping of
\* who is deleted when; with a timer that closes, nothing is said of how often.
LEMMA ClosedOnes ==
    ASSUME NetInv, NEW S \in SUBSET Conn, at = "events", at' = at,
           pending' \in Seq(Items), Len(pending') = Len(pending) + Cardinality(S),
           Cardinality(S) \in Nat,
           \A i \in 1 .. Len(pending) : pending'[i] = pending[i],
           \A i \in 1 .. Len(pending') : i > Len(pending) =>
               pending'[i].do = "connectDestroyed" /\ pending'[i].conn \in S,
           \A c \in S : Closed(c)',
           \A c \in Conn : Closed(c) \/ c \notin S => state'[c] = state[c],
           UNCHANGED functors
    PROVE  DeletedLater'
<1>1. NetOK /\ DeletedLater
  BY DEF NetInv
<1>2. Len(pending) \in Nat /\ \A i \in 1 .. Len(pending) : pending[i].conn \in Conn
  <2>1. pending \in Seq(Items) /\ \A m \in Items : m.conn \in Conn
    BY <1>1 DEF NetOK, Items
  <2> QED
    BY <2>1
<1>3. ASSUME NEW i \in 1 .. Len(pending')
      PROVE  pending'[i].do = "send" \/ state'[pending'[i].conn] \in {"disconnected", "deleted"}
  <2>1. CASE i > Len(pending)
    BY <2>1 DEF Closed
  <2>2. CASE ~(i > Len(pending))
    <3>1. i \in 1 .. Len(pending) /\ pending'[i] = pending[i]
      BY <1>2, <2>2
    <3> QED
      BY <1>1, <1>2, <3>1 DEF DeletedLater, Closed
  <2> QED
    BY <2>1, <2>2
<1>4. functors = <<>>
  BY <1>1 DEF DeletedLater
<1> QED
  BY <1>3, <1>4 DEF DeletedLater, Closed

\* A handler that closes its connection was reported an open one, where no timer
\* closes them; it queues the only functor for it.
LEMMA ClosedByHandler ==
    ASSUME NetInv, NEW c \in Conn, at = "events",
           \A d \in Conn : fired'[d] \subseteq fired[d], fired[c] # {}, fired'[c] = {},
           HandleClose({c}),
           UNCHANGED <<at, functors, idled, dangling, backlog, acceptable, wire, output, sent, ups,
                      array, index>>
    PROVE  /\ state' \in [Conn -> States] /\ downs' \in [Conn -> Nat]
           /\ reading' \in [Conn -> BOOLEAN] /\ writing' \in [Conn -> BOOLEAN]
           /\ pending' \in Seq(Items)
           /\ \A d \in Conn : Live(d) => Live(d)'
           /\ Closed(c)' /\ \A d \in Conn : d # c => state'[d] = state[d] /\ writing'[d] = writing[d]
           /\ Waiting' /\ Indexed' /\ InOrder' /\ Counted' /\ DeletedLater' /\ DeletedOnce'
<1> DEFINE S == {c}
           n == Len(pending)
<1>1. NetOK /\ Asked /\ DeletedLater /\ DeletedOnce
  BY DEF NetInv
<1>2. IsFiniteSet(S) /\ Cardinality(S) = 1 /\ S \in SUBSET Conn /\ \A d : d \in S <=> d = c
  BY FS_Singleton
<1>3. HandleClose(S)
  OBVIOUS
<1> HIDE DEF S
<1>4. \A d \in S : state[d] # "none"
  BY <1>1, <1>2 DEF Asked, Live
<1>5. /\ state' \in [Conn -> States] /\ downs' \in [Conn -> Nat]
      /\ reading' \in [Conn -> BOOLEAN] /\ writing' \in [Conn -> BOOLEAN]
      /\ pending' \in Seq(Items) /\ Len(pending') = n + Cardinality(S)
      /\ \A i \in 1 .. n : pending'[i] = pending[i]
      /\ \A i \in 1 .. Len(pending') : i > n =>
            pending'[i].do = "connectDestroyed" /\ pending'[i].conn \in S
      /\ \A d \in S : Closed(d)' /\ (Up(d) => state'[d] = "disconnected")
      /\ \A d \in Conn : Live(d) => Live(d)'
      /\ \A d \in Conn : /\ Closed(d) \/ d \notin S => state'[d] = state[d]
                         /\ d \notin S => writing'[d] = writing[d]
      /\ Waiting' /\ Indexed' /\ InOrder' /\ Counted'
  BY <1>2, <1>3, <1>4, CloseKeeps
<1>6. DeletedLater'
  <2>1. \A d \in S : Closed(d)'
    BY <1>5
  <2>2. \A d \in Conn : Closed(d) \/ d \notin S => state'[d] = state[d]
    BY <1>5
  <2>3. /\ pending' \in Seq(Items) /\ Len(pending') = Len(pending) + Cardinality(S)
        /\ \A i \in 1 .. Len(pending) : pending'[i] = pending[i]
        /\ \A i \in 1 .. Len(pending') : i > Len(pending) =>
              pending'[i].do = "connectDestroyed" /\ pending'[i].conn \in S
    BY <1>5
  <2>4. Cardinality(S) \in Nat /\ S \in SUBSET Conn
    BY <1>2
  <2> QED
    BY <2>1, <2>2, <2>3, <2>4, ClosedOnes
<1>7. n \in Nat /\ Len(pending') = n + 1 /\ \A i \in 1 .. n : pending[i].conn \in Conn
  <2>1. pending \in Seq(Items) /\ \A m \in Items : m.conn \in Conn
    BY <1>1 DEF NetOK, Items
  <2> QED
    BY <1>2, <1>5, <2>1
<1>8. pending'[n + 1].conn = c
  <2>1. n + 1 \in 1 .. Len(pending') /\ n + 1 > n
    BY <1>7
  <2>2. \A i \in 1 .. Len(pending') : i > n => pending'[i].conn \in S
    BY <1>5
  <2>3. pending'[n + 1].conn \in S
    BY <2>1, <2>2
  <2> QED
    BY <1>2, <2>3
<1>9. ASSUME idled = FALSE PROVE DeletedOnce'
  <2>1. Up(c) /\ state'[c] = "disconnected" /\ OnceEach(pending) /\ dangling' = FALSE
    BY <1>1, <1>2, <1>5, <1>9 DEF DeletedOnce
  <2>2. \A i \in 1 .. Len(pending') : i \in 1 .. n \/ i = n + 1
    BY <1>7
  <2>3. \A i \in 1 .. n : pending[i].do # "send" =>
           state'[pending[i].conn] = "disconnected" /\ pending[i].conn # c
    <3>1. \A i \in 1 .. n : pending[i].do # "send" => state[pending[i].conn] = "disconnected"
      BY <2>1 DEF OnceEach
    <3>2. state[c] # "disconnected"
      BY <2>1 DEF Up
    <3>3. \A d \in Conn : d # c => state'[d] = state[d]
      BY <1>2, <1>5
    <3> QED
      BY <1>7, <3>1, <3>2, <3>3
  <2>4. \A i \in 1 .. Len(pending') :
           pending'[i].do = "send" \/ state'[pending'[i].conn] = "disconnected"
    BY <1>5, <1>8, <2>1, <2>2, <2>3
  <2>5. \A i, j \in 1 .. Len(pending') :
           /\ pending'[i].do # "send" /\ pending'[j].do # "send"
           /\ pending'[i].conn = pending'[j].conn
           => i = j
    BY <1>5, <1>8, <2>1, <2>2, <2>3 DEF OnceEach
  <2>6. functors' = <<>>
    BY <1>1 DEF DeletedLater
  <2>7. \A d \in Conn : fired'[d] # {} => state'[d] \in {"connected", "disconnecting"}
    BY <1>1, <1>2, <1>5, <1>9 DEF DeletedOnce, Up
  <2> QED
    BY <2>1, <2>4, <2>5, <2>6, <2>7 DEF DeletedOnce, OnceEach, Up
<1>10. DeletedOnce'
  BY <1>1, <1>9 DEF DeletedOnce
<1> QED
  BY <1>2, <1>5, <1>6, <1>10

LEMMA MessageKeeps == ASSUME NetInv, NEW c \in Conn, HandleMessage(c) PROVE NetInv'
<1> USE DEF connVars, arrayVars, boundVars
<1>1. NetOK /\ Waiting /\ Indexed /\ InOrder /\ Counted /\ Asked /\ DeletedLater /\ DeletedOnce
  BY DEF NetInv
<1>2. /\ at = "events" /\ at' = at /\ acceptable' = acceptable
      /\ fired' \in [Conn -> SUBSET Flags] /\ \A d \in Conn : fired'[d] \subseteq fired[d]
      /\ fired[c] # {} /\ fired'[c] = {}
  BY <1>1, HandlingFacts DEF HandleMessage, Flags
<1>3. /\ inbox' = [inbox EXCEPT ![c] = 0]
      /\ UNCHANGED <<backlog, fin, rst, array, index, functors, aborted, ups, idled, dangling>>
  BY DEF HandleMessage
<1>4. inbox' \in [Conn -> Nat]
  BY <1>1, <1>3 DEF NetOK
<1>5. CASE UNCHANGED <<connVars, room, wire, sent, downs, pending>>
  <2>1. NetOK'
    BY <1>1, <1>2, <1>3, <1>4, <1>5 DEF NetOK
  <2>2. Asked'
    BY <1>2, <1>3, <1>5, LessAsked DEF Live, Closed
  <2>3. DeletedOnce'
    BY <1>1, <1>2, <1>3, <1>5 DEF DeletedOnce, OnceEach, Up
  <2>4. (Waiting /\ Indexed /\ InOrder /\ Counted /\ DeletedLater)'
    BY <1>2, <1>3, <1>5, Untouched
  <2> QED
    BY <2>1, <2>2, <2>3, <2>4 DEF NetInv
<1>6. ASSUME NEW d \in Conn, NEW k \in Sizes, Send(d, k), UNCHANGED <<state, reading, downs, pending>>
      PROVE  NetInv'
  <2>1. k \in Nat
    BY NetAssumption
  <2>2. /\ room' \in [Conn -> Nat] /\ wire' \in [Conn -> Seq(Nat)]
        /\ output' \in [Conn -> Seq(Nat)] /\ writing' \in [Conn -> BOOLEAN]
        /\ sent' \in [Conn -> Nat]
        /\ InOrder'
        /\ \A e \in Conn : writing[e] = TRUE => writing'[e] = TRUE /\ room'[e] = room[e]
    BY <1>1, <1>6, <2>1, SendKeeps
  <2>3. NetOK'
    BY <1>1, <1>2, <1>3, <1>4, <1>6, <2>2 DEF NetOK
  <2>4. Asked'
    BY <1>2, <1>3, <1>6, <2>2, LessAsked DEF Live, Closed
  <2>5. DeletedOnce'
    BY <1>1, <1>2, <1>3, <1>6 DEF DeletedOnce, OnceEach, Up
  <2>6. (Waiting /\ Indexed /\ Counted /\ DeletedLater)'
    BY <1>2, <1>3, <1>6, Untouched
  <2> QED
    BY <2>2, <2>3, <2>4, <2>5, <2>6 DEF NetInv
<1>7. ASSUME Up(c), Shutdown(c),
             UNCHANGED <<reading, writing, output, room, wire, sent, downs, pending>>
      PROVE  NetInv'
  <2>1. /\ state' \in [Conn -> States]
        /\ \A d \in Conn : state'[d] # state[d] =>
               state[d] = "connected" /\ state'[d] = "disconnecting"
    BY <1>1, <1>7 DEF Shutdown, NetOK, States
  <2>2. \A d \in Conn : /\ state'[d] = "none" <=> state[d] = "none"
                        /\ state'[d] = "disconnected" <=> state[d] = "disconnected"
                        /\ Up(d)' <=> Up(d)
                        /\ Live(d)' <=> Live(d)
                        /\ Closed(d)' <=> Closed(d)
    BY <2>1 DEF Up, Live, Closed
  <2>3. NetOK'
    BY <1>1, <1>2, <1>3, <1>4, <1>7, <2>1 DEF NetOK
  <2>4. Waiting'
    <3>1. \A i \in 1 .. Len(backlog) : backlog[i] \in Conn
      BY <1>1 DEF NetOK
    <3> QED
      BY <1>1, <1>2, <1>3, <2>2, <3>1 DEF Waiting
  <2>5. Indexed'
    <3>1. \A i \in 1 .. Len(array) : array[i] \in Conn
      BY <1>1 DEF NetOK
    <3> QED
      BY <1>1, <1>3, <2>2, <3>1 DEF Indexed, Live
  <2>6. InOrder' /\ Counted'
    BY <1>1, <1>3, <1>7, <2>2 DEF InOrder, Counted
  <2>7. Asked'
    BY <1>2, <1>3, <1>7, <2>2, LessAsked
  <2>8. \A i \in 1 .. Len(pending) : pending[i].conn \in Conn
    <3>1. pending \in Seq(Items) /\ \A m \in Items : m.conn \in Conn
      BY <1>1 DEF NetOK, Items
    <3> QED
      BY <3>1
  <2>9. functors = <<>>
    BY <1>1, <1>2 DEF DeletedLater
  <2>10. DeletedLater'
    BY <1>1, <1>2, <1>3, <1>7, <2>2, <2>8, <2>9 DEF DeletedLater, Closed
  <2>11. DeletedOnce'
    BY <1>1, <1>2, <1>3, <1>7, <2>2, <2>8, <2>9 DEF DeletedOnce, OnceEach, Up
  <2> QED
    BY <2>3, <2>4, <2>5, <2>6, <2>7, <2>10, <2>11 DEF NetInv
<1>8. ASSUME HandleClose({c}), UNCHANGED <<output, room, wire, sent>>
      PROVE  NetInv'
  <2>1. /\ state' \in [Conn -> States] /\ downs' \in [Conn -> Nat]
        /\ reading' \in [Conn -> BOOLEAN] /\ writing' \in [Conn -> BOOLEAN]
        /\ pending' \in Seq(Items)
        /\ \A d \in Conn : Live(d) => Live(d)'
        /\ Closed(c)' /\ \A d \in Conn : d # c => state'[d] = state[d] /\ writing'[d] = writing[d]
        /\ Waiting' /\ Indexed' /\ InOrder' /\ Counted' /\ DeletedLater' /\ DeletedOnce'
    BY <1>2, <1>3, <1>8, ClosedByHandler
  <2>2. NetOK'
    BY <1>1, <1>2, <1>3, <1>4, <1>8, <2>1 DEF NetOK
  <2>3. Asked'
    BY <1>2, <1>3, <1>8, <2>1, LessAsked DEF Closed
  <2> QED
    BY <2>1, <2>2, <2>3 DEF NetInv
<1> QED
  BY <1>5, <1>6, <1>7, <1>8 DEF HandleMessage

LEMMA EndKeeps == ASSUME NetInv, NEW c \in Conn, HandleEnd(c) PROVE NetInv'
<1> USE DEF connVars, arrayVars, boundVars
<1>1. NetOK /\ DeletedOnce
  BY DEF NetInv
<1>2. /\ at = "events" /\ at' = at /\ acceptable' = acceptable
      /\ fired' \in [Conn -> SUBSET Flags] /\ \A d \in Conn : fired'[d] \subseteq fired[d]
      /\ fired[c] # {} /\ fired'[c] = {}
  BY <1>1, HandlingFacts DEF HandleEnd, Flags
<1>3. /\ rst' = [rst EXCEPT ![c] = IF @ = "error" THEN "seen" ELSE @]
      /\ UNCHANGED <<backlog, inbox, fin, room, wire, array, index, functors, aborted, sent, ups,
                     idled, dangling, output>>
  BY DEF HandleEnd
<1>4. \A d \in Conn : rst[d] # "none" <=> rst'[d] # "none"
  BY <1>1, <1>3 DEF NetOK
<1>5. rst' \in [Conn -> {"none", "error", "seen"}]
  BY <1>1, <1>3 DEF NetOK
<1>6. CASE UNCHANGED <<connVars, downs, pending>>
  <2>1. NetOK'
    BY <1>1, <1>2, <1>3, <1>5, <1>6 DEF NetOK
  <2>2. Asked'
    BY <1>2, <1>3, <1>4, <1>6, LessAsked DEF Live, Closed
  <2>3. DeletedOnce'
    BY <1>1, <1>2, <1>3, <1>6 DEF DeletedOnce, OnceEach, Up
  <2>4. (Waiting /\ Indexed /\ InOrder /\ Counted /\ DeletedLater)'
    BY <1>2, <1>3, <1>6, Untouched
  <2> QED
    BY <2>1, <2>2, <2>3, <2>4 DEF NetInv
<1>7. CASE HandleClose({c})
  <2>1. /\ state' \in [Conn -> States] /\ downs' \in [Conn -> Nat]
        /\ reading' \in [Conn -> BOOLEAN] /\ writing' \in [Conn -> BOOLEAN]
        /\ pending' \in Seq(Items)
        /\ \A d \in Conn : Live(d) => Live(d)'
        /\ Closed(c)' /\ \A d \in Conn : d # c => state'[d] = state[d] /\ writing'[d] = writing[d]
        /\ Waiting' /\ Indexed' /\ InOrder' /\ Counted' /\ DeletedLater' /\ DeletedOnce'
    BY <1>2, <1>3, <1>7, ClosedByHandler
  <2>2. NetOK'
    BY <1>1, <1>2, <1>3, <1>5, <2>1 DEF NetOK
  <2>3. Asked'
    BY <1>2, <1>3, <1>4, <2>1, LessAsked DEF Closed
  <2> QED
    BY <2>1, <2>2, <2>3 DEF NetInv
<1> QED
  BY <1>6, <1>7 DEF HandleEnd

\* The acceptor takes the first of the backlog, which is in no other place.
LEMMA TakenFacts ==
    ASSUME NetInv, acceptable = TRUE
    PROVE  /\ Head(backlog) \in Conn /\ state[Head(backlog)] = "none"
           /\ Tail(backlog) \in Seq(Conn)
           /\ \A i \in 1 .. Len(Tail(backlog)) :
                 /\ Tail(backlog)[i] \in Conn /\ Tail(backlog)[i] # Head(backlog)
                 /\ state[Tail(backlog)[i]] = "none"
           /\ \A i, j \in 1 .. Len(Tail(backlog)) : Tail(backlog)[i] = Tail(backlog)[j] => i = j
<1>1. backlog \in Seq(Conn) /\ backlog # <<>> /\ Waiting
  BY DEF NetInv, NetOK, Waiting
<1> DEFINE t == Tail(backlog)
           n == Len(backlog)
<1>2. /\ n \in Nat /\ n > 0 /\ Head(backlog) = backlog[1]
      /\ t \in Seq(Conn) /\ Len(t) = n - 1 /\ \A i \in 1 .. n - 1 : t[i] = backlog[i + 1]
  BY <1>1
<1>3. \A i \in 1 .. n : backlog[i] \in Conn /\ state[backlog[i]] = "none"
  BY <1>1 DEF Waiting
<1>4. \A i, j \in 1 .. n : backlog[i] = backlog[j] => i = j
  BY <1>1 DEF Waiting
<1> HIDE DEF t, n
<1>5. 1 \in 1 .. n /\ \A i \in 1 .. n - 1 : i + 1 \in 1 .. n /\ i + 1 # 1
  BY <1>2
<1>6. \A i \in 1 .. n - 1 : t[i] \in Conn /\ t[i] # Head(backlog) /\ state[t[i]] = "none"
  BY <1>2, <1>3, <1>4, <1>5
<1>7. \A i, j \in 1 .. n - 1 : t[i] = t[j] => i = j
  <2>1. ASSUME NEW i \in 1 .. n - 1, NEW j \in 1 .. n - 1, t[i] = t[j] PROVE i = j
    <3>1. i + 1 = j + 1
      BY <1>2, <1>4, <1>5, <2>1
    <3> QED
      BY <1>2, <3>1
  <2> QED
    BY <2>1
<1> QED
  BY <1>2, <1>3, <1>5, <1>6, <1>7 DEF t

LEMMA NewConnectionKeeps == ASSUME NetInv, NewConnection PROVE NetInv'
<1> USE DEF boundVars, functorVars
<1>1. NetOK /\ Indexed /\ InOrder /\ Counted /\ Asked /\ DeletedLater /\ DeletedOnce
  BY DEF NetInv
<1> DEFINE c == Head(backlog)
           n == Len(array)
<1>2. /\ at = "events" /\ acceptable = TRUE /\ acceptable' = FALSE /\ backlog' = Tail(backlog)
      /\ array' = Append(array, c) /\ index' = [index EXCEPT ![c] = Len(array')]
      /\ state' = [state EXCEPT ![c] = "connected"]
      /\ reading' = [reading EXCEPT ![c] = TRUE]
      /\ ups' = [ups EXCEPT ![c] = @ + 1]
      /\ UNCHANGED <<inbox, fin, rst, room, wire, writing, output, at, fired, pending, functors,
                     aborted, sent, downs, idled, dangling>>
  BY <1>1 DEF NewConnection, PushBack, ConnectEstablished, NetOK
<1>3. /\ c \in Conn /\ state[c] = "none" /\ Tail(backlog) \in Seq(Conn)
      /\ \A i \in 1 .. Len(Tail(backlog)) :
            /\ Tail(backlog)[i] \in Conn /\ Tail(backlog)[i] # c
            /\ state[Tail(backlog)[i]] = "none"
      /\ \A i, j \in 1 .. Len(Tail(backlog)) : Tail(backlog)[i] = Tail(backlog)[j] => i = j
  BY <1>2, TakenFacts
<1>4. array \in Seq(Conn) /\ n \in Nat
  BY <1>1 DEF NetOK
<1> HIDE DEF c
<1>5. /\ array' \in Seq(Conn) /\ Len(array') = n + 1
      /\ \A i \in 1 .. n : array'[i] = array[i]
      /\ array'[n + 1] = c
  BY <1>2, <1>3, <1>4, AddedToQueue
<1>6. /\ state' \in [Conn -> States] /\ reading' \in [Conn -> BOOLEAN]
      /\ state'[c] = "connected" /\ \A d \in Conn : d # c => state'[d] = state[d]
  BY <1>1, <1>2, <1>3 DEF NetOK, States
<1>7. /\ index' \in [Conn -> Nat]
      /\ index'[c] = n + 1 /\ \A d \in Conn : d # c => index'[d] = index[d]
  <2>1. index' = [index EXCEPT ![c] = n + 1] /\ n + 1 \in Nat
    BY <1>2, <1>4, <1>5
  <2> QED
    BY <1>1, <1>3, <2>1 DEF NetOK
<1>8. ups' \in [Conn -> Nat] /\ ups'[c] = 1 /\ \A d \in Conn : d # c => ups'[d] = ups[d]
  <2>1. ups[c] = 0 /\ ups \in [Conn -> Nat]
    BY <1>1, <1>3 DEF NetOK, Counted
  <2>2. ups' = [ups EXCEPT ![c] = 1]
    BY <1>2, <2>1
  <2> QED
    BY <1>3, <2>1, <2>2
<1>9. NetOK'
  BY <1>1, <1>2, <1>3, <1>5, <1>6, <1>7, <1>8 DEF NetOK
<1>10. Waiting'
  BY <1>2, <1>3, <1>6 DEF Waiting
<1>11. Indexed'
  <2>1. \A i \in 1 .. n + 1 : i \in 1 .. n \/ i = n + 1
    BY <1>4
  <2>2. \A i \in 1 .. n : /\ array[i] \in Conn /\ array[i] # c
                         /\ state[array[i]] \in {"connected", "disconnecting", "disconnected"}
                         /\ index[array[i]] = i
    BY <1>1, <1>3, <1>4 DEF Indexed, Live
  <2>3. ASSUME NEW i \in 1 .. n + 1
        PROVE  /\ state'[array'[i]] \in {"connected", "disconnecting", "disconnected"}
               /\ index'[array'[i]] = i
    BY <1>5, <1>6, <1>7, <2>1, <2>2
  <2>4. ASSUME NEW d \in Conn, state'[d] \in {"connected", "disconnecting", "disconnected"}
        PROVE  index'[d] \in 1 .. n + 1 /\ array'[index'[d]] = d
    <3>1. CASE d = c
      BY <1>4, <1>5, <1>7, <3>1
    <3>2. CASE d # c
      <4>1. index[d] \in 1 .. n /\ array[index[d]] = d /\ index'[d] = index[d]
        BY <1>1, <1>6, <1>7, <2>4, <3>2 DEF Indexed, Live
      <4> QED
        BY <1>4, <1>5, <4>1
    <3> QED
      BY <3>1, <3>2
  <2> QED
    BY <1>5, <2>3, <2>4 DEF Indexed, Live
<1>12. InOrder'
  <2>1. output[c] = <<>> /\ writing[c] # TRUE
    BY <1>1, <1>3 DEF InOrder, Up
  <2>2. \A d \in Conn : d # c => reading'[d] = reading[d]
    BY <1>1, <1>2 DEF NetOK
  <2> QED
    BY <1>1, <1>2, <1>6, <2>1, <2>2 DEF InOrder, Up
<1>13. Counted'
  <2>1. ups[c] = 0 /\ downs[c] = 0
    BY <1>1, <1>3 DEF Counted
  <2> QED
    BY <1>1, <1>2, <1>3, <1>6, <1>8, <2>1 DEF Counted, Live, Closed
<1>14. fired[c] = {}
  BY <1>1, <1>3 DEF Asked, Live
<1>15. Asked'
  BY <1>1, <1>2, <1>3, <1>6, <1>14 DEF Asked, Live, Closed
<1>16. /\ functors = <<>>
       /\ \A i \in 1 .. Len(pending) : pending[i].conn \in Conn
       /\ \A i \in 1 .. Len(pending) : pending[i].do # "send" => pending[i].conn # c
  <2>1. pending \in Seq(Items) /\ \A m \in Items : m.conn \in Conn
    BY <1>1 DEF NetOK, Items
  <2>2. functors = <<>>
    BY <1>1, <1>2 DEF DeletedLater
  <2> QED
    BY <1>1, <1>3, <2>1, <2>2 DEF DeletedLater, Closed
<1>17. DeletedLater'
  BY <1>1, <1>2, <1>6, <1>16 DEF DeletedLater, Closed
<1>18. DeletedOnce'
  BY <1>1, <1>2, <1>6, <1>14, <1>16 DEF DeletedOnce, OnceEach, Up
<1> QED
  BY <1>9, <1>10, <1>11, <1>12, <1>13, <1>15, <1>17, <1>18 DEF NetInv

LEMMA OutOfDescriptorsKeeps == ASSUME NetInv, OutOfDescriptors PROVE NetInv'
<1> USE DEF arrayVars, boundVars, callVars, functorVars
<1>1. NetOK /\ Indexed /\ InOrder /\ Counted /\ Asked /\ DeletedLater /\ DeletedOnce
  BY DEF NetInv
<1> DEFINE c == Head(backlog)
<1>2. /\ at = "events" /\ acceptable = TRUE /\ acceptable' = FALSE /\ backlog' = Tail(backlog)
      /\ state' = [state EXCEPT ![c] = "deleted"]
      /\ UNCHANGED <<inbox, fin, rst, room, wire, reading, writing, output, array, index, at, fired,
                     pending, functors, aborted, sent, ups, downs, idled, dangling>>
  BY <1>1 DEF OutOfDescriptors, NetOK
<1>3. /\ c \in Conn /\ state[c] = "none" /\ Tail(backlog) \in Seq(Conn)
      /\ \A i \in 1 .. Len(Tail(backlog)) :
            /\ Tail(backlog)[i] \in Conn /\ Tail(backlog)[i] # c
            /\ state[Tail(backlog)[i]] = "none"
      /\ \A i, j \in 1 .. Len(Tail(backlog)) : Tail(backlog)[i] = Tail(backlog)[j] => i = j
  BY <1>2, TakenFacts
<1> HIDE DEF c
<1>4. /\ state' \in [Conn -> States]
      /\ state'[c] = "deleted" /\ \A d \in Conn : d # c => state'[d] = state[d]
  BY <1>1, <1>2, <1>3 DEF NetOK, States
<1>5. NetOK'
  BY <1>1, <1>2, <1>3, <1>4 DEF NetOK
<1>6. Waiting'
  BY <1>2, <1>3, <1>4 DEF Waiting
<1>7. Indexed'
  <2>1. \A i \in 1 .. Len(array) : array[i] \in Conn
    BY <1>1 DEF NetOK
  <2> QED
    BY <1>1, <1>2, <1>3, <1>4, <2>1 DEF Indexed, Live
<1>8. InOrder'
  BY <1>1, <1>2, <1>3, <1>4 DEF InOrder, Up
<1>9. Counted'
  BY <1>1, <1>2, <1>3, <1>4 DEF Counted, Live, Closed
<1>10. fired[c] = {}
  BY <1>1, <1>3 DEF Asked, Live
<1>11. Asked'
  BY <1>1, <1>2, <1>3, <1>4, <1>10 DEF Asked, Live, Closed
<1>12. /\ functors = <<>>
       /\ \A i \in 1 .. Len(pending) : pending[i].conn \in Conn
       /\ \A i \in 1 .. Len(pending) : pending[i].do # "send" => pending[i].conn # c
  <2>1. pending \in Seq(Items) /\ \A m \in Items : m.conn \in Conn
    BY <1>1 DEF NetOK, Items
  <2>2. functors = <<>>
    BY <1>1, <1>2 DEF DeletedLater
  <2> QED
    BY <1>1, <1>3, <2>1, <2>2 DEF DeletedLater, Closed
<1>13. DeletedLater'
  BY <1>1, <1>2, <1>4, <1>12 DEF DeletedLater, Closed
<1>14. DeletedOnce'
  BY <1>1, <1>2, <1>4, <1>10, <1>12 DEF DeletedOnce, OnceEach, Up
<1> QED
  BY <1>5, <1>6, <1>7, <1>8, <1>9, <1>11, <1>13, <1>14 DEF NetInv

LEMMA TimersKeep == ASSUME NetInv, QuitTimer \/ IdleTimer PROVE NetInv'
<1> USE DEF kernelVars, connVars, arrayVars, functorVars, callVars, boundVars
<1>1. NetOK /\ DeletedLater
  BY DEF NetInv
<1>2. at = "events" /\ UNCHANGED <<at, fired, acceptable>>
  BY DEF QuitTimer, IdleTimer, AtTimer
<1>3. CASE QuitTimer
  <2>1. NetOK'
    BY <1>1, <1>2, <1>3 DEF QuitTimer, NetOK
  <2>2. (Waiting /\ Indexed /\ InOrder /\ Counted /\ Asked /\ DeletedLater /\ DeletedOnce)'
    BY <1>2, <1>3, Untouched DEF QuitTimer
  <2> QED
    BY <2>1, <2>2 DEF NetInv
<1>4. CASE IdleTimer
  <2>1. /\ idled' = TRUE
        /\ UNCHANGED <<backlog, inbox, fin, rst, room, wire, output, array, index, functors, aborted,
                       sent, ups>>
    BY <1>4 DEF IdleTimer
  <2>2. PICK S \in SUBSET {c \in Conn : Up(c)} : HandleClose(S)
    BY <1>4 DEF IdleTimer
  <2>3. IsFiniteSet(S) /\ S \in SUBSET Conn /\ \A c \in S : state[c] # "none"
    BY <2>2, OpenAreFinite DEF Up
  <2>4. Cardinality(S) \in Nat
    BY <2>3, FS_CardinalityType
  <2>5. /\ state' \in [Conn -> States] /\ downs' \in [Conn -> Nat]
        /\ reading' \in [Conn -> BOOLEAN] /\ writing' \in [Conn -> BOOLEAN]
        /\ pending' \in Seq(Items) /\ Len(pending') = Len(pending) + Cardinality(S)
        /\ \A i \in 1 .. Len(pending) : pending'[i] = pending[i]
        /\ \A i \in 1 .. Len(pending') : i > Len(pending) =>
              pending'[i].do = "connectDestroyed" /\ pending'[i].conn \in S
        /\ \A d \in S : Closed(d)' /\ (Up(d) => state'[d] = "disconnected")
        /\ \A d \in Conn : Live(d) => Live(d)'
        /\ \A d \in Conn : /\ Closed(d) \/ d \notin S => state'[d] = state[d]
                           /\ d \notin S => writing'[d] = writing[d]
        /\ Waiting' /\ Indexed' /\ InOrder' /\ Counted'
    BY <1>2, <2>1, <2>2, <2>3, CloseKeeps
  <2>6. NetOK'
    BY <1>1, <1>2, <2>1, <2>5 DEF NetOK
  <2>7. Asked'
    BY <1>2, <2>1, <2>5, LessAsked DEF Closed
  <2>8. DeletedLater'
    <3>1. \A d \in S : Closed(d)'
      BY <2>5
    <3>2. \A d \in Conn : Closed(d) \/ d \notin S => state'[d] = state[d]
      BY <2>5
    <3> QED
      BY <1>2, <2>1, <2>3, <2>4, <2>5, <3>1, <3>2, ClosedOnes
  <2>9. DeletedOnce'
    BY <2>1 DEF DeletedOnce
  <2> QED
    BY <2>5, <2>6, <2>7, <2>8, <2>9 DEF NetInv
<1> QED
  BY <1>3, <1>4

\* The swap leaves nothing to be deleted behind; the next round starts without.
LEMMA RoundKeeps == ASSUME NetInv, EventsDone \/ FunctorsDone PROVE NetInv'
<1> USE DEF kernelVars, connVars, arrayVars, functorVars, callVars, boundVars
<1>1. NetOK /\ Asked /\ DeletedLater /\ DeletedOnce
  BY DEF NetInv
<1>2. CASE EventsDone
  <2>1. /\ at = "events" /\ at' = "functors" /\ functors' = pending /\ pending' = <<>>
        /\ \A c \in Conn : fired[c] = {}
        /\ UNCHANGED <<backlog, inbox, fin, rst, room, wire, state, reading, writing, output, array,
                       index, fired, acceptable, aborted, sent, ups, downs, idled, dangling>>
    BY <1>2 DEF EventsDone
  <2>2. NetOK'
    <3>1. <<>> \in Seq(Items)
      OBVIOUS
    <3> QED
      BY <1>1, <2>1, <3>1 DEF NetOK
  <2>3. Asked'
    BY <1>1, <2>1 DEF Asked, Live, Closed
  <2>4. DeletedLater' /\ DeletedOnce'
    BY <1>1, <2>1 DEF DeletedLater, DeletedOnce, OnceEach, Closed, Up
  <2>5. (Waiting /\ Indexed /\ InOrder /\ Counted)'
    BY <2>1, Untouched
  <2> QED
    BY <2>2, <2>3, <2>4, <2>5 DEF NetInv
<1>3. CASE FunctorsDone
  <2>1. /\ at = "functors" /\ at' \in {"out", "poll"} /\ functors = <<>>
        /\ UNCHANGED <<backlog, inbox, fin, rst, room, wire, state, reading, writing, output, array,
                       index, fired, acceptable, pending, functors, aborted, sent, ups, downs,
                       idled, dangling>>
    BY <1>3 DEF FunctorsDone
  <2>2. NetOK'
    BY <1>1, <2>1 DEF NetOK
  <2>3. Asked'
    BY <1>1, <2>1 DEF Asked, Live, Closed
  <2>4. DeletedLater'
    BY <1>1, <2>1 DEF DeletedLater, Closed
  <2>5. (Waiting /\ Indexed /\ InOrder /\ Counted /\ DeletedOnce)'
    BY <2>1, Untouched
  <2> QED
    BY <2>2, <2>3, <2>4, <2>5 DEF NetInv
<1> QED
  BY <1>2, <1>3

\* What running a functor leaves of a queue of them.
LEMMA RestOfQueue ==
    ASSUME NetInv, functors # <<>>
    PROVE  /\ Head(functors) \in Items /\ Head(functors).conn \in Conn
           /\ Tail(functors) \in Seq(Items)
           /\ Head(functors).do = "send" \/ Closed(Head(functors).conn)
           /\ \A i \in 1 .. Len(Tail(functors)) :
                 /\ Tail(functors)[i].conn \in Conn
                 /\ Tail(functors)[i].do = "send" \/ Closed(Tail(functors)[i].conn)
           /\ idled = FALSE =>
                 /\ OnceEach(Tail(functors))
                 /\ Head(functors).do = "send" \/ state[Head(functors).conn] = "disconnected"
                 /\ Head(functors).do # "send" =>
                       \A i \in 1 .. Len(Tail(functors)) :
                          Tail(functors)[i].do # "send" =>
                             Tail(functors)[i].conn # Head(functors).conn
<1> DEFINE n == Len(functors)
           t == Tail(functors)
<1>1. functors \in Seq(Items) /\ DeletedLater /\ DeletedOnce
  BY DEF NetInv, NetOK
<1>2. /\ n \in Nat /\ n > 0 /\ Head(functors) = functors[1]
      /\ t \in Seq(Items) /\ Len(t) = n - 1 /\ \A i \in 1 .. n - 1 : t[i] = functors[i + 1]
  BY <1>1
<1>3. \A i \in 1 .. n : functors[i] \in Items /\ functors[i].conn \in Conn
  <2>1. \A m \in Items : m.conn \in Conn
    BY DEF Items
  <2> QED
    BY <1>1, <2>1
<1>4. \A i \in 1 .. n : functors[i].do = "send" \/ Closed(functors[i].conn)
  BY <1>1 DEF DeletedLater
<1>5. idled = FALSE =>
          /\ \A i \in 1 .. n : functors[i].do = "send" \/ state[functors[i].conn] = "disconnected"
          /\ \A i, j \in 1 .. n :
                /\ functors[i].do # "send" /\ functors[j].do # "send"
                /\ functors[i].conn = functors[j].conn
                => i = j
  BY <1>1 DEF DeletedOnce, OnceEach
<1> HIDE DEF t, n
<1>6. 1 \in 1 .. n /\ \A i \in 1 .. n - 1 : i + 1 \in 1 .. n /\ i + 1 # 1
  BY <1>2
<1>7. \A i \in 1 .. n - 1 : t[i].conn \in Conn /\ (t[i].do = "send" \/ Closed(t[i].conn))
  BY <1>2, <1>3, <1>4, <1>6
<1>8. ASSUME idled = FALSE
      PROVE  /\ \A i \in 1 .. n - 1 : t[i].do = "send" \/ state[t[i].conn] = "disconnected"
             /\ Head(functors).do = "send" \/ state[Head(functors).conn] = "disconnected"
             /\ Head(functors).do # "send" =>
                   \A i \in 1 .. n - 1 : t[i].do # "send" => t[i].conn # Head(functors).conn
  BY <1>2, <1>5, <1>6, <1>8
<1>9. ASSUME idled = FALSE, NEW i \in 1 .. n - 1, NEW j \in 1 .. n - 1,
             t[i].do # "send", t[j].do # "send", t[i].conn = t[j].conn
      PROVE  i = j
  <2>1. i + 1 = j + 1
    BY SMTT(30), <1>2, <1>5, <1>6, <1>9
  <2> QED
    BY <1>2, <2>1
<1>10. idled = FALSE => OnceEach(t)
  BY <1>2, <1>8, <1>9 DEF OnceEach
<1> QED
  BY <1>2, <1>3, <1>4, <1>6, <1>7, <1>8, <1>10 DEF t

LEMMA RunDestroyKeeps == ASSUME NetInv, RunDestroy PROVE NetInv'
<1> USE DEF kernelVars, connVars, arrayVars, loopVars, boundVars
<1>1. NetOK /\ Asked /\ DeletedLater /\ DeletedOnce
  BY DEF NetInv
<1> DEFINE c == Head(functors).conn
           t == Tail(functors)
<1>2. /\ at = "functors" /\ functors # <<>> /\ Head(functors).do = "connectDestroyed"
      /\ functors' = t /\ dangling' = (dangling \/ state[c] = "deleted")
      /\ UNCHANGED <<backlog, inbox, fin, rst, room, wire, output, at, fired, acceptable, pending,
                     aborted, sent, ups, idled>>
  BY DEF RunDestroy
<1>3. /\ c \in Conn /\ t \in Seq(Items) /\ Closed(c)
      /\ \A i \in 1 .. Len(t) : t[i].conn \in Conn /\ (t[i].do = "send" \/ Closed(t[i].conn))
      /\ idled = FALSE =>
            /\ OnceEach(t) /\ state[c] = "disconnected"
            /\ \A i \in 1 .. Len(t) : t[i].do # "send" => t[i].conn # c
  BY <1>2, RestOfQueue
<1>4. \A i \in 1 .. Len(pending) : pending[i].do = "send"
  BY <1>1, <1>2 DEF DeletedLater
<1>5. \A d \in Conn : fired[d] = {}
  BY <1>1, <1>2 DEF Asked
<1>6. Asked'
  BY <1>1, <1>2, <1>5 DEF Asked
<1>7. CASE state[c] = "deleted"
  <2>1. UNCHANGED <<state, reading, writing, array, index, downs>>
    BY <1>7 DEF RunDestroy
  <2>2. NetOK'
    BY <1>1, <1>2, <1>3, <2>1 DEF NetOK
  <2>3. DeletedLater'
    BY <1>2, <1>3, <1>4, <2>1 DEF DeletedLater, Closed
  <2>4. DeletedOnce'
    BY <1>2, <1>3, <1>7 DEF DeletedOnce
  <2>5. (Waiting /\ Indexed /\ InOrder /\ Counted)'
    BY <1>2, <2>1, Untouched
  <2> QED
    BY <1>6, <2>2, <2>3, <2>4, <2>5 DEF NetInv
<1>8. CASE state[c] # "deleted"
  <2>1. ConnectDestroyed(c) /\ Live(c)
    BY <1>3, <1>8 DEF RunDestroy, Closed, Live
  <2> HIDE DEF c, t
  <2>2. /\ state' \in [Conn -> States] /\ downs' \in [Conn -> Nat]
        /\ reading' \in [Conn -> BOOLEAN] /\ writing' \in [Conn -> BOOLEAN]
        /\ array' \in Seq(Conn) /\ index' \in [Conn -> Nat]
        /\ state'[c] = "deleted" /\ \A d \in Conn : d # c => state'[d] = state[d]
        /\ Waiting' /\ Indexed' /\ InOrder' /\ Counted'
    BY <1>2, <1>3, <2>1, DestroyKeeps
  <2>3. NetOK'
    BY <1>1, <1>2, <1>3, <2>2 DEF NetOK
  <2>4. DeletedLater'
    <3>1. \A i \in 1 .. Len(t) : t[i].do = "send" \/ state'[t[i].conn] \in {"disconnected", "deleted"}
      BY <1>3, <2>2 DEF Closed
    <3> QED
      BY <1>2, <1>4, <3>1 DEF DeletedLater, Closed
  <2>5. ASSUME idled = FALSE PROVE DeletedOnce'
    <3>1. dangling' = FALSE
      BY <1>1, <1>2, <1>8, <2>5 DEF DeletedOnce
    <3>2. \A i \in 1 .. Len(t) : t[i].do = "send" \/ state'[t[i].conn] = "disconnected"
      BY <1>3, <2>2, <2>5 DEF OnceEach
    <3>3. \A i, j \in 1 .. Len(t) :
             t[i].do # "send" /\ t[j].do # "send" /\ t[i].conn = t[j].conn => i = j
      BY <1>3, <2>5 DEF OnceEach
    <3> QED
      BY <1>2, <1>4, <1>5, <3>1, <3>2, <3>3 DEF DeletedOnce, OnceEach
  <2>6. DeletedOnce'
    BY <1>2, <2>5 DEF DeletedOnce
  <2> QED
    BY <1>6, <2>2, <2>3, <2>4, <2>6 DEF NetInv
<1> QED
  BY <1>7, <1>8

LEMMA RunTaskKeeps == ASSUME NetInv, RunTask PROVE NetInv'
<1> USE DEF arrayVars, loopVars, callVars, boundVars
<1>1. NetOK /\ InOrder /\ Asked /\ DeletedLater /\ DeletedOnce
  BY DEF NetInv
<1> DEFINE c == Head(functors).conn
           t == Tail(functors)
<1>2. /\ at = "functors" /\ functors # <<>> /\ functors' = t
      /\ UNCHANGED <<backlog, inbox, fin, rst, state, reading, array, index, at, fired, acceptable,
                     pending, aborted, ups, downs, idled, dangling>>
  BY DEF RunTask
<1>3. /\ c \in Conn /\ t \in Seq(Items)
      /\ \A i \in 1 .. Len(t) : t[i].conn \in Conn /\ (t[i].do = "send" \/ Closed(t[i].conn))
      /\ idled = FALSE => OnceEach(t)
  BY <1>2, RestOfQueue
<1>4. \A d \in Conn : fired[d] = {}
  BY <1>1, <1>2 DEF Asked
<1>5. Asked'
  BY <1>1, <1>2, <1>4 DEF Asked
<1>6. DeletedLater'
  BY <1>1, <1>2, <1>3 DEF DeletedLater, Closed
<1>7. DeletedOnce'
  BY <1>1, <1>2, <1>3, <1>4 DEF DeletedOnce, OnceEach, Up
<1>8. (Waiting /\ Indexed /\ Counted)'
  BY <1>2, Untouched
<1>9. CASE UNCHANGED <<room, wire, output, writing, sent>>
  <2>1. NetOK'
    BY <1>1, <1>2, <1>3, <1>9 DEF NetOK
  <2>2. InOrder'
    BY <1>2, <1>9, Untouched
  <2> QED
    BY <1>5, <1>6, <1>7, <1>8, <2>1, <2>2 DEF NetInv
<1>10. ASSUME NEW k \in Sizes, Send(c, k) PROVE NetInv'
  <2>1. k \in Nat
    BY NetAssumption
  <2> HIDE DEF c, t
  <2>2. /\ room' \in [Conn -> Nat] /\ wire' \in [Conn -> Seq(Nat)]
        /\ output' \in [Conn -> Seq(Nat)] /\ writing' \in [Conn -> BOOLEAN]
        /\ sent' \in [Conn -> Nat]
        /\ InOrder'
    BY <1>1, <1>2, <1>3, <1>10, <2>1, SendKeeps
  <2>3. NetOK'
    BY <1>1, <1>2, <1>3, <2>2 DEF NetOK
  <2> QED
    BY <1>5, <1>6, <1>7, <1>8, <2>2, <2>3 DEF NetInv
<1> QED
  BY <1>9, <1>10 DEF RunTask

LEMMA DestroyServerKeeps == ASSUME NetInv, DestroyServer PROVE NetInv'
<1> USE DEF kernelVars, connVars, arrayVars, functorVars, boundVars
<1>1. NetOK /\ Indexed /\ Asked /\ DeletedLater /\ DeletedOnce
  BY DEF NetInv
<1>2. /\ at = "out"
      /\ UNCHANGED <<backlog, inbox, fin, rst, room, wire, fired, acceptable, pending, functors,
                     aborted, sent, ups, idled, dangling, output>>
  BY DEF DestroyServer
<1>3. /\ functors = <<>> /\ \A i \in 1 .. Len(pending) : pending[i].do = "send"
      /\ \A d \in Conn : fired[d] = {}
  BY <1>1, <1>2 DEF DeletedLater, Asked
<1>4. /\ at' \in {"out", "ended"}
      /\ array # <<>> => ConnectDestroyed(array[Len(array)])
      /\ array = <<>> => UNCHANGED <<state, reading, writing, array, index, downs>>
  BY <1>2 DEF DestroyServer
<1>5. Asked'
  BY <1>1, <1>2, <1>3, <1>4 DEF Asked
<1>6. DeletedLater'
  BY <1>2, <1>3, <1>4 DEF DeletedLater
<1>7. DeletedOnce'
  BY <1>1, <1>2, <1>3 DEF DeletedOnce, OnceEach
<1>8. CASE array = <<>>
  <2>1. NetOK'
    BY <1>1, <1>2, <1>4, <1>8 DEF NetOK
  <2>2. (Waiting /\ Indexed /\ InOrder /\ Counted)'
    BY <1>2, <1>4, <1>8, Untouched
  <2> QED
    BY <1>5, <1>6, <1>7, <2>1, <2>2 DEF NetInv
<1>9. CASE array # <<>>
  <2> DEFINE c == array[Len(array)]
  <2>1. c \in Conn /\ Live(c)
    <3>1. array \in Seq(Conn)
      BY <1>1 DEF NetOK
    <3>2. Len(array) \in 1 .. Len(array) /\ c \in Conn
      BY <1>9, <3>1
    <3> QED
      BY <1>1, <3>2 DEF Indexed
  <2>2. ConnectDestroyed(c)
    BY <1>4, <1>9
  <2> HIDE DEF c
  <2>3. /\ state' \in [Conn -> States] /\ downs' \in [Conn -> Nat]
        /\ reading' \in [Conn -> BOOLEAN] /\ writing' \in [Conn -> BOOLEAN]
        /\ array' \in Seq(Conn) /\ index' \in [Conn -> Nat]
        /\ Waiting' /\ Indexed' /\ InOrder' /\ Counted'
    BY <1>2, <2>1, <2>2, DestroyKeeps
  <2>4. NetOK'
    BY <1>1, <1>2, <1>4, <2>3 DEF NetOK
  <2> QED
    BY <1>5, <1>6, <1>7, <2>3, <2>4 DEF NetInv
<1> QED
  BY <1>8, <1>9

LEMMA StepNet == NetInv /\ [Next]_vars => NetInv'
<1> SUFFICES ASSUME NetInv, [Next]_vars PROVE NetInv'
  OBVIOUS
<1>1. ASSUME UNCHANGED vars PROVE NetInv'
  <2>1. NetOK'
    BY <1>1 DEF NetInv, NetOK, vars, kernelVars, connVars, arrayVars, loopVars, functorVars, callVars
  <2>2. (Waiting /\ Indexed /\ InOrder /\ Counted /\ Asked /\ DeletedLater /\ DeletedOnce)'
    BY <1>1, Untouched DEF vars, kernelVars, connVars, arrayVars, loopVars, functorVars, callVars
  <2> QED
    BY <2>1, <2>2 DEF NetInv
<1>2. ASSUME NEW c \in Conn,
             \/ Connect(c) \/ PeerSends(c) \/ PeerCloses(c) \/ PeerResets(c) \/ PeerReads(c)
             \/ Post(c)
      PROVE  NetInv'
  BY <1>2, PeersKeep
<1>3. ASSUME NEW c \in Conn, HandleError(c) \/ HandleWrite(c) \/ HandleMessage(c) \/ HandleEnd(c)
      PROVE  NetInv'
  BY <1>3, ErrorKeeps, WriteKeeps, MessageKeeps, EndKeeps
<1>4. ASSUME Poll \/ NewConnection \/ OutOfDescriptors \/ QuitTimer \/ IdleTimer
      PROVE  NetInv'
  BY <1>4, PollKeeps, NewConnectionKeeps, OutOfDescriptorsKeeps, TimersKeep
<1>5. ASSUME EventsDone \/ FunctorsDone \/ RunDestroy \/ RunTask \/ DestroyServer
      PROVE  NetInv'
  BY <1>5, RoundKeeps, RunDestroyKeeps, RunTaskKeeps, DestroyServerKeeps
<1> QED
  BY <1>1, <1>2, <1>3, <1>4, <1>5 DEF Next, LoopStep, Terminated

-----------------------------------------------------------------------------
(* The theorems                                                             *)

LEMMA NetServerInvariant == Spec => []NetInv
BY InitNet, StepNet, PTL DEF Spec

\* The array holds exactly the connections that are not deleted, each under the
\* index it carries, so that array_t::erase takes the connection it was asked to.
THEOREM ConnectionsAreFound == Spec => []ArrayIndexed
<1>1. ASSUME NetInv PROVE ArrayIndexed
  <2>1. array \in Seq(Conn)
    BY <1>1 DEF NetInv, NetOK
  <2>2. DOMAIN array = 1 .. Len(array) /\ \A i \in 1 .. Len(array) : array[i] \in Conn
    BY <2>1
  <2>3. \A i \in DOMAIN array : index[array[i]] = i
    BY <1>1, <2>2 DEF NetInv, Indexed
  <2>4. \A i \in DOMAIN array :
           array[i] \in Conn /\ state[array[i]] \in {"connected", "disconnecting", "disconnected"}
    BY <1>1, <2>2 DEF NetInv, Indexed, Live
  <2>5. \A c \in Conn : state[c] \in {"connected", "disconnecting", "disconnected"} =>
           index[c] \in DOMAIN array /\ array[index[c]] = c
    BY <1>1, <2>2 DEF NetInv, Indexed, Live
  <2> HIDE DEF NetInv
  <2>6. {array[i] : i \in DOMAIN array} =
            {c \in Conn : state[c] \in {"connected", "disconnecting", "disconnected"}}
    BY <2>4, <2>5
  <2> QED
    BY <2>3, <2>6 DEF ArrayIndexed
<1> QED
  BY <1>1, NetServerInvariant, PTL

\* The bytes of a connection reach the peer's kernel in the order of the calls of
\* send, and EPOLLOUT is asked for exactly while some wait in outputBuffer_.
THEOREM BytesStayInOrder == Spec => []SentInOrder
<1>1. ASSUME NetInv PROVE SentInOrder
  <2>1. \A c \in Conn : writing[c] \in BOOLEAN
    BY <1>1 DEF NetInv, NetOK
  <2> QED
    BY <1>1, <2>1 DEF NetInv, InOrder, SentInOrder
<1> QED
  BY <1>1, NetServerInvariant, PTL

\* connectionCallback_ says up once and down once, and the functor that deletes a
\* connection is queued once unless a timer closes connections.
THEOREM ConnectionsEndOnce == Spec => []EndsOnce
<1>1. ASSUME NetInv PROVE EndsOnce
  <2>1. \A c \in Conn : ups[c] <= 1
    BY <1>1 DEF NetInv, Counted
  <2>2. \A c \in Conn : downs[c] = IF ups[c] = 1 /\ Closed(c) THEN 1 ELSE 0
    BY <1>1 DEF NetInv, Counted
  <2>3. idled = FALSE => dangling = FALSE
    BY <1>1 DEF NetInv, DeletedOnce
  <2> QED
    BY <2>1, <2>2, <2>3 DEF EndsOnce
<1> QED
  BY <1>1, NetServerInvariant, PTL

\* The abort() of handleWrite is out of reach while no connection has had a socket error.
THEOREM OnlyResetsAbort == Spec => []AbortsOnlyOnReset
<1>1. ASSUME NetInv PROVE AbortsOnlyOnReset
  BY <1>1 DEF NetInv, Asked, AbortsOnlyOnReset
<1> QED
  BY <1>1, NetServerInvariant, PTL

-----------------------------------------------------------------------------
(* The list of timers is in the order of expiration                         *)

TimerRecord == [id : Timer, left : Nat, interval : Nat]

InOrderOfLeft(list) ==
    /\ list \in Seq(TimerRecord)
    /\ \A i, j \in 1..Len(list) : i < j => list[i].left <= list[j].left

RestartOne(passed, list, timer) ==
    IF timer.interval > 0
    THEN InsertWithLockHold(list,
           [timer EXCEPT !.left = IF timer.interval > passed THEN timer.interval - passed ELSE 0])
    ELSE list

Rearming == INSTANCE FoldFacts WITH Op <- RestartOne

\* A walk along a list ends at the first timer that stops it, or at the end.
LEMMA WalkEnds ==
    ASSUME NEW n \in Nat, NEW P
    PROVE  \E k \in 0..n : (\A i \in 1..k : i \in P) /\ (k < n => k + 1 \notin P)
<1>1. SUFFICES ASSUME \A k \in 0..n : (\A i \in 1..k : i \in P) => k < n /\ k + 1 \in P
               PROVE  FALSE
  OBVIOUS
<1> DEFINE T == {k \in Nat : k <= n => \A i \in 1..k : i \in P}
<1>2. 0 \in T
  OBVIOUS
<1>3. ASSUME NEW k \in Nat, k \in T
      PROVE  k + 1 \in T
  <2>1. SUFFICES ASSUME k + 1 <= n, NEW i \in 1..(k + 1) PROVE i \in P
    OBVIOUS
  <2>2. k \in 0..n /\ \A j \in 1..k : j \in P
    BY <1>3, <2>1
  <2>3. k + 1 \in P
    BY <1>1, <2>2
  <2> QED
    BY <2>2, <2>3
<1>4. n \in T
  <2> HIDE DEF T
  <2> QED
    BY <1>2, <1>3, Rearming!SetInduction
<1> QED
  BY <1>1, <1>4

LEMMA LeftIsNat ==
    ASSUME NEW list, InOrderOfLeft(list)
    PROVE  /\ Len(list) \in Nat /\ DOMAIN list = 1..Len(list)
           /\ \A j \in 1..Len(list) : list[j] \in TimerRecord /\ list[j].left \in Nat
<1>1. list \in Seq(TimerRecord)
  BY DEF InOrderOfLeft
<1>2. \A j \in 1..Len(list) : list[j] \in TimerRecord
  BY <1>1
<1> QED
  BY <1>1, <1>2 DEF TimerRecord

LEMMA Placed ==
    ASSUME NEW list, InOrderOfLeft(list), NEW timer \in TimerRecord
    PROVE  /\ Place(list, timer) \in 0..Len(list)
           /\ \A j \in 1..Len(list) : j <= Place(list, timer) => list[j].left <= timer.left
           /\ \A j \in 1..Len(list) : j > Place(list, timer) => timer.left <= list[j].left
<1>1. Len(list) \in Nat /\ \A j \in 1..Len(list) : list[j].left \in Nat
  BY LeftIsNat
<1>2. CASE list = <<>> \/ list[1].left > timer.left
  <2>1. Place(list, timer) = 0
    BY <1>2 DEF Place
  <2>2. ASSUME NEW j \in 1..Len(list) PROVE timer.left <= list[j].left
    <3>1. list # <<>> /\ list[1].left > timer.left /\ 1 \in 1..Len(list)
      BY <1>1, <1>2
    <3>2. list[1].left <= list[j].left
      BY <1>1, <3>1 DEF InOrderOfLeft
    <3> QED
      BY <1>1, <3>1, <3>2 DEF TimerRecord
  <2> QED
    BY <1>1, <2>1, <2>2
<1>3. CASE ~(list = <<>> \/ list[1].left > timer.left)
  <2> DEFINE P == {j \in 1..Len(list) : list[j].left < timer.left}
             Ends(i) == /\ \A j \in 1..i : list[j].left < timer.left
                        /\ i < Len(list) => list[i + 1].left >= timer.left
  <2>1. \E k \in 0..Len(list) : (\A i \in 1..k : i \in P) /\ (k < Len(list) => k + 1 \notin P)
    <3> HIDE DEF P
    <3> QED
      BY <1>1, WalkEnds
  <2>2. \E k \in 0..Len(list) : Ends(k)
    BY <1>1, <2>1 DEF TimerRecord
  <2>3. Place(list, timer) = CHOOSE i \in 0..Len(list) : Ends(i)
    BY <1>3 DEF Place
  <2>4. PICK p : p = Place(list, timer)
    OBVIOUS
  <2>5. p \in 0..Len(list) /\ Ends(p)
    <3> HIDE DEF Ends
    <3> QED
      BY <2>2, <2>3, <2>4
  <2>6. ASSUME NEW j \in 1..Len(list), j > p PROVE timer.left <= list[j].left
    <3>1. p + 1 \in 1..Len(list) /\ list[p + 1].left >= timer.left
      BY <1>1, <2>5, <2>6
    <3>2. j = p + 1 \/ p + 1 < j
      BY <2>5, <2>6, <1>1
    <3>3. list[p + 1].left <= list[j].left
      BY <1>1, <3>1, <3>2 DEF InOrderOfLeft
    <3> QED
      BY <1>1, <3>1, <3>3 DEF TimerRecord
  <2>7. ASSUME NEW j \in 1..Len(list), j <= p PROVE list[j].left <= timer.left
    BY <1>1, <2>5, <2>7 DEF TimerRecord
  <2> QED
    BY <2>4, <2>5, <2>6, <2>7
<1> QED
  BY <1>2, <1>3

PutAfter(list, k, x) == InsertAt(list, k + 1, x)

LEMMA InsertedIs ==
    ASSUME NEW S, NEW list \in Seq(S), NEW x \in S, NEW k \in 0..Len(list),
           NEW t, t = PutAfter(list, k, x)
    PROVE  /\ t \in Seq(S) /\ Len(t) = Len(list) + 1
           /\ \A j \in 1..Len(t) :
                 t[j] = IF j <= k THEN list[j] ELSE IF j = k + 1 THEN x ELSE list[j - 1]
<1>1. PICK a : a = SubSeq(list, 1, k)
  OBVIOUS
<1>2. PICK c : c = SubSeq(list, k + 1, Len(list))
  OBVIOUS
<1>3. Len(list) \in Nat
  OBVIOUS
<1>4. a \in Seq(S) /\ Len(a) = k /\ \A j \in 1..k : a[j] = list[j]
  BY <1>1, <1>3
<1>5. c \in Seq(S) /\ Len(c) = Len(list) - k /\ \A j \in 1..(Len(list) - k) : c[j] = list[k + j]
  BY <1>2, <1>3
<1>6. t = a \o <<x>> \o c
  <2>1. (k + 1) - 1 = k
    OBVIOUS
  <2>2. PutAfter(list, k, x) = SubSeq(list, 1, (k + 1) - 1) \o <<x>> \o SubSeq(list, k + 1, Len(list))
    BY Zenon DEF InsertAt, PutAfter
  <2> QED
    BY <1>1, <1>2, <2>1, <2>2
<1>8. PICK b : b = a \o <<x>>
  OBVIOUS
<1>9. b \in Seq(S) /\ Len(b) = k + 1 /\ b[k + 1] = x /\ \A j \in 1..k : b[j] = a[j]
  BY SMTT(30), <1>4, <1>8
<1>10. t \in Seq(S) /\ Len(t) = Len(list) + 1
  <2>1. t = b \o c
    BY <1>6, <1>8
  <2>2. Len(t) = Len(b) + Len(c) /\ t \in Seq(S)
    <3>1. b \in Seq(S) /\ c \in Seq(S)
      BY <1>5, <1>9
    <3>2. b \o c \in Seq(S) /\ Len(b \o c) = Len(b) + Len(c)
      BY <3>1, ConcatProperties
    <3> QED
      BY <2>1, <3>2
  <2> QED
    BY <1>3, <1>5, <1>9, <2>2
<1>11. ASSUME NEW j \in 1..Len(t)
       PROVE  t[j] = IF j <= k THEN list[j] ELSE IF j = k + 1 THEN x ELSE list[j - 1]
  <2>1. t = b \o c /\ Len(b) \in Nat
    BY <1>6, <1>8, <1>9
  <2>2. CASE j <= k + 1
    <3>1. t[j] = b[j]
      BY <1>5, <1>9, <2>1, <2>2
    <3> QED
      BY <1>4, <1>9, <2>2, <3>1
  <2>3. CASE j > k + 1
    <3>1. t[j] = c[j - (k + 1)]
      <4>1. j > Len(b) /\ j <= Len(b) + Len(c)
        BY <1>3, <1>5, <1>9, <1>10, <2>3
      <4>2. t[j] = c[j - Len(b)]
        BY <1>5, <1>9, <2>1, <4>1
      <4> QED
        BY <1>9, <4>2
    <3>2. j - (k + 1) \in 1..(Len(list) - k)
      BY <1>3, <1>10, <2>3
    <3>3. k + (j - (k + 1)) = j - 1
      BY <1>3
    <3> QED
      BY <1>5, <2>3, <3>1, <3>2, <3>3
  <2> QED
    BY <1>10, <2>2, <2>3
<1> QED
  BY <1>10, <1>11

LEMMA InsertKeepsOrder ==
    ASSUME NEW list, InOrderOfLeft(list), NEW timer \in TimerRecord
    PROVE  InOrderOfLeft(InsertWithLockHold(list, timer)) /\ InsertWithLockHold(list, timer) # <<>>
<1>1. PICK k : k = Place(list, timer)
  OBVIOUS
<1>2. PICK t : t = PutAfter(list, k, timer)
  OBVIOUS
<1>3. /\ k \in 0..Len(list) /\ Len(list) \in Nat /\ list \in Seq(TimerRecord)
      /\ \A j \in 1..Len(list) : j <= k => list[j].left <= timer.left
      /\ \A j \in 1..Len(list) : j > k => timer.left <= list[j].left
  BY <1>1, Placed DEF InOrderOfLeft
<1>4. /\ t \in Seq(TimerRecord) /\ Len(t) = Len(list) + 1
      /\ \A j \in 1..Len(t) :
            t[j] = IF j <= k THEN list[j] ELSE IF j = k + 1 THEN timer ELSE list[j - 1]
  BY <1>2, <1>3, InsertedIs
<1>5. ASSUME NEW i \in 1..Len(t), NEW j \in 1..Len(t), i < j
      PROVE  t[i].left <= t[j].left
  <2>1. \A m, n \in 1..Len(list) : m < n => list[m].left <= list[n].left
    BY DEF InOrderOfLeft
  <2>2. CASE j <= k
    <3>1. t[i] = list[i] /\ t[j] = list[j] /\ i \in 1..Len(list) /\ j \in 1..Len(list)
      BY <1>3, <1>4, <1>5, <2>2
    <3> QED
      BY <1>5, <2>1, <3>1
  <2>3. CASE j = k + 1
    <3>1. t[i] = list[i] /\ t[j] = timer /\ i \in 1..Len(list) /\ i <= k
      BY <1>3, <1>4, <1>5, <2>3
    <3> QED
      BY <1>3, <3>1
  <2>4. CASE j > k + 1 /\ i = k + 1
    <3>1. t[i] = timer /\ t[j] = list[j - 1] /\ j - 1 \in 1..Len(list) /\ j - 1 > k
      BY <1>3, <1>4, <1>5, <2>4
    <3> QED
      BY <1>3, <3>1
  <2>5. CASE j > k + 1 /\ i < k + 1
    <3>1. t[i] = list[i] /\ t[j] = list[j - 1] /\ j - 1 \in 1..Len(list) /\ i \in 1..Len(list) /\ i < j - 1
      BY <1>3, <1>4, <1>5, <2>5
    <3> QED
      BY <2>1, <3>1
  <2>6. CASE i > k + 1
    <3>1. /\ t[i] = list[i - 1] /\ t[j] = list[j - 1]
          /\ j - 1 \in 1..Len(list) /\ i - 1 \in 1..Len(list) /\ i - 1 < j - 1
      BY <1>3, <1>4, <1>5, <2>6
    <3> QED
      BY <2>1, <3>1
  <2> QED
    BY <1>3, <1>5, <2>2, <2>3, <2>4, <2>5, <2>6
<1>6. InsertWithLockHold(list, timer) = t
  BY <1>1, <1>2, Zenon DEF InsertWithLockHold, PutAfter
<1>7. t # <<>>
  BY <1>3, <1>4
<1> QED
  BY <1>4, <1>5, <1>6, <1>7 DEF InOrderOfLeft

LEMMA RestOfOrder ==
    ASSUME NEW list, InOrderOfLeft(list), NEW n \in 0..Len(list)
    PROVE  InOrderOfLeft(SubSeq(list, n + 1, Len(list))) /\ SubSeq(list, 1, n) \in Seq(TimerRecord)
<1>1. PICK t : t = SubSeq(list, n + 1, Len(list))
  OBVIOUS
<1>2. list \in Seq(TimerRecord) /\ Len(list) \in Nat
  BY DEF InOrderOfLeft
<1>3. t \in Seq(TimerRecord) /\ Len(t) = Len(list) - n /\ \A j \in 1..(Len(list) - n) : t[j] = list[n + j]
  BY <1>1, <1>2
<1>4. ASSUME NEW i \in 1..Len(t), NEW j \in 1..Len(t), i < j
      PROVE  t[i].left <= t[j].left
  <2>1. n + i \in 1..Len(list) /\ n + j \in 1..Len(list) /\ n + i < n + j
    BY <1>2, <1>3, <1>4
  <2> QED
    BY <1>2, <1>3, <2>1 DEF InOrderOfLeft
<1>5. SubSeq(list, 1, n) \in Seq(TimerRecord)
  BY <1>2
<1> QED
  BY <1>1, <1>3, <1>4, <1>5 DEF InOrderOfLeft

LEMMA DueIs == ASSUME InOrderOfLeft(timers) PROVE Due \in 0..Len(timers)
<1>1. Len(timers) \in Nat /\ \A j \in 1..Len(timers) : timers[j].left \in Nat
  BY LeftIsNat
<1> DEFINE P == {j \in 1..Len(timers) : timers[j].left = 0}
           Ends(n) == /\ \A i \in 1..n : timers[i].left = 0
                      /\ n < Len(timers) => timers[n + 1].left > 0
<1>2. \E k \in 0..Len(timers) : (\A i \in 1..k : i \in P) /\ (k < Len(timers) => k + 1 \notin P)
  <2> HIDE DEF P
  <2> QED
    BY <1>1, WalkEnds
<1>3. \E k \in 0..Len(timers) : Ends(k)
  BY <1>1, <1>2
<1>4. Due = CHOOSE n \in 0..Len(timers) : Ends(n)
  BY DEF Due
<1> HIDE DEF Ends
<1> QED
  BY <1>3, <1>4

LEMMA RearmKeepsOrder ==
    ASSUME InOrderOfLeft(timers), expired \in Seq(TimerRecord), since \in Nat
    PROVE  InOrderOfLeft(FoldLeft(RestartOrDelete, timers, expired))
<1>1. FoldLeft(RestartOrDelete, timers, expired) = Rearming!Folded(since, timers, expired)
  BY DEF Rearming!Folded, Rearming!FoldLeft, Rearming!MapThenFoldSet, FoldLeft, MapThenFoldSet,
         RestartOne, RestartOrDelete, Restarted, Max, Rearming!Max
<1> DEFINE D == {list \in Seq(TimerRecord) : InOrderOfLeft(list)}
<1>2. timers \in D
  BY DEF InOrderOfLeft
<1>3. ASSUME NEW i \in 1..Len(expired), NEW list \in D
      PROVE  RestartOne(since, list, expired[i]) \in D
  <2>1. PICK timer : timer = expired[i]
    OBVIOUS
  <2>2. timer \in TimerRecord
    BY <2>1
  <2>3. PICK again : again = [timer EXCEPT !.left = IF timer.interval > since THEN timer.interval - since ELSE 0]
    OBVIOUS
  <2>4. again \in TimerRecord
    <3>1. PICK l : l = IF timer.interval > since THEN timer.interval - since ELSE 0
      OBVIOUS
    <3>2. l \in Nat
      BY <2>2, <3>1 DEF TimerRecord
    <3> QED
      BY <2>2, <2>3, <3>1, <3>2 DEF TimerRecord
  <2>5. RestartOne(since, list, timer)
          = IF timer.interval > 0 THEN InsertWithLockHold(list, again) ELSE list
    BY <2>3, Zenon DEF RestartOne
  <2>6. InOrderOfLeft(InsertWithLockHold(list, again))
    BY <2>4, InsertKeepsOrder
  <2>7. RestartOne(since, list, timer) \in D
    BY <2>5, <2>6 DEF InOrderOfLeft
  <2> QED
    BY <2>1, <2>7
<1>4. Len(expired) \in Nat /\ DOMAIN expired = 1..Len(expired)
  OBVIOUS
<1>5. Rearming!Folded(since, timers, expired) \in D
  <2> HIDE DEF D
  <2> QED
    BY <1>2, <1>3, <1>4, Rearming!FoldStaysIn
<1> QED
  BY <1>1, <1>5

-----------------------------------------------------------------------------
(* The timers of a loop                                                     *)

Moment == Nat \cup {Unset}

TimersOK ==
    /\ InOrderOfLeft(timers) /\ expired \in Seq(TimerRecord)
    /\ timerfd \in [left : Moment, readable : BOOLEAN]
    /\ handling \in {"idle", "read", "run", "reset", "ended"}
    /\ since \in Nat /\ nextExpire \in Moment
    /\ setting \in [Other \cup {Loop} -> Moment] /\ shared \subseteq Other

\* A callback schedules while the timers run, and others only if they may; once the
\* loop has ended there are no timers.
Setters ==
    /\ setting[Loop] # Unset => handling = "run"
    /\ \A p \in Other : setting[p] # Unset => p \in shared
    /\ handling = "reset" => nextExpire # Unset
    /\ handling = "ended" => timers = <<>>

\* Somebody will set the timerfd, or it is set.
Watched == timers # <<>> /\ ~Busy => timerfd.readable \/ timerfd.left # Unset

\* It is set, or about to be, for no later than the first timer.
InTime ==
    shared = {} /\ timers # <<>> =>
        /\ handling = "idle" => timerfd.readable \/ timerfd.left <= timers[1].left
        /\ handling = "reset" => nextExpire <= timers[1].left

TimersInv == TimersOK /\ Setters /\ Watched /\ InTime

LEMMA NotEmpty ==
    ASSUME NEW list, InOrderOfLeft(list), list # <<>>
    PROVE  Len(list) \in Nat \ {0} /\ list[1] \in TimerRecord /\ list[1].left \in Nat /\ 1 \in 1..Len(list)
<1>1. list \in Seq(TimerRecord) /\ Len(list) # 0
  BY DEF InOrderOfLeft
<1>2. 1 \in 1..Len(list) /\ Len(list) \in Nat
  BY <1>1
<1> QED
  BY <1>1, <1>2, LeftIsNat

LEMMA TimersInitOK == TimersInit => TimersInv
<1>1. SUFFICES ASSUME TimersInit PROVE TimersInv
  OBVIOUS
<1>2. timers = <<>> /\ InOrderOfLeft(timers) /\ expired \in Seq(TimerRecord)
  BY <1>1 DEF TimersInit, InOrderOfLeft
<1>3. TimersOK
  BY <1>1, <1>2 DEF TimersInit, TimersOK, Moment
<1>4. Setters
  BY <1>1, TimerAssumption DEF TimersInit, Setters
<1> QED
  BY <1>2, <1>3, <1>4 DEF TimersInv, Watched, InTime

LEMMA ScheduleKeeps ==
    ASSUME TimersInv, NEW p \in DOMAIN setting, Schedule(p)
    PROVE  TimersInv'
<1>1. PICK t \in Timer, left \in 1..MaxDelay, interval \in Nat :
         /\ timers' = InsertWithLockHold(timers, [id |-> t, left |-> left, interval |-> interval])
         /\ setting' = [setting EXCEPT ![p] =
               IF EarliestChanged(timers, [id |-> t, left |-> left, interval |-> interval])
               THEN left ELSE Unset]
  <2>1. \A left \in 1..MaxDelay : \A interval \in {0, left} : interval \in Nat
    BY TimerAssumption
  <2> QED
    BY <2>1 DEF Schedule
<1>2. PICK timer : timer = [id |-> t, left |-> left, interval |-> interval]
  OBVIOUS
<1>3. left \in Nat /\ left # Unset /\ timer \in TimerRecord
  BY <1>2, TimerAssumption DEF Unset, TimerRecord
<1>4. InOrderOfLeft(timers') /\ timers' # <<>>
  BY <1>1, <1>2, <1>3, InsertKeepsOrder DEF TimersInv, TimersOK
<1>5. PICK s : s = IF EarliestChanged(timers, timer) THEN left ELSE Unset
  OBVIOUS
<1>6. setting' = [setting EXCEPT ![p] = s] /\ s \in Moment
  BY <1>1, <1>2, <1>3, <1>5 DEF Moment
<1>7. /\ UNCHANGED <<timerfd, handling, expired, ran, since, nextExpire, shared>>
      /\ IF p = Loop THEN handling = "run" ELSE p \in shared /\ handling # "ended"
      /\ setting[p] = Unset
  BY DEF Schedule
<1>8. setting \in [Other \cup {Loop} -> Moment] /\ p \in Other \cup {Loop}
  BY DEF TimersInv, TimersOK
<1>9. /\ setting' \in [Other \cup {Loop} -> Moment] /\ setting'[p] = s
      /\ \A q \in Other \cup {Loop} : q # p => setting'[q] = setting[q]
  BY <1>6, <1>8
<1>10. TimersOK'
  BY <1>4, <1>7, <1>9 DEF TimersInv, TimersOK
<1>11. Setters'
  BY <1>7, <1>9, TimerAssumption DEF TimersInv, Setters
<1>12. Watched'
  <2>1. CASE EarliestChanged(timers, timer)
    <3>1. setting'[p] # Unset /\ p \in DOMAIN setting'
      BY <1>3, <1>5, <1>8, <1>9, <2>1
    <3> QED
      BY <3>1 DEF Watched, Busy
  <2>2. CASE ~EarliestChanged(timers, timer)
    <3>1. timers # <<>>
      BY <2>2 DEF EarliestChanged
    <3>2. setting' = setting
      BY <1>5, <1>6, <1>7, <1>8, <2>2
    <3> QED
      BY <1>7, <3>1, <3>2 DEF TimersInv, Watched, Busy
  <2> QED
    BY <2>1, <2>2
<1>13. InTime'
  BY <1>7, TimerAssumption DEF TimersInv, InTime
<1> QED
  BY <1>10, <1>11, <1>12, <1>13 DEF TimersInv

LEMMA FinishScheduleKeeps ==
    ASSUME TimersInv, NEW p \in DOMAIN setting, FinishSchedule(p)
    PROVE  TimersInv'
<1>1. PICK s : s = setting[p]
  OBVIOUS
<1>2. /\ s # Unset /\ handling # "ended" /\ timerfd' = [left |-> s, readable |-> FALSE]
      /\ setting' = [setting EXCEPT ![p] = Unset]
      /\ UNCHANGED <<timers, handling, expired, ran, since, nextExpire, shared>>
  BY <1>1 DEF FinishSchedule, ResetTimerfd
<1>3. setting \in [Other \cup {Loop} -> Moment] /\ p \in Other \cup {Loop} /\ s \in Moment
  BY <1>1 DEF TimersInv, TimersOK
<1>4. /\ setting' \in [Other \cup {Loop} -> Moment] /\ setting'[p] = Unset
      /\ \A q \in Other \cup {Loop} : q # p => setting'[q] = setting[q]
  BY <1>2, <1>3 DEF Moment
<1>5. timerfd' \in [left : Moment, readable : BOOLEAN] /\ timerfd'.left = s
  BY <1>2, <1>3
<1>6. TimersOK'
  BY <1>2, <1>4, <1>5 DEF TimersInv, TimersOK
<1>7. Setters'
  BY <1>2, <1>4 DEF TimersInv, Setters
<1>8. Watched'
  BY <1>2, <1>5 DEF Watched
<1>9. InTime'
  BY <1>1, <1>2, <1>3 DEF TimersInv, Setters, InTime
<1> QED
  BY <1>6, <1>7, <1>8, <1>9 DEF TimersInv

LEMMA ScheduleFirstKeeps == TimersInv /\ ScheduleFirst => TimersInv'
<1>1. SUFFICES ASSUME TimersInv, ScheduleFirst PROVE TimersInv'
  OBVIOUS
<1>2. PICK t \in Timer, left \in 1..MaxDelay :
         /\ timers' = <<[id |-> t, left |-> left, interval |-> left]>>
         /\ timerfd' = [left |-> left, readable |-> FALSE]
  BY <1>1 DEF ScheduleFirst, ResetTimerfd
<1>3. PICK timer : timer = [id |-> t, left |-> left, interval |-> left]
  OBVIOUS
<1>4. left \in Nat /\ left # Unset /\ timer \in TimerRecord /\ timer.left = left
  BY <1>3, TimerAssumption DEF Unset, TimerRecord
<1>5. timers' = <<timer>> /\ InOrderOfLeft(<<timer>>)
  BY <1>2, <1>3, <1>4 DEF InOrderOfLeft
<1>6. handling = "idle" /\ UNCHANGED <<handling, expired, ran, since, nextExpire, setting, shared>>
  BY <1>1 DEF ScheduleFirst
<1>7. timerfd' \in [left : Moment, readable : BOOLEAN] /\ timerfd'.left = left /\ timers'[1].left = left
  BY <1>2, <1>4, <1>5 DEF Moment
<1>8. TimersOK'
  BY <1>1, <1>5, <1>6, <1>7 DEF TimersInv, TimersOK
<1>9. Setters'
  BY <1>1, <1>6 DEF TimersInv, Setters
<1>10. Watched' /\ InTime'
  BY <1>4, <1>6, <1>7 DEF Watched, InTime
<1> QED
  BY <1>8, <1>9, <1>10 DEF TimersInv

LEMMA WakeKeeps == TimersInv /\ Wake => TimersInv'
BY DEF TimersInv, TimersOK, Setters, Watched, InTime, Wake, Busy

LEMMA TakeExpiredKeeps == TimersInv /\ TakeExpired => TimersInv'
<1>1. SUFFICES ASSUME TimersInv, TakeExpired PROVE TimersInv'
  OBVIOUS
<1>2. InOrderOfLeft(timers)
  BY <1>1 DEF TimersInv, TimersOK
<1>3. InOrderOfLeft(timers') /\ expired' \in Seq(TimerRecord)
  <2>1. PICK n : n = Due
    OBVIOUS
  <2>2. n \in 0..Len(timers)
    BY <1>2, <2>1, DueIs
  <2>3. InOrderOfLeft(SubSeq(timers, n + 1, Len(timers))) /\ SubSeq(timers, 1, n) \in Seq(TimerRecord)
    BY <1>2, <2>2, RestOfOrder
  <2>4. expired' = SubSeq(timers, 1, n) /\ timers' = SubSeq(timers, n + 1, Len(timers))
    BY <1>1, <2>1, Zenon DEF TakeExpired
  <2> QED
    BY <2>3, <2>4
<1>4. /\ timerfd' = [timerfd EXCEPT !.readable = FALSE] /\ handling = "read" /\ handling' = "run"
      /\ since' = 0 /\ UNCHANGED <<nextExpire, setting, shared>>
  BY <1>1 DEF TakeExpired
<1>5. timerfd' \in [left : Moment, readable : BOOLEAN]
  BY <1>1, <1>4 DEF TimersInv, TimersOK
<1>6. TimersOK'
  BY <1>1, <1>3, <1>4, <1>5 DEF TimersInv, TimersOK
<1>7. Setters' /\ Watched' /\ InTime'
  BY <1>1, <1>4 DEF TimersInv, Setters, Watched, InTime, Busy
<1> QED
  BY <1>6, <1>7 DEF TimersInv

LEMMA RunTimerKeeps == TimersInv /\ RunTimer => TimersInv'
BY DEF TimersInv, TimersOK, Setters, Watched, InTime, RunTimer, Busy

LEMMA RearmKeeps == TimersInv /\ Rearm => TimersInv'
<1>1. SUFFICES ASSUME TimersInv, Rearm PROVE TimersInv'
  OBVIOUS
<1>2. /\ timers' = FoldLeft(RestartOrDelete, timers, expired)
      /\ nextExpire' = (IF timers' = <<>> THEN Unset ELSE timers'[1].left)
      /\ expired' = <<>> /\ handling = "run" /\ setting[Loop] = Unset
      /\ handling' = (IF nextExpire' = Unset THEN "idle" ELSE "reset")
      /\ UNCHANGED <<timerfd, since, setting, shared>>
  BY <1>1 DEF Rearm, NextExpire
<1>3. InOrderOfLeft(timers')
  BY <1>1, <1>2, RearmKeepsOrder DEF TimersInv, TimersOK
<1>4. timers' # <<>> => nextExpire' \in Nat /\ nextExpire' = timers'[1].left /\ handling' = "reset"
  BY <1>2, <1>3, NotEmpty DEF Unset
<1>5. timers' = <<>> => nextExpire' = Unset /\ handling' = "idle"
  BY <1>2
<1>6. expired' \in Seq(TimerRecord)
  BY <1>2
<1>7. TimersOK'
  BY <1>1, <1>2, <1>3, <1>4, <1>5, <1>6 DEF TimersInv, TimersOK, Moment
<1>8. Setters'
  BY <1>1, <1>2, <1>4, <1>5 DEF TimersInv, Setters, Unset
<1>9. Watched'
  BY <1>4 DEF Watched, Busy
<1>10. InTime'
  BY <1>4 DEF InTime
<1> QED
  BY <1>7, <1>8, <1>9, <1>10 DEF TimersInv

LEMMA ResetForNextKeeps == TimersInv /\ ResetForNext => TimersInv'
<1>1. SUFFICES ASSUME TimersInv, ResetForNext PROVE TimersInv'
  OBVIOUS
<1>2. /\ handling = "reset" /\ handling' = "idle" /\ nextExpire' = Unset /\ since' = 0
      /\ timerfd' = [left |-> nextExpire, readable |-> FALSE]
      /\ UNCHANGED <<timers, expired, ran, setting, shared>>
  BY <1>1 DEF ResetForNext, ResetTimerfd
<1>3. timerfd' \in [left : Moment, readable : BOOLEAN] /\ timerfd'.left = nextExpire /\ nextExpire # Unset
  BY <1>1, <1>2 DEF TimersInv, TimersOK, Setters
<1>4. TimersOK'
  BY <1>1, <1>2, <1>3 DEF TimersInv, TimersOK, Moment
<1>5. Setters'
  BY <1>1, <1>2 DEF TimersInv, Setters
<1>6. Watched'
  BY <1>2, <1>3 DEF Watched
<1>7. InTime'
  BY <1>1, <1>2, <1>3 DEF TimersInv, InTime
<1> QED
  BY <1>4, <1>5, <1>6, <1>7 DEF TimersInv

LEMMA StopTimersKeeps == TimersInv /\ StopTimers => TimersInv'
<1>1. SUFFICES ASSUME TimersInv, StopTimers PROVE TimersInv'
  OBVIOUS
<1>2. timers' = <<>> /\ InOrderOfLeft(<<>>)
  BY <1>1 DEF StopTimers, InOrderOfLeft
<1>3. handling = "idle" /\ handling' = "ended"
      /\ UNCHANGED <<timerfd, expired, ran, since, nextExpire, setting, shared>>
  BY <1>1 DEF StopTimers
<1> QED
  BY <1>1, <1>2, <1>3 DEF TimersInv, TimersOK, Setters, Watched, InTime

LEMMA ExpireKeeps == TimersInv /\ Expire => TimersInv'
<1>1. SUFFICES ASSUME TimersInv, Expire PROVE TimersInv'
  OBVIOUS
<1>2. timerfd' = [left |-> Unset, readable |-> TRUE]
      /\ UNCHANGED <<timers, handling, expired, ran, since, nextExpire, setting, shared>>
  BY <1>1 DEF Expire
<1>3. timerfd' \in [left : Moment, readable : BOOLEAN] /\ timerfd'.readable
  BY <1>2 DEF Moment
<1> QED
  BY <1>1, <1>2, <1>3 DEF TimersInv, TimersOK, Setters, Watched, InTime

LEMMA NearerIs ==
    /\ \A n \in Moment : Nearer(n) \in Moment /\ (Nearer(n) = Unset <=> n = Unset)
    /\ \A n \in Nat : Nearer(n) \in Nat
    /\ \A m, n \in Moment : m <= n => Nearer(m) <= Nearer(n)
BY DEF Moment, Unset, Nearer

LEMMA TimePassesKeeps == TimersInv /\ TimePasses => TimersInv'
<1>1. SUFFICES ASSUME TimersInv, TimePasses PROVE TimersInv'
  OBVIOUS
<1>2. /\ timers' = [i \in DOMAIN timers |-> [timers[i] EXCEPT !.left = Nearer(timers[i].left)]]
      /\ timerfd' = [timerfd EXCEPT !.left = Nearer(timerfd.left)]
      /\ nextExpire' = Nearer(nextExpire)
      /\ setting' = [p \in DOMAIN setting |-> Nearer(setting[p])]
      /\ since' \in {since, since + 1}
      /\ UNCHANGED <<handling, expired, ran, shared>>
  BY <1>1 DEF TimePasses
<1>3. /\ Len(timers) \in Nat /\ DOMAIN timers = 1..Len(timers) /\ timers \in Seq(TimerRecord)
      /\ \A i \in 1..Len(timers) : timers[i] \in TimerRecord /\ timers[i].left \in Nat
      /\ \A i, j \in 1..Len(timers) : i < j => timers[i].left <= timers[j].left
  BY <1>1, LeftIsNat DEF TimersInv, TimersOK, InOrderOfLeft
<1>4. /\ \A i \in 1..Len(timers) :
            timers'[i] \in TimerRecord /\ timers'[i].left = Nearer(timers[i].left)
      /\ timers' \in Seq(TimerRecord) /\ Len(timers') = Len(timers)
  <2>1. ASSUME NEW i \in 1..Len(timers)
        PROVE  timers'[i] \in TimerRecord /\ timers'[i].left = Nearer(timers[i].left)
    <3>1. Nearer(timers[i].left) \in Nat
      BY <1>3, NearerIs
    <3> QED
      BY <1>2, <1>3, <3>1 DEF TimerRecord
  <2>2. timers' = [i \in 1..Len(timers) |-> timers'[i]]
    BY <1>2, <1>3
  <2>3. timers' \in Seq(TimerRecord) /\ Len(timers') = Len(timers)
    BY <1>3, <2>1, <2>2
  <2> QED
    BY <2>1, <2>3
<1>5. InOrderOfLeft(timers')
  <2>1. ASSUME NEW i \in 1..Len(timers'), NEW j \in 1..Len(timers'), i < j
        PROVE  timers'[i].left <= timers'[j].left
    <3>1. timers[i].left <= timers[j].left /\ timers[i].left \in Moment /\ timers[j].left \in Moment
      BY <1>3, <1>4, <2>1 DEF Moment
    <3> QED
      BY <1>4, <3>1, NearerIs
  <2> QED
    BY <1>4, <2>1 DEF InOrderOfLeft
<1>6. /\ timerfd \in [left : Moment, readable : BOOLEAN] /\ nextExpire \in Moment
      /\ setting \in [Other \cup {Loop} -> Moment] /\ since \in Nat
  BY <1>1 DEF TimersInv, TimersOK
<1>7. /\ timerfd' \in [left : Moment, readable : BOOLEAN]
      /\ timerfd'.left = Nearer(timerfd.left) /\ timerfd'.readable = timerfd.readable
      /\ Nearer(timerfd.left) \in Moment
  BY <1>2, <1>6, NearerIs
<1>8. /\ setting' \in [Other \cup {Loop} -> Moment] /\ since' \in Nat /\ nextExpire' \in Moment
      /\ \A p \in Other \cup {Loop} : setting'[p] = Unset <=> setting[p] = Unset
      /\ nextExpire' = Unset <=> nextExpire = Unset
  BY <1>2, <1>6, NearerIs
<1>9. timers' = <<>> <=> timers = <<>>
  BY <1>3, <1>4
<1>10. TimersOK'
  BY <1>1, <1>2, <1>5, <1>7, <1>8 DEF TimersInv, TimersOK
<1>11. Setters'
  BY <1>1, <1>2, <1>8, <1>9 DEF TimersInv, Setters
<1>12. Watched'
  <2>1. timerfd'.left = Unset <=> timerfd.left = Unset
    BY <1>6, <1>7, NearerIs
  <2>2. DOMAIN setting = Other \cup {Loop} /\ DOMAIN setting' = Other \cup {Loop}
    BY <1>6, <1>8
  <2>3. Busy' <=> Busy
    BY <1>2, <1>8, <2>2 DEF Busy
  <2> QED
    BY <1>1, <1>7, <1>9, <2>1, <2>3 DEF TimersInv, Watched
<1>13. InTime'
  <2>1. SUFFICES ASSUME shared = {}, timers # <<>>
                 PROVE  /\ handling = "idle" => timerfd.readable \/ timerfd'.left <= timers'[1].left
                        /\ handling = "reset" => nextExpire' <= timers'[1].left
    BY <1>2, <1>7, <1>9 DEF InTime
  <2>2. timers[1].left \in Moment /\ timers'[1].left = Nearer(timers[1].left)
    <3>1. 1 \in 1..Len(timers)
      BY <1>1, <2>1, NotEmpty DEF TimersInv, TimersOK
    <3> QED
      BY <1>3, <1>4, <3>1 DEF Moment
  <2>3. timerfd.left \in Moment
    BY <1>6
  <2>4. /\ handling = "idle" => timerfd.readable \/ timerfd.left <= timers[1].left
        /\ handling = "reset" => nextExpire <= timers[1].left
    BY <1>1, <2>1 DEF TimersInv, InTime
  <2> QED
    BY <1>2, <1>6, <1>7, <2>2, <2>3, <2>4, NearerIs
<1> QED
  BY <1>10, <1>11, <1>12, <1>13 DEF TimersInv

LEMMA TimersStep == TimersInv /\ [TimersNext]_timerVars => TimersInv'
<1>1. SUFFICES ASSUME TimersInv, [TimersNext]_timerVars PROVE TimersInv'
  OBVIOUS
<1>2. ASSUME NEW p \in DOMAIN setting, Schedule(p) \/ FinishSchedule(p) PROVE TimersInv'
  BY <1>1, <1>2, ScheduleKeeps, FinishScheduleKeeps
<1>3. CASE ScheduleFirst \/ Wake \/ TakeExpired \/ RunTimer \/ Rearm \/ ResetForNext
  BY <1>1, <1>3, ScheduleFirstKeeps, WakeKeeps, TakeExpiredKeeps, RunTimerKeeps, RearmKeeps,
     ResetForNextKeeps
<1>4. CASE StopTimers \/ Expire \/ TimePasses
  BY <1>1, <1>4, StopTimersKeeps, ExpireKeeps, TimePassesKeeps
<1>5. CASE UNCHANGED timerVars
  BY <1>1, <1>5 DEF timerVars, TimersInv, TimersOK, Setters, Watched, InTime, Busy
<1> QED
  BY <1>1, <1>2, <1>3, <1>4, <1>5 DEF TimersNext

LEMMA TimersInvWatches == TimersInv => TimersWatched
<1>1. SUFFICES ASSUME TimersInv PROVE TimersWatched
  OBVIOUS
<1>2. \A i, j \in DOMAIN timers : i < j => timers[i].left <= timers[j].left
  <2>1. DOMAIN timers = 1..Len(timers)
    BY <1>1, LeftIsNat DEF TimersInv, TimersOK
  <2> QED
    BY <1>1, <2>1 DEF TimersInv, TimersOK, InOrderOfLeft
<1>3. timers # <<>> /\ ~Busy => handling = "idle"
  BY <1>1 DEF TimersInv, TimersOK, Setters, Busy
<1> QED
  BY <1>1, <1>2, <1>3 DEF TimersInv, Watched, InTime, TimersWatched

\* Between the callbacks of a loop its timers are in order, and a timer that waits is
\* waited for by the timerfd, for no later than the first one if only callbacks
\* schedule: for any number of timers, threads and delays.
THEOREM TimersAreWatched == TimersSpec => []TimersWatched
<1> QED
  BY TimersInitOK, TimersStep, TimersInvWatches, PTL DEF TimersSpec
=============================================================================
