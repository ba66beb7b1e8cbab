---------------------------- MODULE QueueProofs ----------------------------
(***************************************************************************)
(* Theorems about the two queues between threads, for any number of        *)
(* threads, items and chunks: the blocking queue hands over every item in  *)
(* the order it was put, and the lock-free pipe what was flushed.          *)
(***************************************************************************)
EXTENDS BlockingQueue, YPipe, TLAPS

-----------------------------------------------------------------------------
(* The blocking queue: its inductive invariant                              *)

Item == [by : Putter, n : Nat]
InLock == {"put", "leave", "putStop", "leaveStop"}
InTake == {"look", "pop", "leave"}

QueueOK ==
    /\ mutex \in Putter \cup {Taker, Free}
    /\ deque \in Seq(Item) /\ taken \in Seq(Item)
    /\ cond \in {"not", "waits", "woken"}
    /\ DOMAIN doing = Putter \cup {Taker}
    /\ \A p \in Putter : doing[p] \in InLock \cup {"out", "join", "done"}
    /\ doing[Taker] \in InTake \cup {"out", "take", "asleep", "done"}
    /\ nputs \in [Putter -> Nat]
    /\ thread \in {"new", "started", "running", "finished", "joined"}

\* Whoever is inside put or take holds the mutex, so the queue that the taking
\* thread has looked at is the one it pops from.
Exclusive ==
    /\ \A p \in Putter : doing[p] \in InLock => mutex = p
    /\ doing[Taker] \in InTake => mutex = Taker
    /\ doing[Taker] = "pop" => deque # <<>>
    /\ doing[Taker] = "leave" => taken # <<>>

\* A thread that waits sleeps over an empty queue.
NoLostWake ==
    /\ cond # "not" => doing[Taker] = "asleep"
    /\ cond = "waits" => deque = <<>>

\* The life of the taking thread, and of the one that stops it.
Lives ==
    /\ \A p \in Putter : doing[p] \in {"putStop", "leaveStop", "join", "done"} => p = Starter
    /\ thread \in {"new", "started"} <=> doing[Taker] = "out"
    /\ thread \in {"finished", "joined"} => doing[Taker] = "done"
    /\ doing[Taker] = "done" => taken # <<>> /\ taken[Len(taken)] = StopItem
    /\ \A i \in DOMAIN (taken \o deque) :
           (taken \o deque)[i].n = 0 => doing[Starter] \in {"leaveStop", "join", "done"}

\* STOP is the starter's, and its last: nothing of it comes after.
StopIsLast(s) ==
    /\ \A i \in DOMAIN s : s[i].n = 0 => s[i].by = Starter
    /\ \A i, j \in DOMAIN s : i < j /\ s[i].n = 0 => s[j].by # Starter

QueueInv ==
    QueueOK /\ Exclusive /\ NoLostWake /\ Lives /\ AllInOrder(taken \o deque) /\ StopIsLast(taken \o deque)

-----------------------------------------------------------------------------
(* Operators                                                                *)

\* A put adds at the end of what was taken and what waits, a take leaves it.
LEMMA HandedSeq ==
    ASSUME NEW S, NEW s \in Seq(S), NEW q \in Seq(S)
    PROVE  /\ s \o q \in Seq(S) /\ Len(s \o q) = Len(s) + Len(q)
           /\ \A i \in 1 .. Len(s) : (s \o q)[i] = s[i]
           /\ \A i \in 1 .. Len(q) : (s \o q)[Len(s) + i] = q[i]
           /\ \A m \in S : s \o Append(q, m) = Append(s \o q, m)
           /\ q # <<>> => Append(s, Head(q)) \o Tail(q) = s \o q
<1>1. /\ s \o q \in Seq(S) /\ Len(s \o q) = Len(s) + Len(q)
      /\ \A i \in 1 .. Len(s) : (s \o q)[i] = s[i]
      /\ \A i \in 1 .. Len(q) : (s \o q)[Len(s) + i] = q[i]
  OBVIOUS
<1>2. ASSUME NEW m \in S PROVE s \o Append(q, m) = Append(s \o q, m)
  OBVIOUS
<1>3. ASSUME q # <<>> PROVE Append(s, Head(q)) \o Tail(q) = s \o q
  BY <1>3
<1> QED
  BY <1>1, <1>2, <1>3

-----------------------------------------------------------------------------
(* The invariant is inductive                                               *)

LEMMA InitQueue == QueueInit => QueueInv
<1> SUFFICES ASSUME QueueInit PROVE QueueInv
  OBVIOUS
<1>1. taken \in Seq(Item) /\ deque \in Seq(Item) /\ taken \o deque = <<>>
  BY DEF QueueInit
<1>2. QueueOK
  BY <1>1 DEF QueueInit, QueueOK
<1>3. Exclusive /\ NoLostWake
  BY QueueAssumption DEF QueueInit, Exclusive, NoLostWake, InLock, InTake
<1>4. Lives
  BY <1>1, QueueAssumption DEF QueueInit, Lives
<1>5. AllInOrder(taken \o deque) /\ StopIsLast(taken \o deque)
  BY <1>1 DEF QueueInit, AllInOrder, StopIsLast
<1> QED
  BY <1>2, <1>3, <1>4, <1>5 DEF QueueInv

\* What a step that moves no item has to keep.
LEMMA QueueFrame ==
    ASSUME QueueInv, UNCHANGED <<deque, taken, nputs>>,
           doing[Starter] \in {"leaveStop", "join", "done"} =>
               doing'[Starter] \in {"leaveStop", "join", "done"}
    PROVE  /\ (AllInOrder(taken \o deque))' /\ (StopIsLast(taken \o deque))'
           /\ deque' \in Seq(Item) /\ taken' \in Seq(Item) /\ nputs' \in [Putter -> Nat]
           /\ \A i \in DOMAIN (taken' \o deque') :
                  (taken' \o deque')[i].n = 0 => doing'[Starter] \in {"leaveStop", "join", "done"}
<1>1. taken' = taken /\ deque' = deque /\ nputs' = nputs
  OBVIOUS
<1>2. AllInOrder(taken \o deque) /\ StopIsLast(taken \o deque)
  BY DEF QueueInv
<1>3. (AllInOrder(taken \o deque))'
  BY <1>1, <1>2 DEF AllInOrder
<1>4. (StopIsLast(taken \o deque))'
  BY <1>1, <1>2 DEF StopIsLast
<1>5. deque' \in Seq(Item) /\ taken' \in Seq(Item) /\ nputs' \in [Putter -> Nat]
  BY <1>1 DEF QueueInv, QueueOK
<1>6. \A i \in DOMAIN (taken \o deque) :
           (taken \o deque)[i].n = 0 => doing[Starter] \in {"leaveStop", "join", "done"}
  BY DEF QueueInv, Lives
<1> QED
  BY <1>1, <1>3, <1>4, <1>5, <1>6

\* What one thread does leaves where the others are.
LEMMA DoingMoves ==
    ASSUME QueueOK, NEW p \in Putter \cup {Taker}, NEW x, doing' = [doing EXCEPT ![p] = x]
    PROVE  /\ DOMAIN doing' = Putter \cup {Taker} /\ doing'[p] = x
           /\ \A q \in Putter \cup {Taker} : q # p => doing'[q] = doing[q]
BY DEF QueueOK

\* An item put behind the others.
LEMMA PutKeeps ==
    ASSUME QueueInv, NEW m \in Item, deque' = Append(deque, m), taken' = taken,
           nputs' \in [Putter -> Nat], \A q \in Putter : q # m.by => nputs'[q] = nputs[q],
           IF m.n = 0 THEN nputs'[m.by] = nputs[m.by]
                      ELSE nputs'[m.by] = nputs[m.by] + 1 /\ m.n = nputs'[m.by],
           m.n = 0 => m.by = Starter,
           m.by = Starter => doing[Starter] \notin {"leaveStop", "join", "done"}
    PROVE  /\ deque' \in Seq(Item) /\ deque' # <<>>
           /\ (AllInOrder(taken \o deque))' /\ (StopIsLast(taken \o deque))'
           /\ \A i \in DOMAIN (taken' \o deque') :
                  (taken' \o deque')[i].n = 0 =>
                      m.n = 0 \/ doing[Starter] \in {"leaveStop", "join", "done"}
<1> DEFINE s == taken \o deque
           z == Append(s, m)
<1>1. taken \in Seq(Item) /\ deque \in Seq(Item) /\ s \in Seq(Item) /\ nputs \in [Putter -> Nat]
  BY HandedSeq DEF QueueInv, QueueOK
<1>2. deque' \in Seq(Item) /\ deque' # <<>> /\ taken' \o deque' = z
  BY <1>1, HandedSeq
<1>3. /\ Len(s) \in Nat /\ DOMAIN s = 1 .. Len(s) /\ DOMAIN z = 1 .. Len(s) + 1
      /\ \A i \in 1 .. Len(s) : z[i] = s[i] /\ s[i] \in Item
      /\ z[Len(s) + 1] = m
  BY <1>1
<1>4. m.by \in Putter /\ m.n \in Nat /\ \A x \in Item : x.by \in Putter /\ x.n \in Nat
  BY DEF Item
<1>5. AllInOrder(s) /\ StopIsLast(s)
  BY DEF QueueInv
<1>6. \A i \in DOMAIN s : s[i].n = 0 => doing[Starter] \in {"leaveStop", "join", "done"}
  BY DEF QueueInv, Lives
<1> HIDE DEF s, z
<1>7. \A i \in DOMAIN s : s[i].by \in Putter /\ s[i].n \in Nat /\ s[i].n <= nputs[s[i].by]
                          /\ nputs[s[i].by] \in Nat /\ nputs[s[i].by] <= nputs'[s[i].by]
                          /\ nputs'[s[i].by] \in Nat
  <2> SUFFICES ASSUME NEW i \in DOMAIN s
               PROVE  s[i].by \in Putter /\ s[i].n \in Nat /\ s[i].n <= nputs[s[i].by]
                      /\ nputs[s[i].by] \in Nat /\ nputs[s[i].by] <= nputs'[s[i].by]
                      /\ nputs'[s[i].by] \in Nat
    OBVIOUS
  <2>1. s[i].by \in Putter /\ s[i].n \in Nat /\ s[i].n <= nputs[s[i].by]
    BY <1>3, <1>4, <1>5 DEF AllInOrder
  <2>2. \A p \in Putter : nputs[p] \in Nat /\ nputs'[p] \in Nat /\ nputs[p] <= nputs'[p]
    <3>1. \A p \in Putter : nputs[p] \in Nat /\ nputs'[p] \in Nat
      BY <1>1
    <3>2. nputs'[m.by] = nputs[m.by] \/ nputs'[m.by] = nputs[m.by] + 1
      OBVIOUS
    <3> QED
      BY <1>4, <3>1, <3>2
  <2> QED
    BY <2>1, <2>2
<1>8. \A i \in DOMAIN z : z[i].by \in Putter /\ z[i].n <= nputs'[z[i].by]
  <2> SUFFICES ASSUME NEW i \in DOMAIN z PROVE z[i].by \in Putter /\ z[i].n <= nputs'[z[i].by]
    OBVIOUS
  <2>1. CASE i \in DOMAIN s
    BY <1>3, <1>7, <2>1
  <2>2. CASE i = Len(s) + 1
    BY <1>1, <1>3, <1>4, <2>2
  <2> QED
    BY <1>3, <2>1, <2>2
<1>9. ASSUME NEW p \in Putter, NEW n \in 1 .. nputs'[p]
      PROVE  \E i \in DOMAIN z : z[i] = [by |-> p, n |-> n]
  <2>1. CASE n \in 1 .. nputs[p]
    <3>1. PICK i \in DOMAIN s : s[i] = [by |-> p, n |-> n]
      BY <1>5, <2>1 DEF AllInOrder
    <3> QED
      BY <1>3, <3>1
  <2>2. CASE n \notin 1 .. nputs[p]
    <3>1. p = m.by /\ n = nputs'[m.by] /\ m.n # 0
      BY <1>1, <1>4, <2>2
    <3>2. m = [by |-> p, n |-> n]
      BY <3>1 DEF Item
    <3> QED
      BY <1>3, <3>2
  <2> QED
    BY <2>1, <2>2
<1>10. ASSUME NEW i \in DOMAIN z, NEW j \in DOMAIN z, i < j
       PROVE  /\ z[i].by = z[j].by /\ z[j].n > 0 => z[i].n < z[j].n
              /\ z[i].n = 0 => z[j].by # Starter
  <2>0. i \in DOMAIN s /\ z[i] = s[i]
    BY <1>3, <1>10
  <2>1. CASE j \in DOMAIN s
    BY <1>3, <1>5, <1>10, <2>0, <2>1 DEF AllInOrder, StopIsLast
  <2>2. CASE j = Len(s) + 1
    <3>1. z[j] = m
      BY <1>3, <2>2
    <3>2. ASSUME z[i].by = m.by, m.n > 0 PROVE z[i].n < m.n
      BY <1>1, <1>4, <1>7, <2>0, <3>2
    <3>3. z[i].n = 0 => m.by # Starter
      BY <1>6, <2>0
    <3> QED
      BY <3>1, <3>2, <3>3
  <2> QED
    BY <1>3, <2>1, <2>2
<1>11. \A i \in DOMAIN z : z[i].n = 0 => z[i].by = Starter
  BY <1>3, <1>5 DEF StopIsLast
<1>12. \A i \in DOMAIN z : z[i].n = 0 => m.n = 0 \/ doing[Starter] \in {"leaveStop", "join", "done"}
  BY <1>3, <1>6
<1>13. (AllInOrder(taken \o deque))'
  <2>1. \A p \in Putter : \A n \in 1 .. nputs'[p] : \E i \in DOMAIN z : z[i] = [by |-> p, n |-> n]
    BY <1>9
  <2>2. \A i, j \in DOMAIN z : i < j /\ z[i].by = z[j].by /\ z[j].n > 0 => z[i].n < z[j].n
    BY <1>10
  <2> QED
    BY <1>2, <1>8, <2>1, <2>2 DEF AllInOrder
<1>14. (StopIsLast(taken \o deque))'
  <2>1. \A i, j \in DOMAIN z : i < j /\ z[i].n = 0 => z[j].by # Starter
    BY <1>10
  <2> QED
    BY <1>2, <1>11, <2>1 DEF StopIsLast
<1> QED
  BY <1>2, <1>12, <1>13, <1>14

\* After STOP was taken nothing of the starter waits.
LEMMA NothingBehindStop ==
    ASSUME QueueInv, taken # <<>>, taken[Len(taken)] = StopItem
    PROVE  \A i \in DOMAIN deque : deque[i].by # Starter
<1> DEFINE s == taken \o deque
<1>1. taken \in Seq(Item) /\ deque \in Seq(Item) /\ s \in Seq(Item) /\ StopIsLast(s)
  BY HandedSeq DEF QueueInv, QueueOK
<1>2. /\ Len(taken) \in 1 .. Len(taken) /\ DOMAIN deque = 1 .. Len(deque)
      /\ DOMAIN s = 1 .. Len(taken) + Len(deque)
  BY <1>1, HandedSeq
<1>3. s[Len(taken)] = StopItem /\ \A i \in DOMAIN deque : s[Len(taken) + i] = deque[i]
  BY <1>1, <1>2, HandedSeq
<1> HIDE DEF s
<1>4. \A i \in DOMAIN deque : Len(taken) \in DOMAIN s /\ Len(taken) + i \in DOMAIN s /\ Len(taken) < Len(taken) + i
  BY <1>1, <1>2
<1>5. StopItem.n = 0
  BY DEF StopItem
<1> QED
  BY <1>1, <1>3, <1>4, <1>5 DEF StopIsLast

LEMMA StepQueue == QueueInv /\ [QueueNext]_queueVars => QueueInv'
<1> SUFFICES ASSUME QueueInv, [QueueNext]_queueVars PROVE QueueInv'
  OBVIOUS
<1>a. QueueOK /\ Exclusive /\ NoLostWake /\ Lives
  BY DEF QueueInv
<1>b. /\ Starter \in Putter /\ Taker \notin Putter /\ Free \notin Putter \cup {Taker}
  BY QueueAssumption
<1> USE <1>a, <1>b
\* No item moves.
<1>1. ASSUME UNCHANGED <<deque, taken, nputs>>, QueueOK', Exclusive', NoLostWake',
             doing[Starter] \in {"leaveStop", "join", "done"} =>
                 doing'[Starter] \in {"leaveStop", "join", "done"},
             \A p \in Putter : doing'[p] \in {"putStop", "leaveStop", "join", "done"} => p = Starter,
             thread' \in {"new", "started"} <=> doing'[Taker] = "out",
             thread' \in {"finished", "joined"} => doing'[Taker] = "done",
             doing'[Taker] = "done" => taken # <<>> /\ taken[Len(taken)] = StopItem
      PROVE  QueueInv'
  BY <1>1, QueueFrame DEF QueueInv, Lives
<1>2. CASE UNCHANGED queueVars
  BY <1>1, <1>2 DEF queueVars, QueueOK, Exclusive, NoLostWake, Lives
<1>3. CASE StartThread
  BY <1>1, <1>3 DEF StartThread, QueueOK, Exclusive, NoLostWake, Lives
<1>4. CASE RunInThread
  <2>1. doing' = [doing EXCEPT ![Taker] = "take"] /\ thread = "started" /\ thread' = "running"
        /\ UNCHANGED <<mutex, deque, cond, nputs, taken>>
    BY <1>4 DEF RunInThread
  <2>2. doing[Taker] = "out" /\ DOMAIN doing' = Putter \cup {Taker} /\ doing'[Taker] = "take"
        /\ \A p \in Putter : doing'[p] = doing[p]
    BY <2>1, DoingMoves DEF Lives
  <2>3. QueueOK' /\ Exclusive' /\ NoLostWake'
    BY <2>1, <2>2 DEF QueueOK, Exclusive, NoLostWake, InTake
  <2> QED
    BY <1>1, <2>1, <2>2, <2>3 DEF Lives
<1>5. ASSUME NEW p \in Putter, PutBegins(p) \/ PutEnds(p) PROVE QueueInv'
  <2>1. /\ UNCHANGED <<deque, cond, nputs, taken, thread>>
        /\ \/ mutex = Free /\ mutex' = p /\ doing[p] = "out" /\ doing' = [doing EXCEPT ![p] = "put"]
           \/ mutex = p /\ mutex' = Free /\ doing[p] = "leave" /\ doing' = [doing EXCEPT ![p] = "out"]
    BY <1>5 DEF PutBegins, PutEnds, Lock, Unlock
  <2>2. /\ DOMAIN doing' = Putter \cup {Taker} /\ doing'[p] \in {"put", "out"} /\ p # Taker
        /\ \A q \in Putter \cup {Taker} : q # p => doing'[q] = doing[q]
        /\ mutex' = p \/ (mutex' = Free /\ doing'[p] = "out")
    BY <2>1, DoingMoves
  <2>3. QueueOK'
    BY <2>1, <2>2 DEF QueueOK, InLock
  <2>4. Exclusive'
    <3>1. \A q \in Putter : q # p => doing[q] \notin InLock
      BY <2>1 DEF Exclusive
    <3>2. doing[Taker] \notin InTake
      BY <2>1, <2>2 DEF Exclusive
    <3> QED
      BY <2>1, <2>2, <3>1, <3>2 DEF Exclusive, InLock, InTake
  <2>5. NoLostWake'
    BY <2>1, <2>2 DEF NoLostWake
  <2> QED
    BY <1>1, <2>1, <2>2, <2>3, <2>4, <2>5 DEF Lives
<1>6. CASE StopBegins \/ StopEnds
  <2>1. /\ UNCHANGED <<deque, cond, nputs, taken, thread>>
        /\ \/ /\ mutex = Free /\ mutex' = Starter /\ doing[Starter] = "out"
              /\ doing' = [doing EXCEPT ![Starter] = "putStop"]
           \/ /\ mutex = Starter /\ mutex' = Free /\ doing[Starter] = "leaveStop"
              /\ doing' = [doing EXCEPT ![Starter] = "join"]
    BY <1>6 DEF StopBegins, StopEnds, Lock, Unlock
  <2>2. /\ DOMAIN doing' = Putter \cup {Taker} /\ doing'[Starter] \in {"putStop", "join"} /\ Starter # Taker
        /\ \A q \in Putter \cup {Taker} : q # Starter => doing'[q] = doing[q]
        /\ mutex' = Starter \/ (mutex' = Free /\ doing'[Starter] = "join")
        /\ doing[Starter] = "leaveStop" => doing'[Starter] = "join"
    BY <2>1, DoingMoves
  <2>3. QueueOK'
    BY <2>1, <2>2 DEF QueueOK, InLock
  <2>4. Exclusive'
    <3>1. \A q \in Putter : q # Starter => doing[q] \notin InLock
      BY <2>1 DEF Exclusive
    <3>2. doing[Taker] \notin InTake
      BY <2>1, <2>2 DEF Exclusive
    <3> QED
      BY <2>1, <2>2, <3>1, <3>2 DEF Exclusive, InLock, InTake
  <2>5. NoLostWake'
    BY <2>1, <2>2 DEF NoLostWake
  <2> QED
    BY <1>1, <2>1, <2>2, <2>3, <2>4, <2>5 DEF Lives
<1>7. CASE Join
  <2>1. /\ doing[Starter] = "join" /\ thread = "finished" /\ thread' = "joined"
        /\ doing' = [doing EXCEPT ![Starter] = "done"]
        /\ UNCHANGED <<mutex, deque, cond, nputs, taken>>
    BY <1>7 DEF Join
  <2>2. /\ DOMAIN doing' = Putter \cup {Taker} /\ doing'[Starter] = "done" /\ Starter # Taker
        /\ \A q \in Putter \cup {Taker} : q # Starter => doing'[q] = doing[q]
    BY <2>1, DoingMoves
  <2>3. QueueOK' /\ Exclusive' /\ NoLostWake'
    BY <2>1, <2>2 DEF QueueOK, Exclusive, NoLostWake, InLock
  <2> QED
    BY <1>1, <2>1, <2>2, <2>3 DEF Lives
<1>8. ASSUME NEW p \in Putter, PushBack(p) PROVE QueueInv'
  <2> DEFINE m == [by |-> p, n |-> nputs[p] + 1]
  <2>1. /\ doing[p] = "put" /\ doing' = [doing EXCEPT ![p] = "leave"] /\ deque' = Append(deque, m)
        /\ nputs' = [nputs EXCEPT ![p] = @ + 1] /\ taken' = taken /\ thread' = thread /\ mutex' = mutex
        /\ cond' = IF cond = "waits" THEN "woken" ELSE cond
    BY <1>8 DEF PushBack, Notify
  <2>2. /\ DOMAIN doing' = Putter \cup {Taker} /\ doing'[p] = "leave" /\ p # Taker
        /\ \A q \in Putter \cup {Taker} : q # p => doing'[q] = doing[q]
    BY <2>1, DoingMoves
  <2>3. /\ m \in Item /\ m.n # 0 /\ m.by = p /\ m.n = nputs[p] + 1
        /\ nputs' \in [Putter -> Nat] /\ nputs'[p] = nputs[p] + 1
        /\ \A q \in Putter : q # p => nputs'[q] = nputs[q]
    BY <2>1 DEF Item, QueueOK
  <2> HIDE DEF m
  <2>4. /\ deque' \in Seq(Item) /\ deque' # <<>>
        /\ (AllInOrder(taken \o deque))' /\ (StopIsLast(taken \o deque))'
        /\ \A i \in DOMAIN (taken' \o deque') :
               (taken' \o deque')[i].n = 0 => m.n = 0 \/ doing[Starter] \in {"leaveStop", "join", "done"}
    BY <2>1, <2>3, PutKeeps
  <2>5. QueueOK'
    BY <2>1, <2>2, <2>3, <2>4 DEF QueueOK, InLock
  <2>6. Exclusive'
    <3>1. mutex = p /\ doing[Taker] \notin InTake
      BY <2>1, <2>2 DEF Exclusive, InLock
    <3> QED
      BY <2>1, <2>2, <3>1 DEF Exclusive, InLock, InTake
  <2>7. NoLostWake'
    BY <2>1, <2>2 DEF NoLostWake, QueueOK
  <2>8. Lives'
    <3>1. \A i \in DOMAIN (taken' \o deque') :
              (taken' \o deque')[i].n = 0 => doing'[Starter] \in {"leaveStop", "join", "done"}
      BY <2>1, <2>2, <2>3, <2>4
    <3> QED
      BY <2>1, <2>2, <3>1 DEF Lives
  <2> QED
    BY <2>4, <2>5, <2>6, <2>7, <2>8 DEF QueueInv
<1>9. CASE PushStop
  <2>1. /\ doing[Starter] = "putStop" /\ doing' = [doing EXCEPT ![Starter] = "leaveStop"]
        /\ deque' = Append(deque, StopItem)
        /\ nputs' = nputs /\ taken' = taken /\ thread' = thread /\ mutex' = mutex
        /\ cond' = IF cond = "waits" THEN "woken" ELSE cond
    BY <1>9 DEF PushStop, Notify
  <2>2. /\ DOMAIN doing' = Putter \cup {Taker} /\ doing'[Starter] = "leaveStop" /\ Starter # Taker
        /\ \A q \in Putter \cup {Taker} : q # Starter => doing'[q] = doing[q]
    BY <2>1, DoingMoves
  <2>3. StopItem \in Item /\ StopItem.n = 0 /\ StopItem.by = Starter /\ nputs' \in [Putter -> Nat]
    BY <2>1 DEF Item, StopItem, QueueOK
  <2>4. /\ deque' \in Seq(Item) /\ deque' # <<>>
        /\ (AllInOrder(taken \o deque))' /\ (StopIsLast(taken \o deque))'
    BY <2>1, <2>3, PutKeeps
  <2>5. QueueOK'
    BY <2>1, <2>2, <2>3, <2>4 DEF QueueOK, InLock
  <2>6. Exclusive'
    <3>1. mutex = Starter /\ doing[Taker] \notin InTake
      BY <2>1, <2>2 DEF Exclusive, InLock
    <3> QED
      BY <2>1, <2>2, <3>1 DEF Exclusive, InLock, InTake
  <2>7. NoLostWake'
    BY <2>1, <2>2 DEF NoLostWake, QueueOK
  <2>8. Lives'
    BY <2>1, <2>2 DEF Lives
  <2> QED
    BY <2>4, <2>5, <2>6, <2>7, <2>8 DEF QueueInv
<1>10. CASE TakeBegins \/ Wait \/ WaitReturns
  <2>1. /\ UNCHANGED <<deque, nputs, taken, thread>>
        /\ \/ /\ mutex = Free /\ mutex' = Taker /\ doing[Taker] = "take" /\ cond' = cond
              /\ doing' = [doing EXCEPT ![Taker] = "look"]
           \/ /\ mutex' = Free /\ doing[Taker] = "look" /\ deque = <<>> /\ cond' = "waits"
              /\ doing' = [doing EXCEPT ![Taker] = "asleep"]
           \/ /\ mutex = Free /\ mutex' = Taker /\ doing[Taker] = "asleep" /\ cond' = "not"
              /\ doing' = [doing EXCEPT ![Taker] = "look"]
    BY <1>10 DEF TakeBegins, Wait, WaitReturns, Lock, Unlock
  <2>2. /\ DOMAIN doing' = Putter \cup {Taker}
        /\ \A q \in Putter : doing'[q] = doing[q]
        /\ \/ doing'[Taker] = "look" /\ mutex' = Taker /\ mutex = Free
           \/ doing'[Taker] = "asleep" /\ mutex' = Free /\ mutex = Taker
    BY <2>1, DoingMoves DEF Exclusive, InTake
  <2>3. QueueOK'
    BY <2>1, <2>2 DEF QueueOK, InTake
  <2>4. Exclusive'
    BY <2>1, <2>2 DEF Exclusive, InLock, InTake
  <2>5. NoLostWake'
    BY <2>1, DoingMoves DEF NoLostWake, QueueOK
  <2> QED
    BY <1>1, <2>1, <2>2, <2>3, <2>4, <2>5 DEF Lives
<1>11. CASE WakeUnsignalled
  BY <1>1, <1>11 DEF WakeUnsignalled, QueueOK, Exclusive, NoLostWake, Lives
<1>12. CASE Look
  <2>1. /\ doing[Taker] = "look" /\ deque # <<>> /\ doing' = [doing EXCEPT ![Taker] = "pop"]
        /\ UNCHANGED <<mutex, deque, cond, nputs, taken, thread>>
    BY <1>12 DEF Look
  <2>2. /\ DOMAIN doing' = Putter \cup {Taker} /\ doing'[Taker] = "pop"
        /\ \A q \in Putter : doing'[q] = doing[q]
    BY <2>1, DoingMoves
  <2>3. QueueOK' /\ Exclusive' /\ NoLostWake'
    BY <2>1, <2>2 DEF QueueOK, Exclusive, NoLostWake, InTake
  <2> QED
    BY <1>1, <2>1, <2>2, <2>3 DEF Lives
<1>13. CASE PopFront
  <2>1. deque # <<>> /\ doing[Taker] = "pop"
    BY <1>13 DEF PopFront, Exclusive
  <2>2. /\ doing' = [doing EXCEPT ![Taker] = "leave"]
        /\ taken' = Append(taken, Head(deque)) /\ deque' = Tail(deque)
        /\ UNCHANGED <<mutex, cond, nputs, thread>>
    BY <1>13, <2>1 DEF PopFront
  <2>3. /\ DOMAIN doing' = Putter \cup {Taker} /\ doing'[Taker] = "leave"
        /\ \A q \in Putter : doing'[q] = doing[q]
    BY <2>2, DoingMoves
  <2>4. taken \in Seq(Item) /\ deque \in Seq(Item)
    BY DEF QueueOK
  <2>5. taken' \in Seq(Item) /\ taken' # <<>> /\ deque' \in Seq(Item)
    BY <2>1, <2>2, <2>4
  <2>6. taken' \o deque' = taken \o deque
    BY <2>1, <2>2, <2>4, HandedSeq
  <2>7. QueueOK' /\ Exclusive' /\ NoLostWake'
    BY <2>1, <2>2, <2>3, <2>5 DEF QueueOK, Exclusive, NoLostWake, InTake
  <2>8. Lives'
    BY <2>1, <2>2, <2>3, <2>6 DEF Lives
  <2>9. (AllInOrder(taken \o deque))' /\ (StopIsLast(taken \o deque))'
    <3> DEFINE z == taken \o deque
    <3>1. AllInOrder(z) /\ StopIsLast(z) /\ taken' \o deque' = z /\ nputs' = nputs
      BY <2>2, <2>6 DEF QueueInv
    <3> HIDE DEF z
    <3>2. (AllInOrder(taken \o deque))'
      BY <3>1 DEF AllInOrder
    <3>3. (StopIsLast(taken \o deque))'
      BY <3>1 DEF StopIsLast
    <3> QED
      BY <3>2, <3>3
  <2> QED
    BY <2>7, <2>8, <2>9 DEF QueueInv
<1>14. CASE TakeEnds
  <2> DEFINE stops == taken[Len(taken)] = StopItem
  <2>1. /\ doing[Taker] = "leave" /\ mutex = Taker /\ mutex' = Free
        /\ doing' = [doing EXCEPT ![Taker] = IF stops THEN "done" ELSE "take"]
        /\ thread' = IF stops THEN "finished" ELSE thread
        /\ UNCHANGED <<deque, cond, nputs, taken>>
    BY <1>14 DEF TakeEnds, Unlock
  <2>2. /\ DOMAIN doing' = Putter \cup {Taker}
        /\ doing'[Taker] = IF stops THEN "done" ELSE "take"
        /\ \A q \in Putter : doing'[q] = doing[q]
    BY <2>1, DoingMoves
  <2>3. taken # <<>> /\ thread \notin {"new", "started", "finished", "joined"}
    BY <2>1 DEF Exclusive, Lives
  <2>4. QueueOK'
    BY <2>1, <2>2 DEF QueueOK
  <2>5. Exclusive'
    BY <2>1, <2>2 DEF Exclusive, InLock, InTake
  <2>6. NoLostWake'
    BY <2>1 DEF NoLostWake
  <2> QED
    BY <1>1, <2>1, <2>2, <2>3, <2>4, <2>5, <2>6 DEF Lives
<1> QED
  BY <1>2, <1>3, <1>4, <1>5, <1>6, <1>7, <1>8, <1>9, <1>10, <1>11, <1>12, <1>13, <1>14
     DEF QueueNext, TakerStep

\* Whatever the threads put comes out once and in each one's order, no wake-up
\* is lost, and a join leaves nothing of the starter in the queue: for any
\* number of threads, items and wake-ups that nobody signalled.
THEOREM QueueIsFifo == QueueSpec => []QueueHandsOver
<1>1. QueueInit => QueueInv
  BY InitQueue
<1>2. QueueInv /\ [QueueNext]_queueVars => QueueInv'
  BY StepQueue
<1>3. QueueInv => QueueHandsOver
  BY NothingBehindStop DEF QueueInv, NoLostWake, Lives, QueueHandsOver
<1> QED
  BY <1>1, <1>2, <1>3, PTL DEF QueueSpec

-----------------------------------------------------------------------------
(* The blocking queue hands over in single steps                            *)

\* A thread that is to take again has not taken STOP.
Going ==
    doing[Taker] \in {"out", "take", "look", "asleep", "pop"} =>
        taken = <<>> \/ taken[Len(taken)] # StopItem

\* A thread that has taken STOP returns from func_ before it takes again.
LEMMA GoingKept == QueueInv /\ Going /\ [QueueNext]_queueVars => Going'
<1> SUFFICES ASSUME QueueInv, Going, [QueueNext]_queueVars PROVE Going'
  OBVIOUS
<1>1. DOMAIN doing = Putter \cup {Taker} /\ Taker \notin Putter /\ Starter \in Putter
  BY QueueAssumption DEF QueueInv, QueueOK
<1>2. ASSUME taken' = taken, doing'[Taker] = doing[Taker] PROVE Going'
  BY <1>2 DEF Going, StopItem
<1>3. CASE StartThread \/ StopBegins \/ PushStop \/ StopEnds \/ Join \/ WakeUnsignalled
  BY <1>1, <1>2, <1>3 DEF StartThread, StopBegins, PushStop, StopEnds, Join, WakeUnsignalled
<1>4. ASSUME NEW p \in Putter, PutBegins(p) \/ PushBack(p) \/ PutEnds(p) PROVE Going'
  BY <1>1, <1>2, <1>4 DEF PutBegins, PushBack, PutEnds
<1>5. CASE RunInThread
  <2>1. doing[Taker] = "out"
    BY <1>5 DEF RunInThread, QueueInv, Lives
  <2> QED
    BY <1>5, <2>1 DEF RunInThread, Going, StopItem
<1>6. CASE TakeBegins \/ Wait \/ WaitReturns \/ Look
  BY <1>1, <1>6 DEF TakeBegins, Wait, WaitReturns, Look, Going, StopItem
<1>7. CASE PopFront
  BY <1>1, <1>7 DEF PopFront, Going
<1>8. CASE TakeEnds
  <2>1. CASE taken[Len(taken)] = StopItem
    BY <1>1, <1>8, <2>1 DEF TakeEnds, Going
  <2>2. CASE taken[Len(taken)] # StopItem
    BY <1>8, <2>2 DEF TakeEnds, Going, StopItem
  <2> QED
    BY <2>1, <2>2
<1>9. CASE UNCHANGED queueVars
  BY <1>2, <1>9 DEF queueVars
<1> QED
  BY <1>3, <1>4, <1>5, <1>6, <1>7, <1>8, <1>9 DEF QueueNext, TakerStep

\* One item behind the others is a put.
LEMMA PutIsAPut ==
    ASSUME NEW m \in Item, deque \in Seq(Item), deque' = Append(deque, m), taken' = taken
    PROVE  Handed!Put
<1>1. Len(deque) \in Nat /\ Len(deque') = Len(deque) + 1
  OBVIOUS
<1>2. SubSeq(deque', 1, Len(deque)) = deque
  OBVIOUS
<1> QED
  BY <1>1, <1>2 DEF Handed!Put

\* Each step of the queue is a put, a take, or neither.
LEMMA QueueStepRefines ==
    QueueInv /\ Going /\ [QueueNext]_queueVars => [Handed!Next]_Handed!vars
<1> SUFFICES ASSUME QueueInv, Going, [QueueNext]_queueVars PROVE [Handed!Next]_Handed!vars
  OBVIOUS
<1>1. deque \in Seq(Item) /\ nputs \in [Putter -> Nat]
  BY DEF QueueInv, QueueOK
<1>2. ASSUME UNCHANGED <<deque, taken>> PROVE [Handed!Next]_Handed!vars
  BY <1>2 DEF Handed!vars
<1>3. CASE StartThread \/ StopBegins \/ StopEnds \/ Join \/ WakeUnsignalled
  BY <1>2, <1>3 DEF StartThread, StopBegins, StopEnds, Join, WakeUnsignalled
<1>4. CASE PushStop
  <2>1. StopItem \in Item /\ deque' = Append(deque, StopItem) /\ taken' = taken
    BY <1>4, QueueAssumption DEF PushStop, StopItem, Item
  <2> QED
    BY <1>1, <2>1, PutIsAPut DEF Handed!Next
<1>5. ASSUME NEW p \in Putter, PutBegins(p) \/ PutEnds(p) PROVE [Handed!Next]_Handed!vars
  BY <1>2, <1>5 DEF PutBegins, PutEnds
<1>6. ASSUME NEW p \in Putter, PushBack(p) PROVE [Handed!Next]_Handed!vars
  <2>1. [by |-> p, n |-> nputs[p] + 1] \in Item
    BY <1>1 DEF Item
  <2>2. deque' = Append(deque, [by |-> p, n |-> nputs[p] + 1]) /\ taken' = taken
    BY <1>6 DEF PushBack
  <2> QED
    BY <1>1, <2>1, <2>2, PutIsAPut DEF Handed!Next
<1>7. CASE RunInThread \/ TakeBegins \/ Wait \/ WaitReturns \/ Look \/ TakeEnds
  BY <1>2, <1>7 DEF RunInThread, TakeBegins, Wait, WaitReturns, Look, TakeEnds
<1>8. CASE PopFront
  <2>1. deque # <<>> /\ doing[Taker] = "pop"
    BY <1>8 DEF PopFront, QueueInv, Exclusive
  <2>2. taken' = Append(taken, Head(deque)) /\ deque' = Tail(deque)
    BY <1>8, <2>1 DEF PopFront
  <2>3. ~Handed!Ended
    BY <2>1 DEF Going, Handed!Ended
  <2> QED
    BY <2>1, <2>2, <2>3 DEF Handed!Take, Handed!Next
<1>9. CASE UNCHANGED queueVars
  BY <1>2, <1>9 DEF queueVars
<1> QED
  BY <1>3, <1>4, <1>5, <1>6, <1>7, <1>8, <1>9 DEF QueueNext, TakerStep

\* put and take of BlockingQueue are one step each for whoever uses them, in the order
\* of the puts and none behind STOP, although a put and a take are several steps of
\* several threads, and a wait gives the mutex up in the middle.
THEOREM QueueHandsOverAtOnce == QueueSpec => HandsOver
<1>1. QueueInit => QueueInv
  BY InitQueue
<1>2. QueueInit => Going
  BY DEF QueueInit, Going
<1>3. QueueInit => Handed!Init
  BY DEF QueueInit, Handed!Init
<1>4. QueueInv /\ [QueueNext]_queueVars => QueueInv'
  BY StepQueue
<1> QED
  BY <1>1, <1>2, <1>3, <1>4, GoingKept, QueueStepRefines, PTL DEF QueueSpec, HandsOver, Handed!Spec

-----------------------------------------------------------------------------
(* The pipe: its inductive invariant                                        *)

PipeOK ==
    /\ back \in Nat /\ w \in Nat /\ f \in Nat /\ front \in Nat /\ writes \in Nat
    /\ r \in Nat \cup {NULL} /\ c \in Nat \cup {NULL}
    /\ flushing \in BOOLEAN /\ readable \in BOOLEAN
    /\ written \in Seq(Nat) /\ Len(written) = back
    /\ got \in Seq(Nat) /\ Len(got) = front
    /\ cell \in [Chunk \X (0 .. ChunkSize - 1) -> Nat]
    /\ spare \in Chunk \cup {NoChunk}

\* The reader is behind what was flushed, and that behind what may be.
InTurn == front <= w /\ w <= f /\ f <= back

\* What the threads know of each other: c is where the writer flushed to, or the
\* reader has read as far and sleeps; what it prefetched was flushed.
Meet ==
    /\ c \in {NULL, w}
    /\ c = NULL => front = w
    /\ flushing => c = NULL
    /\ r # NULL => front <= r /\ r <= w
    /\ readable => r # NULL /\ front < r

\* Every slot from the front to the one behind the terminator has memory of its
\* own, and the spare chunk is none of it.
OwnChunks ==
    /\ DOMAIN held = ChunkNo(front) .. ChunkNo(back + 1)
    /\ \A n \in DOMAIN held : held[n] \in Chunk /\ held[n] # spare
    /\ \A n, k \in DOMAIN held : held[n] = held[k] => n = k

\* What was read is what was written, and what was not is in its slot.
Kept ==
    /\ \A i \in 1 .. front : got[i] = written[i]
    /\ \A pos \in front .. back - 1 : cell[Cell(pos)] = written[pos + 1]

PipeInv == PipeOK /\ InTurn /\ Meet /\ OwnChunks /\ Kept

\* A position is a chunk and an index, and the next one the next index or the
\* beginning of the next chunk.
LEMMA Positions ==
    /\ \A a \in Nat : ChunkNo(a) \in Nat /\ a % ChunkSize \in 0 .. ChunkSize - 1
    /\ \A a \in Nat : ChunkNo(a + 1) = IF (a + 1) % ChunkSize = 0 THEN ChunkNo(a) + 1 ELSE ChunkNo(a)
    /\ \A a, b \in Nat : a <= b => ChunkNo(a) <= ChunkNo(b)
    /\ \A a, b \in Nat : ChunkNo(a) = ChunkNo(b) /\ a % ChunkSize = b % ChunkSize => a = b
<1> ChunkSize \in Nat /\ ChunkSize > 1
  BY PipeAssumption
<1>1. ASSUME NEW a \in Nat PROVE ChunkNo(a) \in Nat /\ a % ChunkSize \in 0 .. ChunkSize - 1
  BY DEF ChunkNo
<1>2. ASSUME NEW a \in Nat
      PROVE  ChunkNo(a + 1) = IF (a + 1) % ChunkSize = 0 THEN ChunkNo(a) + 1 ELSE ChunkNo(a)
  BY DEF ChunkNo
<1>3. ASSUME NEW a \in Nat, NEW b \in Nat, a <= b PROVE ChunkNo(a) <= ChunkNo(b)
  BY <1>3 DEF ChunkNo
<1>4. ASSUME NEW a \in Nat, NEW b \in Nat, ChunkNo(a) = ChunkNo(b), a % ChunkSize = b % ChunkSize
      PROVE  a = b
  BY <1>4 DEF ChunkNo
<1> QED
  BY <1>1, <1>2, <1>3, <1>4

\* A slot in use is in its chunk and shares its cell with no other.
LEMMA OwnCells ==
    ASSUME PipeInv, NEW a \in front .. back + 1
    PROVE  /\ ChunkNo(a) \in DOMAIN held /\ a \in Nat
           /\ Cell(a) \in Chunk \X (0 .. ChunkSize - 1)
           /\ \A b \in front .. back + 1 : Cell(a) = Cell(b) => a = b
<1>1. front \in Nat /\ back \in Nat /\ \A b \in front .. back + 1 : b \in Nat /\ front <= b /\ b <= back + 1
  BY DEF PipeInv, PipeOK
<1>2. \A b \in front .. back + 1 : ChunkNo(b) \in DOMAIN held
  <2> SUFFICES ASSUME NEW b \in front .. back + 1 PROVE ChunkNo(b) \in DOMAIN held
    OBVIOUS
  <2>1. b \in Nat /\ back + 1 \in Nat /\ front <= b /\ b <= back + 1
    BY <1>1
  <2>2. /\ ChunkNo(front) <= ChunkNo(b) /\ ChunkNo(b) <= ChunkNo(back + 1)
        /\ ChunkNo(front) \in Nat /\ ChunkNo(b) \in Nat /\ ChunkNo(back + 1) \in Nat
    BY <1>1, <2>1, Positions
  <2>3. DOMAIN held = ChunkNo(front) .. ChunkNo(back + 1)
    BY DEF PipeInv, OwnChunks
  <2> QED
    BY <2>2, <2>3
<1>3. Cell(a) \in Chunk \X (0 .. ChunkSize - 1)
  BY <1>1, <1>2, Positions DEF PipeInv, OwnChunks, Cell
<1>4. ASSUME NEW b \in front .. back + 1, Cell(a) = Cell(b) PROVE a = b
  <2>1. held[ChunkNo(a)] = held[ChunkNo(b)] /\ a % ChunkSize = b % ChunkSize
    BY <1>4 DEF Cell
  <2>2. ChunkNo(a) = ChunkNo(b)
    BY <1>2, <2>1 DEF PipeInv, OwnChunks
  <2> QED
    BY <1>1, <2>1, <2>2, Positions
<1> QED
  BY <1>1, <1>2, <1>3, <1>4

LEMMA InitPipe == PipeInit => PipeInv
<1> SUFFICES ASSUME PipeInit PROVE PipeInv
  OBVIOUS
<1>1. ChunkSize \in Nat /\ ChunkSize > 1
  BY PipeAssumption
<1>2. ChunkNo(0) = 0 /\ ChunkNo(1) = 0
  BY <1>1 DEF ChunkNo
<1>3. written \in Seq(Nat) /\ got \in Seq(Nat) /\ Len(written) = 0 /\ Len(got) = 0
  BY DEF PipeInit
<1>4. cell \in [Chunk \X (0 .. ChunkSize - 1) -> Nat]
  BY DEF PipeInit, NoItem
<1>5. PipeOK
  BY <1>3, <1>4 DEF PipeInit, PipeOK
<1>6. InTurn /\ Meet
  BY DEF PipeInit, InTurn, Meet, NULL
<1>7. PICK m \in Chunk : held = [n \in {0} |-> m]
  BY DEF PipeInit
<1>8. DOMAIN held = {0} /\ held[0] = m /\ spare = NoChunk /\ front = 0 /\ back = 0
  BY <1>7 DEF PipeInit
<1>9. ChunkNo(front) .. ChunkNo(back + 1) = {0}
  BY <1>2, <1>8
<1>10. OwnChunks
  BY <1>8, <1>9, PipeAssumption DEF OwnChunks
<1>11. Kept
  BY <1>8 DEF Kept
<1> QED
  BY <1>5, <1>6, <1>10, <1>11 DEF PipeInv

\* A new chunk for a position behind the last: memory nobody has.
LEMMA PushFacts ==
    ASSUME PipeInv, NEW b \in Nat, b = back + 2, PushTo(b)
    PROVE  /\ DOMAIN held' = ChunkNo(front) .. ChunkNo(b)
           /\ \A n \in DOMAIN held : n \in DOMAIN held' /\ held'[n] = held[n]
           /\ \A n \in DOMAIN held' : held'[n] \in Chunk /\ held'[n] # spare'
           /\ \A n, k \in DOMAIN held' : held'[n] = held'[k] => n = k
           /\ spare' \in Chunk \cup {NoChunk}
<1>0. /\ back \in Nat /\ front \in Nat /\ front <= back /\ b = (back + 1) + 1
      /\ spare \in Chunk \cup {NoChunk}
  BY DEF PipeInv, PipeOK, InTurn
<1>1. /\ DOMAIN held = ChunkNo(front) .. ChunkNo(back + 1)
      /\ \A n \in DOMAIN held : held[n] \in Chunk /\ held[n] # spare
      /\ \A n, k \in DOMAIN held : held[n] = held[k] => n = k
  BY DEF PipeInv, OwnChunks
<1>2. /\ ChunkNo(front) \in Nat /\ ChunkNo(back + 1) \in Nat /\ ChunkNo(front) <= ChunkNo(back + 1)
      /\ ChunkNo(b) = IF b % ChunkSize = 0 THEN ChunkNo(back + 1) + 1 ELSE ChunkNo(back + 1)
  <2>1. back + 1 \in Nat /\ front <= back + 1
    BY <1>0
  <2> QED
    BY <1>0, <2>1, Positions
<1>3. CASE b % ChunkSize # 0
  <2>1. held' = held /\ spare' = spare
    BY <1>3 DEF PushTo
  <2> QED
    BY <1>0, <1>1, <1>2, <1>3, <2>1
<1>4. CASE b % ChunkSize = 0
  <2>1. PICK m \in IF spare # NoChunk THEN {spare} ELSE Chunk \ InUse :
            /\ held' = [n \in (DOMAIN held) \cup {ChunkNo(b)} |-> IF n \in DOMAIN held THEN held[n] ELSE m]
            /\ spare' = NoChunk
    BY <1>4 DEF PushTo, Xchg
  <2>2. m \in Chunk /\ \A n \in DOMAIN held : held[n] # m
    BY <1>0, <1>1, <2>1 DEF InUse
  <2>3. ChunkNo(b) = ChunkNo(back + 1) + 1 /\ ChunkNo(b) \notin DOMAIN held
    BY <1>1, <1>2, <1>4
  <2>4. DOMAIN held' = ChunkNo(front) .. ChunkNo(b)
    BY <1>1, <1>2, <2>1, <2>3
  <2>5. /\ \A n \in DOMAIN held' : n \in DOMAIN held \/ n = ChunkNo(b)
        /\ \A n \in DOMAIN held : n \in DOMAIN held' /\ held'[n] = held[n]
        /\ held'[ChunkNo(b)] = m
    BY <2>1, <2>3
  <2> QED
    BY <1>1, <2>1, <2>2, <2>4, <2>5, PipeAssumption
<1> QED
  BY <1>3, <1>4

\* What the two halves of the memory say stays so while it is left alone.
LEMMA PipeFrame ==
    ASSUME PipeInv, UNCHANGED <<back, front, held, spare, cell, written, got>>
    PROVE  OwnChunks' /\ Kept'
BY DEF PipeInv, OwnChunks, Kept, Cell

LEMMA StepPipe == PipeInv /\ [PipeNext]_pipeVars => PipeInv'
<1> SUFFICES ASSUME PipeInv, [PipeNext]_pipeVars PROVE PipeInv'
  OBVIOUS
<1>a. PipeOK /\ InTurn /\ Meet /\ OwnChunks /\ Kept
  BY DEF PipeInv
<1>n. /\ back \in Nat /\ w \in Nat /\ f \in Nat /\ front \in Nat /\ writes \in Nat
      /\ front <= w /\ w <= f /\ f <= back /\ back + 1 \in Nat
      /\ NULL = -1 /\ (r \in Nat \/ r = NULL) /\ (c = w \/ c = NULL)
  BY <1>a DEF PipeOK, InTurn, Meet, NULL
<1>b. /\ back \in Nat /\ w \in Nat /\ f \in Nat /\ front \in Nat /\ writes \in Nat
      /\ written \in Seq(Nat) /\ Len(written) = back /\ got \in Seq(Nat) /\ Len(got) = front
      /\ front <= w /\ w <= f /\ f <= back
      /\ c \in {NULL, w} /\ r \in Nat \cup {NULL} /\ NULL \notin Nat
  BY <1>a DEF PipeOK, InTurn, Meet, NULL
<1>1. ASSUME NEW incomplete \in BOOLEAN, Write(incomplete) PROVE PipeInv'
  <2>1. /\ flushing = FALSE /\ writes' = writes + 1 /\ back' = back + 1
        /\ cell' = [cell EXCEPT ![Cell(back)] = writes'] /\ written' = Append(written, writes')
        /\ f' \in {f, back'} /\ PushTo(back + 2)
        /\ UNCHANGED <<w, flushing, front, r, readable, c, got>>
    BY <1>1, <1>a DEF Write, PipeOK
  <2>2. /\ DOMAIN held' = ChunkNo(front) .. ChunkNo(back + 2)
        /\ \A n \in DOMAIN held : n \in DOMAIN held' /\ held'[n] = held[n]
        /\ \A n \in DOMAIN held' : held'[n] \in Chunk /\ held'[n] # spare'
        /\ \A n, k \in DOMAIN held' : held'[n] = held'[k] => n = k
        /\ spare' \in Chunk \cup {NoChunk}
    BY <1>b, <2>1, PushFacts
  <2>3. back' + 1 = back + 2
    BY <1>b, <2>1
  <2>4. OwnChunks'
    BY <2>1, <2>2, <2>3 DEF OwnChunks
  <2>5. Cell(back) \in Chunk \X (0 .. ChunkSize - 1) /\ back \in front .. back + 1
    BY <1>b, OwnCells
  <2>6. PipeOK'
    BY <1>a, <1>b, <2>1, <2>2, <2>5 DEF PipeOK
  <2>7. InTurn' /\ Meet'
    BY <1>a, <1>b, <2>1 DEF InTurn, Meet
  <2>8. ASSUME NEW pos \in front .. back PROVE cell'[(Cell(pos))'] = written'[pos + 1]
    <3>0. pos \in front .. back + 1
      BY <1>n
    <3>a. ChunkNo(pos) \in DOMAIN held
      BY <3>0, OwnCells
    <3>1. pos \in front .. back + 1 /\ (Cell(pos))' = Cell(pos)
      BY <3>0, <3>a, <2>2 DEF Cell, ChunkNo
    <3>2. cell \in [Chunk \X (0 .. ChunkSize - 1) -> Nat] /\ Cell(pos) \in Chunk \X (0 .. ChunkSize - 1)
      BY <1>a, <3>1, OwnCells DEF PipeOK
    <3>3. CASE pos = back
      BY <1>b, <2>1, <2>5, <3>1, <3>2, <3>3
    <3>4. CASE pos # back
      <4>1. Cell(pos) # Cell(back) /\ pos \in front .. back - 1
        BY <1>b, <2>5, <3>1, <3>4, OwnCells
      <4>2. cell'[Cell(pos)] = cell[Cell(pos)]
        BY <2>1, <3>2, <4>1
      <4>3. written'[pos + 1] = written[pos + 1]
        BY <1>b, <2>1, <4>1
      <4> QED
        BY <1>a, <3>1, <4>1, <4>2, <4>3 DEF Kept
    <3> QED
      BY <3>3, <3>4
  <2>9. Kept'
    <3>1. \A i \in 1 .. front : written'[i] = written[i]
      BY <1>b, <2>1
    <3>2. back' - 1 = back
      BY <1>b, <2>1
    <3> QED
      BY <1>a, <2>1, <2>8, <3>1, <3>2 DEF Kept
  <2> QED
    BY <2>4, <2>6, <2>7, <2>9 DEF PipeInv
<1>2. CASE Unwrite
  <2>1. /\ f # back /\ back' = back - 1 /\ written' = SubSeq(written, 1, back - 1)
        /\ held' = IF (back + 1) % ChunkSize # 0 THEN held
                   ELSE [n \in (DOMAIN held) \ {ChunkNo(back + 1)} |-> held[n]]
        /\ UNCHANGED <<spare, w, f, flushing, front, r, readable, c, cell, got, writes>>
    BY <1>2 DEF Unwrite, UnpushFrom
  <2>2. back' \in Nat /\ f <= back' /\ front <= back' /\ back' + 1 = back
    BY <1>b, <2>1
  <2>a. /\ back' = back - 1 /\ back - 1 \in Nat /\ back \in Nat /\ front \in Nat
        /\ f <= back - 1 /\ front <= back - 1
    BY <1>n, <2>1
  <2>3. /\ written' \in Seq(Nat) /\ Len(written') = back'
        /\ \A i \in 1 .. back' : written'[i] = written[i]
    BY SMTT(30), <1>b, <2>1, <2>2
  <2>4. PipeOK' /\ InTurn' /\ Meet'
    BY <1>a, <1>b, <2>1, <2>2, <2>3 DEF PipeOK, InTurn, Meet
  <2>5. /\ ChunkNo(front) \in Nat /\ ChunkNo(back) \in Nat /\ ChunkNo(front) <= ChunkNo(back)
        /\ ChunkNo(back + 1) = IF (back + 1) % ChunkSize = 0 THEN ChunkNo(back) + 1 ELSE ChunkNo(back)
    BY <1>b, Positions
  <2>6. /\ DOMAIN held' = ChunkNo(front) .. ChunkNo(back)
        /\ \A n \in DOMAIN held' : n \in DOMAIN held /\ held'[n] = held[n]
    <3>1. DOMAIN held = ChunkNo(front) .. ChunkNo(back + 1)
      BY <1>a DEF OwnChunks
    <3>2. CASE (back + 1) % ChunkSize # 0
      BY <2>1, <2>5, <3>1, <3>2
    <3>3. CASE (back + 1) % ChunkSize = 0
      <4>1. /\ held' = [n \in (DOMAIN held) \ {ChunkNo(back + 1)} |-> held[n]]
            /\ ChunkNo(back + 1) = ChunkNo(back) + 1
        BY <2>1, <2>5, <3>3
      <4>2. \A n : n \in DOMAIN held' <=> n \in ChunkNo(front) .. ChunkNo(back)
        BY <2>5, <3>1, <4>1
      <4>3. DOMAIN held' = ChunkNo(front) .. ChunkNo(back)
        BY <4>1, <4>2
      <4> QED
        BY <4>1, <4>3
    <3> QED
      BY <3>2, <3>3
  <2>7. OwnChunks'
    BY <1>a, <2>1, <2>2, <2>6 DEF OwnChunks
  <2>8. \A pos \in front .. back' - 1 : (Cell(pos))' = Cell(pos)
    <3> SUFFICES ASSUME NEW pos \in front .. back' - 1 PROVE (Cell(pos))' = Cell(pos)
      OBVIOUS
    <3>1. pos \in Nat /\ front <= pos /\ pos <= back
      BY <2>a
    <3>2. ChunkNo(pos) \in DOMAIN held'
      <4>1. /\ ChunkNo(front) <= ChunkNo(pos) /\ ChunkNo(pos) <= ChunkNo(back) /\ ChunkNo(pos) \in Nat
        BY <1>n, <3>1, Positions
      <4> QED
        BY <2>5, <2>6, <4>1
    <3> QED
      BY <2>6, <3>2 DEF Cell
  <2>9. Kept'
    <3>0. \A i \in 1 .. front : i \in 1 .. back'
      BY <1>n, <2>2
    <3>1. \A i \in 1 .. front : got'[i] = written'[i]
      BY <1>a, <2>1, <2>3, <3>0 DEF Kept
    <3>2. \A pos \in front .. back' - 1 : pos \in front .. back - 1 /\ pos + 1 \in 1 .. back'
      BY <2>a
    <3> QED
      BY <1>a, <2>1, <2>3, <2>8, <3>1, <3>2 DEF Kept
  <2> QED
    BY <2>4, <2>7, <2>9 DEF PipeInv
<1>3. CASE Flush \/ FlushToSleeper \/ CheckRead \/ UNCHANGED pipeVars
  <2>1. UNCHANGED <<back, front, held, spare, cell, written, got, writes>>
    BY <1>3 DEF Flush, FlushToSleeper, CheckRead, pipeVars
  <2>2. CASE Flush
    <3>1. /\ flushing = FALSE /\ c' = (IF c = w THEN f ELSE c)
          /\ IF c = w THEN w' = f /\ flushing' = flushing ELSE flushing' = TRUE /\ w' = w
          /\ UNCHANGED <<f, r, readable>>
      BY <1>a, <2>2 DEF Flush, Cas, PipeOK
    <3>2. PipeOK'
      BY <1>a, <1>n, <2>1, <3>1 DEF PipeOK
    <3>3. InTurn'
      BY <1>n, <2>1, <3>1 DEF InTurn
    <3>4. Meet'
      BY <1>a, <1>n, <2>1, <3>1 DEF Meet
    <3> QED
      BY <2>1, <3>2, <3>3, <3>4, PipeFrame DEF PipeInv
  <2>3. CASE FlushToSleeper
    <3>1. c' = f /\ w' = f /\ flushing' = FALSE /\ UNCHANGED <<f, r, readable>>
      BY <2>3 DEF FlushToSleeper
    <3>2. PipeOK'
      BY <1>a, <1>n, <2>1, <3>1 DEF PipeOK
    <3>3. InTurn'
      BY <1>n, <2>1, <3>1 DEF InTurn
    <3>4. Meet'
      BY <1>a, <1>n, <2>1, <3>1 DEF Meet
    <3> QED
      BY <2>1, <3>2, <3>3, <3>4, PipeFrame DEF PipeInv
  <2>4. CASE CheckRead
    <3>1. /\ UNCHANGED <<w, f, flushing>>
          /\ \/ front # r /\ r # NULL /\ readable' = TRUE /\ r' = r /\ c' = c
             \/ /\ r' = c /\ c' = IF c = front THEN NULL ELSE c
                /\ readable' = (c # front /\ c # NULL)
      BY <2>4 DEF CheckRead, Cas
    <3>2. readable' \in BOOLEAN
      BY <3>1
    <3>3. PipeOK'
      BY <1>a, <1>b, <2>1, <3>1, <3>2 DEF PipeOK
    <3>4. InTurn'
      BY <1>a, <2>1, <3>1 DEF InTurn
    <3>5. Meet'
      <4>1. c' \in {NULL, w'} /\ (c' = NULL => front' = w')
        BY <1>a, <1>n, <2>1, <3>1 DEF Meet
      <4>2. flushing' => c' = NULL
        BY <1>a, <1>n, <3>1 DEF Meet
      <4>3. r' # NULL => front' <= r' /\ r' <= w'
        BY <1>a, <1>n, <2>1, <3>1 DEF Meet
      <4>4. readable' => r' # NULL /\ front' < r'
        <5>1. ASSUME front # r, r # NULL, r' = r PROVE r' # NULL /\ front' < r'
          BY <1>a, <1>n, <2>1, <5>1 DEF Meet
        <5>2. ASSUME c # front, c # NULL, r' = c PROVE r' # NULL /\ front' < r'
          BY <1>n, <2>1, <5>2
        <5> QED
          BY <3>1, <5>1, <5>2
      <4> QED
        BY <4>1, <4>2, <4>3, <4>4 DEF Meet
    <3> QED
      BY <2>1, <3>3, <3>4, <3>5, PipeFrame DEF PipeInv
  <2>5. CASE UNCHANGED pipeVars
    <3>1. PipeOK' /\ InTurn' /\ Meet'
      BY <1>a, <2>5 DEF pipeVars, PipeOK, InTurn, Meet
    <3> QED
      BY <2>1, <3>1, PipeFrame DEF PipeInv
  <2> QED
    BY <1>3, <2>2, <2>3, <2>4, <2>5
<1>4. CASE Read
  <2>1. /\ readable = TRUE /\ readable' = FALSE /\ front' = front + 1
        /\ got' = Append(got, cell[Cell(front)]) /\ PopFrom(front)
        /\ UNCHANGED <<back, w, f, flushing, r, c, cell, written, writes>>
    BY <1>4, <1>a DEF Read, PipeOK
  <2>2. front < w /\ front < back /\ front' \in Nat /\ front' <= w /\ front' <= r /\ r \in Nat
    BY <1>a, <1>b, <2>1 DEF Meet
  <2>3. cell[Cell(front)] = written[front + 1] /\ cell[Cell(front)] \in Nat
    BY <1>a, <1>b, <2>2 DEF Kept
  <2>4. /\ DOMAIN held = ChunkNo(front) .. ChunkNo(back + 1)
        /\ \A n \in DOMAIN held : held[n] \in Chunk /\ held[n] # spare
        /\ \A n, k \in DOMAIN held : held[n] = held[k] => n = k
    BY <1>a DEF OwnChunks
  <2>5. /\ ChunkNo(front) \in Nat /\ ChunkNo(back + 1) \in Nat /\ ChunkNo(front') <= ChunkNo(back + 1)
        /\ ChunkNo(front') = IF (front + 1) % ChunkSize = 0 THEN ChunkNo(front) + 1 ELSE ChunkNo(front)
    BY <1>b, <2>1, <2>2, Positions
  <2>6. /\ DOMAIN held' = ChunkNo(front') .. ChunkNo(back + 1)
        /\ \A n \in DOMAIN held' : n \in DOMAIN held /\ held'[n] = held[n] /\ held'[n] # spare'
        /\ spare' \in Chunk \cup {NoChunk}
    <3>1. CASE (front + 1) % ChunkSize # 0
      <4>1. held' = held /\ spare' = spare
        BY <2>1, <3>1 DEF PopFrom
      <4> QED
        BY <1>a, <2>4, <2>5, <3>1, <4>1 DEF PipeOK
    <3>2. CASE (front + 1) % ChunkSize = 0
      <4>1. /\ spare' = held[ChunkNo(front)]
            /\ held' = [n \in (DOMAIN held) \ {ChunkNo(front)} |-> held[n]]
        BY <2>1, <3>2 DEF PopFrom, Xchg
      <4>2. ChunkNo(front) \in DOMAIN held
        BY <2>4, <2>5, <3>2
      <4> QED
        BY <2>4, <2>5, <3>2, <4>1, <4>2
    <3> QED
      BY <3>1, <3>2
  <2>7. PipeOK'
    <3>1. got' \in Seq(Nat) /\ Len(got') = front'
      BY <1>b, <2>1, <2>3
    <3> QED
      BY <1>a, <1>b, <2>1, <2>2, <2>6, <3>1 DEF PipeOK
  <2>8. InTurn'
    BY <1>a, <2>1, <2>2 DEF InTurn
  <2>9. Meet'
    BY <1>a, <1>b, <2>1, <2>2 DEF Meet
  <2>10. OwnChunks'
    BY <2>1, <2>4, <2>6 DEF OwnChunks
  <2>11. Kept'
    <3>1. ASSUME NEW i \in 1 .. front' PROVE got'[i] = written[i]
      <4>1. CASE i = front + 1
        BY <1>b, <2>1, <2>3, <4>1
      <4>2. CASE i \in 1 .. front
        BY <1>a, <1>b, <2>1, <4>2 DEF Kept
      <4> QED
        BY <1>b, <2>1, <4>1, <4>2
    <3>2. ASSUME NEW pos \in front' .. back - 1 PROVE cell[(Cell(pos))'] = written[pos + 1]
      <4>1. pos \in Nat /\ front' <= pos /\ pos <= back + 1 /\ pos \in front .. back - 1
        BY <1>b, <2>1, <2>2
      <4>2. ChunkNo(pos) \in DOMAIN held'
        <5>1. ChunkNo(front') <= ChunkNo(pos) /\ ChunkNo(pos) <= ChunkNo(back + 1)
              /\ ChunkNo(pos) \in Nat /\ ChunkNo(front') \in Nat
          BY <1>n, <2>2, <4>1, Positions
        <5> QED
          BY <2>5, <2>6, <5>1
      <4> QED
        BY <1>a, <2>6, <4>1, <4>2 DEF Kept, Cell
    <3> QED
      BY <2>1, <3>1, <3>2 DEF Kept
  <2> QED
    BY <2>7, <2>8, <2>9, <2>10, <2>11 DEF PipeInv
<1> QED
  BY <1>1, <1>2, <1>3, <1>4 DEF PipeNext

\* The reader gets what was flushed in the order it was written, and an empty
\* pipe was empty, for any size of chunk and any use of memory again.
THEOREM PipeIsFifo == PipeSpec => []PipeDelivers
<1>1. PipeInit => PipeInv
  BY InitPipe
<1>2. PipeInv /\ [PipeNext]_pipeVars => PipeInv'
  BY StepPipe
<1>3. PipeInv => PipeDelivers
  <2> SUFFICES ASSUME PipeInv PROVE PipeDelivers
    OBVIOUS
  <2>1. /\ front \in Nat /\ back \in Nat /\ got \in Seq(Nat) /\ written \in Seq(Nat) /\ Len(got) = front
        /\ Len(written) = back /\ front <= w /\ front <= back /\ w \in Nat
    BY DEF PipeInv, PipeOK, InTurn
  <2>2. \A i \in 1 .. front : got[i] = written[i]
    BY DEF PipeInv, Kept
  <2>3. got = SubSeq(written, 1, front)
    BY <2>1, <2>2
  <2> QED
    BY <2>1, <2>3 DEF PipeInv, Meet, PipeDelivers
<1> QED
  BY <1>1, <1>2, <1>3, PTL DEF PipeSpec

-----------------------------------------------------------------------------
(* The pipe hands over in single steps                                      *)

\* A part of a sequence.
LEMMA PartOf ==
    ASSUME NEW s \in Seq(Nat), NEW a \in Nat, NEW b \in Nat, a <= b, b <= Len(s)
    PROVE  /\ SubSeq(s, a + 1, b) \in Seq(Nat) /\ Len(SubSeq(s, a + 1, b)) = b - a
           /\ \A i \in 1 .. b - a : SubSeq(s, a + 1, b)[i] = s[a + i]
<1>1. Len(SubSeq(s, a + 1, b)) = b - a
  OBVIOUS
<1>2. \A i \in 1 .. b - a : SubSeq(s, a + 1, b)[i] = s[a + i]
  BY SMTT(30)
<1>3. \A i \in a + 1 .. b : s[i] \in Nat
  OBVIOUS
<1>4. SubSeq(s, a + 1, b) \in Seq(Nat)
  BY <1>3
<1> QED
  BY <1>1, <1>2, <1>4

\* Sequences are the same if their items are.
LEMMA SameItems ==
    ASSUME NEW s \in Seq(Nat), NEW t \in Seq(Nat), Len(s) = Len(t), \A i \in 1 .. Len(s) : s[i] = t[i]
    PROVE  s = t
OBVIOUS

\* What was flushed and not read does not change where neither end moves.
LEMMA FlushedStays ==
    ASSUME PipeInv, got' = got, w' = w, written' \in Seq(Nat), w <= Len(written'),
           \A i \in 1 .. w : written'[i] = written[i]
    PROVE  [PipeHanded!Next]_PipeHanded!vars
<1>1. /\ written \in Seq(Nat) /\ Len(got) \in Nat /\ w \in Nat /\ Len(got) <= w /\ w <= Len(written)
  BY DEF PipeInv, PipeOK, InTurn
<1> DEFINE g == Len(got)
<1> DEFINE s == SubSeq(written, g + 1, w)
<1> DEFINE t == SubSeq(written', g + 1, w)
<1>2. /\ s \in Seq(Nat) /\ Len(s) = w - g /\ \A i \in 1 .. w - g : s[i] = written[g + i]
  BY <1>1, PartOf
<1>3. /\ t \in Seq(Nat) /\ Len(t) = w - g /\ \A i \in 1 .. w - g : t[i] = written'[g + i]
  BY <1>1, PartOf
<1>4. \A i \in 1 .. w - g : g + i \in 1 .. w
  BY <1>1
<1> HIDE DEF s, t
<1>5. s = t
  <2>1. \A i \in 1 .. w - g : s[i] = t[i]
    BY <1>2, <1>3, <1>4
  <2> QED
    BY <1>2, <1>3, <2>1, SameItems
<1>6. Flushed' = Flushed
  BY <1>5 DEF Flushed, s, t
<1> QED
  BY <1>6 DEF PipeHanded!vars

\* A flush puts what it flushes.
LEMMA FlushPuts ==
    ASSUME PipeInv, got' = got, written' = written, w' \in {w, f}
    PROVE  [PipeHanded!Next]_PipeHanded!vars
<1>1. /\ written \in Seq(Nat) /\ Len(got) \in Nat /\ w \in Nat /\ f \in Nat
      /\ Len(got) <= w /\ w <= f /\ f <= Len(written)
  BY DEF PipeInv, PipeOK, InTurn
<1> DEFINE g == Len(got)
<1> DEFINE s == SubSeq(written, g + 1, w)
<1> DEFINE t == SubSeq(written, g + 1, f)
<1>2. CASE w' = w
  <2>1. Flushed' = Flushed
    BY <1>2 DEF Flushed
  <2> QED
    BY <2>1 DEF PipeHanded!vars
<1>3. CASE w' = f /\ w < f
  <2>1. /\ s \in Seq(Nat) /\ Len(s) = w - g /\ \A i \in 1 .. w - g : s[i] = written[g + i]
    BY <1>1, PartOf
  <2>2. /\ t \in Seq(Nat) /\ Len(t) = f - g /\ \A i \in 1 .. f - g : t[i] = written[g + i]
    BY <1>1, PartOf
  <2>3. Flushed = s /\ Flushed' = t
    BY <1>3 DEF Flushed
  <2> HIDE DEF s, t
  <2>4. Len(s) \in Nat /\ Len(s) < Len(t) /\ Len(t) \in Nat /\ \A i \in 1 .. Len(s) : t[i] = s[i]
    <3>1. w - g < f - g /\ w - g \in Nat /\ f - g \in Nat
      BY <1>1, <1>3
    <3>2. \A i \in 1 .. w - g : i \in 1 .. f - g
      BY <1>1, <1>3
    <3> QED
      BY <2>1, <2>2, <3>1, <3>2
  <2>5. /\ SubSeq(t, 1, Len(s)) \in Seq(Nat) /\ Len(SubSeq(t, 1, Len(s))) = Len(s)
        /\ \A i \in 1 .. Len(s) : SubSeq(t, 1, Len(s))[i] = t[i]
    <3>1. 0 \in Nat /\ 0 <= Len(s) /\ Len(s) <= Len(t) /\ 0 + 1 = 1 /\ Len(s) - 0 = Len(s)
          /\ \A i \in 1 .. Len(s) : 0 + i = i
      BY <2>4
    <3> QED
      BY <2>2, <2>4, <3>1, PartOf
  <2>6. SubSeq(t, 1, Len(s)) = s
    BY <2>1, <2>4, <2>5
  <2> QED
    BY <2>3, <2>4, <2>6 DEF PipeHanded!Put, PipeHanded!Next
<1> QED
  BY <1>1, <1>2, <1>3

\* A read takes the first of what was flushed.
LEMMA ReadTakes ==
    ASSUME PipeInv, Read
    PROVE  PipeHanded!Take
<1>1. /\ written \in Seq(Nat) /\ got \in Seq(Nat) /\ Len(got) = front /\ front \in Nat /\ w \in Nat
      /\ front < w /\ w <= back /\ Len(written) = back /\ back \in Nat
  BY DEF PipeInv, PipeOK, InTurn, Meet, Read
<1>2. front \in front .. back - 1
  BY <1>1
<1>3. cell[Cell(front)] = written[front + 1]
  BY <1>2 DEF PipeInv, Kept
<1>4. got' = Append(got, written[front + 1]) /\ written' = written /\ w' = w
  BY <1>3 DEF Read
<1> DEFINE s == SubSeq(written, front + 1, w)
<1> DEFINE t == SubSeq(written, (front + 1) + 1, w)
<1>5. s \in Seq(Nat) /\ Len(s) = w - front /\ \A i \in 1 .. w - front : s[i] = written[front + i]
  BY <1>1, PartOf
<1>6. /\ t \in Seq(Nat) /\ Len(t) = w - (front + 1)
      /\ \A i \in 1 .. w - (front + 1) : t[i] = written[(front + 1) + i]
  <2>1. front + 1 \in Nat /\ front + 1 <= w
    BY <1>1
  <2> QED
    BY <1>1, <2>1, PartOf
<1>7. Len(got') = front + 1
  BY <1>1, <1>2, <1>4
<1>8. Flushed = s /\ Flushed' = t
  BY <1>1, <1>4, <1>7 DEF Flushed
<1> HIDE DEF s, t
<1>9. s # <<>> /\ Head(s) = written[front + 1]
  BY <1>1, <1>5
<1>10. t = Tail(s)
  <2>1. Tail(s) \in Seq(Nat) /\ Len(Tail(s)) = Len(s) - 1 /\ \A i \in 1 .. Len(s) - 1 : Tail(s)[i] = s[i + 1]
    BY <1>5, <1>9
  <2>2. Len(s) - 1 = w - (front + 1)
        /\ \A i \in 1 .. w - (front + 1) : i + 1 \in 1 .. w - front /\ front + (i + 1) = (front + 1) + i
    BY <1>1, <1>5
  <2>3. Len(t) = Len(Tail(s))
    BY <1>6, <2>1, <2>2
  <2>4. ASSUME NEW i \in 1 .. Len(t) PROVE t[i] = Tail(s)[i]
    <3>1. i \in 1 .. w - (front + 1)
      BY <1>6
    <3>2. i + 1 \in 1 .. w - front /\ front + (i + 1) = (front + 1) + i
      BY <2>2, <3>1
    <3>3. t[i] = written[(front + 1) + i]
      BY <1>6, <3>1
    <3>4. s[i + 1] = written[front + (i + 1)]
      BY <1>5, <3>2
    <3>5. Tail(s)[i] = s[i + 1]
      BY <2>1, <2>2, <3>1
    <3> QED
      BY <3>2, <3>3, <3>4, <3>5
  <2> QED
    BY <1>6, <2>1, <2>3, <2>4, SameItems
<1>11. ~PipeHanded!Ended
  <2>1. got # <<>> => got[Len(got)] \in Nat
    BY <1>1
  <2> QED
    BY <2>1 DEF PipeHanded!Ended, NULL
<1> QED
  BY <1>4, <1>8, <1>9, <1>10, <1>11 DEF PipeHanded!Take

\* Each step of the pipe is a put, a take, or neither.
LEMMA PipeStepRefines ==
    PipeInv /\ [PipeNext]_pipeVars => [PipeHanded!Next]_PipeHanded!vars
<1> SUFFICES ASSUME PipeInv, [PipeNext]_pipeVars PROVE [PipeHanded!Next]_PipeHanded!vars
  OBVIOUS
<1>1. /\ written \in Seq(Nat) /\ Len(written) = back /\ back \in Nat /\ w \in Nat /\ f \in Nat
      /\ w <= f /\ f <= back /\ writes \in Nat
  BY DEF PipeInv, PipeOK, InTurn
<1>2. ASSUME NEW incomplete \in BOOLEAN, Write(incomplete) PROVE [PipeHanded!Next]_PipeHanded!vars
  <2>1. written' = Append(written, writes + 1) /\ got' = got /\ w' = w
    BY <1>2 DEF Write
  <2>2. /\ written' \in Seq(Nat) /\ Len(written') = back + 1
        /\ \A i \in 1 .. back : written'[i] = written[i]
    BY <1>1, <2>1
  <2>3. w <= Len(written') /\ \A i \in 1 .. w : i \in 1 .. back
    BY <1>1, <2>2
  <2> QED
    BY <2>1, <2>2, <2>3, FlushedStays
<1>3. CASE Unwrite
  <2>1. written' = SubSeq(written, 1, back - 1) /\ got' = got /\ w' = w /\ f # back
    BY <1>3 DEF Unwrite
  <2>2. back - 1 \in Nat /\ w <= back - 1 /\ back - 1 <= Len(written) /\ 0 \in Nat /\ 0 <= back - 1
        /\ 0 + 1 = 1 /\ (back - 1) - 0 = back - 1
    BY <1>1, <2>1
  <2>3. /\ written' \in Seq(Nat) /\ Len(written') = back - 1
        /\ \A i \in 1 .. back - 1 : written'[i] = written[0 + i]
    BY <1>1, <2>1, <2>2, PartOf
  <2>4. \A i \in 1 .. w : i \in 1 .. back - 1 /\ 0 + i = i
    BY <1>1, <2>2
  <2> QED
    BY <2>1, <2>2, <2>3, <2>4, FlushedStays
<1>4. CASE Flush \/ FlushToSleeper
  <2>1. got' = got /\ written' = written /\ w' \in {w, f}
    BY <1>4 DEF Flush, FlushToSleeper
  <2> QED
    BY <2>1, FlushPuts
<1>5. CASE CheckRead \/ UNCHANGED pipeVars
  <2>1. got' = got /\ written' = written /\ w' = w
    BY <1>5 DEF CheckRead, pipeVars
  <2> QED
    BY <2>1, FlushPuts
<1>6. CASE Read
  BY <1>6, ReadTakes DEF PipeHanded!Next
<1> QED
  BY <1>2, <1>3, <1>4, <1>5, <1>6 DEF PipeNext

\* A flush of the pipe puts and a read takes in one step each, in order: the reader
\* never gets a part of a flush that did not happen, nor an item that was taken back,
\* however the accesses to the atomic pointer and to the chunks interleave.
THEOREM PipeHandsOverAtOnce == PipeSpec => PipeHandsOver
<1>1. PipeInit => PipeInv
  BY InitPipe
<1>2. PipeInit => PipeHanded!Init
  <2> SUFFICES ASSUME PipeInit PROVE PipeHanded!Init
    OBVIOUS
  <2>1. written = <<>> /\ got = <<>> /\ w = 0
    BY DEF PipeInit
  <2>2. Len(<<>>) = 0 /\ SubSeq(<<>>, 1, 0) = <<>> /\ 0 + 1 = 1
    OBVIOUS
  <2> QED
    BY <2>1, <2>2 DEF PipeHanded!Init, Flushed
<1>3. PipeInv /\ [PipeNext]_pipeVars => PipeInv'
  BY StepPipe
<1> QED
  BY <1>1, <1>2, <1>3, PipeStepRefines, PTL DEF PipeSpec, PipeHandsOver, PipeHanded!Spec
=============================================================================
