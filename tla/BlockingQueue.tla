--------------------------- MODULE BlockingQueue ---------------------------
(***************************************************************************)
(* mysdk's BlockingQueue, MutexLock, Condition and Thread, at the grain of *)
(* the mutex: threads put items, one thread takes them, and the thread     *)
(* that started it puts a STOP behind its own items and joins it. Every    *)
(* server hands work to its threads this way (WorkerThread, WriterThread,  *)
(* LogThread, phpThreadHandler); the modules of those take put and take as *)
(* one step each, which is what is shown here.                             *)
(***************************************************************************)
EXTENDS Naturals, Sequences, FiniteSets

CONSTANTS
    Putter,    \* threads that put
    Starter,   \* the one among them that starts, stops and joins the taking thread
    Taker,     \* the thread that takes
    MaxPuts,   \* bound: items each of them puts, STOP not counted
    MaxWakes   \* bound: wake-ups that nobody signalled

Free == "free"

ASSUME QueueAssumption ==
    /\ Starter \in Putter /\ Taker \notin Putter
    /\ Free \notin Putter \cup {Taker}
    /\ MaxPuts \in Nat /\ MaxWakes \in Nat

VARIABLES
    mutex,     \* who holds mutex_, Free if nobody does
    deque,     \* queue_: [by, n], n = 0 for STOP
    cond,      \* the taking thread on cond_: "not", "waits", "woken"
    doing,     \* thread -> what it does next
    nputs,     \* putter -> items put
    taken,     \* what take() returned, in order
    thread,    \* the Thread: "new", "started", "running", "finished", "joined"
    nwakes     \* use of the bound

queueVars == <<mutex, deque, cond, doing, nputs, taken, thread, nwakes>>

StopItem == [by |-> Starter, n |-> 0]

QueueInit ==
    /\ mutex = Free /\ deque = <<>> /\ cond = "not" /\ taken = <<>> /\ thread = "new"
    /\ doing = [p \in Putter \cup {Taker} |-> "out"]
    /\ nputs = [p \in Putter |-> 0] /\ nwakes = 0

\* MutexLockGuard: mutex_ is taken when it is free, and given back at the end.
Lock(t) == mutex = Free /\ mutex' = t
Unlock(t) == mutex = t /\ mutex' = Free

\* start: pthread_create; the thread runs whenever it likes.
StartThread ==
    /\ thread = "new" /\ thread' = "started"
    /\ UNCHANGED <<mutex, deque, cond, doing, nputs, taken, nwakes>>

\* runInThread: func_ is called, which takes.
RunInThread ==
    /\ thread = "started" /\ thread' = "running"
    /\ doing' = [doing EXCEPT ![Taker] = "take"]
    /\ UNCHANGED <<mutex, deque, cond, nputs, taken, nwakes>>

PutBegins(p) ==
    /\ doing[p] = "out" /\ nputs[p] < MaxPuts
    /\ Lock(p) /\ doing' = [doing EXCEPT ![p] = "put"]
    /\ UNCHANGED <<deque, cond, nputs, taken, thread, nwakes>>

\* notify: one thread that waits is woken, if there is one.
Notify == cond' = IF cond = "waits" THEN "woken" ELSE cond

PushBack(p) ==
    /\ doing[p] = "put" /\ doing' = [doing EXCEPT ![p] = "leave"]
    /\ nputs' = [nputs EXCEPT ![p] = @ + 1]
    /\ deque' = Append(deque, [by |-> p, n |-> nputs[p] + 1])
    /\ Notify
    /\ UNCHANGED <<mutex, taken, thread, nwakes>>

PutEnds(p) ==
    /\ doing[p] = "leave" /\ Unlock(p)
    /\ doing' = [doing EXCEPT ![p] = "out"]
    /\ UNCHANGED <<deque, cond, nputs, taken, thread, nwakes>>

\* stop: STOP is put as any item is, ...
StopBegins ==
    /\ thread \in {"started", "running"} /\ doing[Starter] = "out" /\ Lock(Starter)
    /\ doing' = [doing EXCEPT ![Starter] = "putStop"]
    /\ UNCHANGED <<deque, cond, nputs, taken, thread, nwakes>>
PushStop ==
    /\ doing[Starter] = "putStop" /\ doing' = [doing EXCEPT ![Starter] = "leaveStop"]
    /\ deque' = Append(deque, StopItem) /\ Notify
    /\ UNCHANGED <<mutex, nputs, taken, thread, nwakes>>
StopEnds ==
    /\ doing[Starter] = "leaveStop" /\ Unlock(Starter)
    /\ doing' = [doing EXCEPT ![Starter] = "join"]
    /\ UNCHANGED <<deque, cond, nputs, taken, thread, nwakes>>

\* ... and the thread is joined when func_ has returned.
Join ==
    /\ doing[Starter] = "join" /\ thread = "finished"
    /\ thread' = "joined" /\ doing' = [doing EXCEPT ![Starter] = "done"]
    /\ UNCHANGED <<mutex, deque, cond, nputs, taken, nwakes>>

TakeBegins ==
    /\ doing[Taker] = "take" /\ Lock(Taker)
    /\ doing' = [doing EXCEPT ![Taker] = "look"]
    /\ UNCHANGED <<deque, cond, nputs, taken, thread, nwakes>>

\* wait: mutex_ is given up and the thread sleeps in one step, ...
Wait ==
    /\ doing[Taker] = "look" /\ deque = <<>>
    /\ Unlock(Taker) /\ cond' = "waits" /\ doing' = [doing EXCEPT ![Taker] = "asleep"]
    /\ UNCHANGED <<deque, nputs, taken, thread, nwakes>>

\* ... POSIX may wake it without a signal, ...
WakeUnsignalled ==
    /\ cond = "waits" /\ cond' = "woken" /\ nwakes < MaxWakes /\ nwakes' = nwakes + 1
    /\ UNCHANGED <<mutex, deque, doing, nputs, taken, thread>>

\* MUTANT of WaitReturns: the queue is not looked at again (if for while).
WaitReturnsAtOnce ==
    /\ doing[Taker] = "asleep" /\ cond = "woken" /\ Lock(Taker)
    /\ cond' = "not" /\ doing' = [doing EXCEPT ![Taker] = "pop"]
    /\ UNCHANGED <<deque, nputs, taken, thread, nwakes>>

\* ... and it has mutex_ again when it returns, and looks again.
WaitReturns ==
    /\ doing[Taker] = "asleep" /\ cond = "woken" /\ Lock(Taker)
    /\ cond' = "not" /\ doing' = [doing EXCEPT ![Taker] = "look"]
    /\ UNCHANGED <<deque, nputs, taken, thread, nwakes>>

Look ==
    /\ doing[Taker] = "look" /\ deque # <<>>
    /\ doing' = [doing EXCEPT ![Taker] = "pop"]
    /\ UNCHANGED <<mutex, deque, cond, nputs, taken, thread, nwakes>>

\* front and pop_front, which are undefined on an empty deque: here nothing is left
\* of the order then.
PopFront ==
    /\ doing[Taker] = "pop" /\ doing' = [doing EXCEPT ![Taker] = "leave"]
    /\ IF deque = <<>> THEN taken' = Append(taken, [by |-> Taker, n |-> 0]) /\ UNCHANGED deque
       ELSE taken' = Append(taken, Head(deque)) /\ deque' = Tail(deque)
    /\ UNCHANGED <<mutex, cond, nputs, thread, nwakes>>

\* take returns, and func_ with it when it was STOP.
TakeEnds ==
    /\ doing[Taker] = "leave" /\ Unlock(Taker)
    /\ LET stops == taken[Len(taken)] = StopItem IN
       /\ doing' = [doing EXCEPT ![Taker] = IF stops THEN "done" ELSE "take"]
       /\ thread' = IF stops THEN "finished" ELSE thread
    /\ UNCHANGED <<deque, cond, nputs, taken, nwakes>>

TakerStep == RunInThread \/ TakeBegins \/ Wait \/ WaitReturns \/ Look \/ PopFront \/ TakeEnds

QueueNext ==
    \/ StartThread \/ StopBegins \/ PushStop \/ StopEnds \/ Join \/ WakeUnsignalled
    \/ TakerStep
    \/ \E p \in Putter : PutBegins(p) \/ PushBack(p) \/ PutEnds(p)

QueueSpec == QueueInit /\ [][QueueNext]_queueVars

-----------------------------------------------------------------------------
(* Properties                                                               *)

\* s holds everything the threads have put and nothing else, each item once, and
\* what one thread put in the order it put it.
AllInOrder(s) ==
    /\ \A i \in DOMAIN s : s[i].by \in Putter /\ s[i].n <= nputs[s[i].by]
    /\ \A p \in Putter : \A n \in 1 .. nputs[p] : \E i \in DOMAIN s : s[i] = [by |-> p, n |-> n]
    /\ \A i, j \in DOMAIN s : i < j /\ s[i].by = s[j].by /\ s[j].n > 0 => s[i].n < s[j].n

\* What every thread puts is taken once and in the order it put it, and nothing
\* else is; no wake-up is lost, whoever put it and whenever the taking thread went
\* to sleep; and a join that returned left nothing in the queue that was there
\* before STOP was.
QueueHandsOver ==
    /\ AllInOrder(taken \o deque)
    /\ cond = "waits" => deque = <<>>
    /\ thread = "joined" => /\ \A i \in DOMAIN deque : deque[i].by # Starter
                            /\ taken # <<>> /\ taken[Len(taken)] = StopItem

\* Put and take are one step each, though the mutex is taken and given back around
\* them: each put happens at the push, each take at the pop, and none after STOP.
Handed == INSTANCE Handover WITH waiting <- deque, passed <- taken, LastItem <- StopItem
HandsOver == Handed!Spec
=============================================================================
