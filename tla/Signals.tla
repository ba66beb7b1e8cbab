------------------------------ MODULE Signals ------------------------------
(***************************************************************************)
(* How the servers take signals (DBSrv.cc, LoongBgSrv.cc, BossSrv.cc). A   *)
(* signal interrupts a thread wherever it is, and its handler logs: that   *)
(* takes the locks of the heap and, in dbsrv, the mutex of the log queue,  *)
(* which the interrupted thread may hold. A handler is only called once,   *)
(* SA_RESETHAND: the next signal of that number ends the process.          *)
(***************************************************************************)
EXTENDS Naturals, Sequences, SequencesExt

CONSTANTS
    SigThread,    \* threads of a server
    MaxSignals,   \* bound: signals that come
    MaxWork       \* bound: lines that threads log

VARIABLES
    sigServer,  \* which one it is
    handler,    \* signal -> "default", "sigterm", "sigsegv", "note"
    shutdownAsked, \* shutdownSrv, shutdown_loongBgSrv, shutdown_bossSrv
    todo,       \* thread -> the steps it has before it, the handler's first
    heldBy,     \* lock -> the thread that holds it, NoThread
    gone,       \* how the process ended: "no", "returned", or the signal
    caught,     \* the signals that came
    nsignals, nwork   \* use of the bounds

signalVars == <<sigServer, handler, shutdownAsked, todo, heldBy, gone, caught,
                nsignals, nwork>>

NoThread == "none"
ASSUME SignalsAssumption == NoThread \notin SigThread

Ending == {"TERM", "INT"}
Crash == {"SEGV", "BUS"}
User == {"USR1", "USR2"}
Signal == Ending \cup Crash \cup User
Locks == {"heap", "queue"}

Take(l) == <<"lock", l>>
Give(l) == <<"unlock", l>>

\* A line of the log: LOGEX_ has a buffer allocated and puts it on the queue of the
\* log thread, LOG_ writes what it has formatted itself.
LogexLine == <<Take("heap"), Give("heap"), Take("queue"), Take("heap"), Give("heap"), Give("queue")>>
LogLine == <<Take("heap"), Give("heap")>>
Line == IF sigServer = "dbsrv" THEN LogexLine ELSE LogLine

\* backtrace_symbols allocates what it returns.
BugReport == Line \o Line \o <<Take("heap"), Give("heap")>> \o Line

\* sigsegvHandler: the report, then the signal again, by default.
SigsegvHandler(sig) == BugReport \o <<<<"default", sig>>, <<"kill", sig>>>>

\* MUTANT of SigtermHandler: the line is written and the flag is not.
SigtermHandlerNoted(sig) == Line

\* sigtermHandler
SigtermHandler(sig) == Line \o <<<<"shutdown", sig>>>>

\* reReadConfHandler and openActHandler of bosssrv, which only log; the thread does
\* not take the signal again before they return.
NoteHandler(sig) == Line \o <<<<"unblock", sig>>>>

Handling(sig) ==
    CASE handler[sig] = "sigterm" -> SigtermHandler(sig)
      [] handler[sig] = "sigsegv" -> SigsegvHandler(sig)
      [] handler[sig] = "note" -> NoteHandler(sig)

\* setupSignalHandlers; bosssrv has two more.
SetupSignalHandlers ==
    [sig \in Signal |->
       IF sig \in Ending THEN "sigterm" ELSE IF sig \in Crash THEN "sigsegv" ELSE "default"]
SetupBossHandlers ==
    [sig \in Signal |-> IF sig \in User THEN "note" ELSE SetupSignalHandlers[sig]]

SignalsInit ==
    /\ sigServer \in {"dbsrv", "bg", "boss"}
    /\ handler = IF sigServer = "boss" THEN SetupBossHandlers ELSE SetupSignalHandlers
    /\ shutdownAsked = FALSE /\ todo = [t \in SigThread |-> <<>>]
    /\ heldBy = [l \in Locks |-> NoThread]
    /\ gone = "no" /\ caught = {} /\ nsignals = 0 /\ nwork = 0

\* A thread logs a line.
Logs(t) ==
    /\ gone = "no" /\ todo[t] = <<>> /\ nwork < MaxWork /\ nwork' = nwork + 1
    /\ todo' = [todo EXCEPT ![t] = Line]
    /\ UNCHANGED <<sigServer, handler, shutdownAsked, heldBy, gone, caught, nsignals>>

\* A signal: from outside for whichever thread, or the crash of that thread; one that
\* is in a handler takes it too, SA_NODEFER. The handler is set back to the default.
Raise(sig, t) ==
    /\ gone = "no" /\ nsignals < MaxSignals /\ nsignals' = nsignals + 1
    /\ <<"unblock", sig>> \notin Range(todo[t])
    /\ caught' = caught \cup {sig}
    /\ IF handler[sig] = "default"
       THEN gone' = sig /\ UNCHANGED <<handler, todo>>
       ELSE /\ todo' = [todo EXCEPT ![t] = Handling(sig) \o @]
            /\ handler' = IF handler[sig] = "note" THEN handler
                          ELSE [handler EXCEPT ![sig] = "default"]
            /\ UNCHANGED gone
    /\ UNCHANGED <<sigServer, shutdownAsked, heldBy, nwork>>

\* The next step of a thread, in a process that has not ended.
Does(t, step) ==
    /\ gone = "no" /\ todo[t] # <<>> /\ Head(todo[t]) = step
    /\ todo' = [todo EXCEPT ![t] = Tail(@)]
    /\ UNCHANGED <<sigServer, caught, nsignals, nwork>>

\* The mutex of the queue and the lock of the heap, neither of them recursive.
Acquire(t, l) ==
    /\ Does(t, Take(l)) /\ heldBy[l] = NoThread /\ heldBy' = [heldBy EXCEPT ![l] = t]
    /\ UNCHANGED <<handler, shutdownAsked, gone>>
Release(t, l) ==
    /\ Does(t, Give(l)) /\ heldBy' = [heldBy EXCEPT ![l] = NoThread]
    /\ UNCHANGED <<handler, shutdownAsked, gone>>

ScheduleShutdown(t, sig) ==
    /\ Does(t, <<"shutdown", sig>>) /\ shutdownAsked' = TRUE /\ UNCHANGED <<handler, heldBy, gone>>
SetDefault(t, sig) ==
    /\ Does(t, <<"default", sig>>) /\ handler' = [handler EXCEPT ![sig] = "default"]
    /\ UNCHANGED <<shutdownAsked, heldBy, gone>>
KillSelf(t, sig) ==
    /\ Does(t, <<"kill", sig>>) /\ gone' = sig /\ UNCHANGED <<handler, shutdownAsked, heldBy>>
NoteReturns(t, sig) ==
    /\ Does(t, <<"unblock", sig>>) /\ UNCHANGED <<handler, shutdownAsked, heldBy, gone>>

\* tickMe quits the loop, and main stops and joins the other threads and returns.
TickQuits ==
    /\ gone = "no" /\ shutdownAsked /\ \A t \in SigThread : todo[t] = <<>>
    /\ gone' = "returned"
    /\ UNCHANGED <<sigServer, handler, shutdownAsked, todo, heldBy, caught, nsignals, nwork>>

SignalStep ==
    \/ \E t \in SigThread :
        \/ \E l \in Locks : Acquire(t, l) \/ Release(t, l)
        \/ \E sig \in Ending : ScheduleShutdown(t, sig)
        \/ \E sig \in Crash : SetDefault(t, sig) \/ KillSelf(t, sig)
        \/ \E sig \in User : NoteReturns(t, sig)
    \/ TickQuits

SignalsNext ==
    \/ SignalStep
    \/ \E t \in SigThread : Logs(t) \/ \E sig \in Signal : Raise(sig, t)

SignalsSpec == SignalsInit /\ [][SignalsNext]_signalVars

-----------------------------------------------------------------------------
(* Properties                                                               *)

\* The thread waits for a lock that it holds: the handler it is in interrupted it
\* between taking that lock and giving it back.
SelfLocked(t) == \E l \in Locks : heldBy[l] = t /\ todo[t] # <<>> /\ Head(todo[t]) = Take(l)

\* The thread has a step before it that nothing keeps it from.
Moves(t) == todo[t] # <<>> /\ \A l \in Locks : Head(todo[t]) = Take(l) => heldBy[l] = NoThread

\* A server that was asked to end, or crashed, comes to its end, since every thread has
\* only so many steps before it: something is always left that can be done, to the
\* return from main or to the signal of the crash. All that can keep it is a thread
\* that waits for its own lock. After a crash main never returns.
SignalsEndIt ==
    /\ caught \cap (Ending \cup Crash) # {} /\ gone = "no" =>
           \/ \E t \in SigThread : Moves(t) \/ SelfLocked(t)
           \/ shutdownAsked /\ \A t \in SigThread : todo[t] = <<>>
    /\ gone = "returned" => caught \cap Ending # {} /\ caught \cap Crash = {}
=============================================================================
