------------------------------ MODULE LogFiles ------------------------------
(***************************************************************************)
(* LogThread of dbsrv and its files: lines queue up for one thread, which  *)
(* appends them to "dbsrv<kind>.log+" and, when it has counted maxlines,   *)
(* renames the file by the second of the clock. The process may crash and  *)
(* be started again, and then goes on with the file that it finds.         *)
(*                                                                         *)
(* What DBSrvStore says of the log is that a write that fails is handed to *)
(* it; here is what becomes of the line.                                   *)
(***************************************************************************)
EXTENDS Naturals, Sequences, SequencesExt

CONSTANTS
    LogKind,      \* the files: NORMAL, RECOVER
    MaxLines,     \* log.maxlines
    MaxLogged,    \* bound: lines that are logged
    MaxSeconds,   \* bound: the clock
    MaxStarts     \* bound: starts of the process

ASSUME LogAssumption ==
    /\ "stop" \notin LogKind
    /\ MaxLines \in Nat \ {0} /\ MaxLogged \in Nat /\ MaxSeconds \in Nat /\ MaxStarts \in Nat

VARIABLES
    logState,     \* of the thread: "off", "on", "stopping" (bstart_ is false), "joined"
    logQueue,     \* queue_: lines, and Stop
    opened,       \* kind -> files_ is open
    counted,      \* kind -> lines_
    plusFile,     \* kind -> the lines of the file that is written
    archive,      \* kind -> second -> the lines of the file renamed then
    place,        \* what the process may do: write to its directory, rename to log/
    took,         \* kind -> every line that the thread wrote
    replaced,     \* kind -> the lines of files that a later rename replaced
    second, nlogged, nstarts

logFileVars == <<logState, logQueue, opened, counted, plusFile, archive, place, took,
                 replaced, second, nlogged, nstarts>>

StopLine == [kind |-> "stop", n |-> 0]
NoLines == [k \in LogKind |-> <<>>]
NoFile == [k \in LogKind |-> FALSE]

\* start: the thread begins, with no file open and nothing counted.
StartLogThread(p) ==
    /\ logState = "off" /\ nstarts < MaxStarts /\ nstarts' = nstarts + 1
    /\ logState' = "on" /\ logQueue' = <<>> /\ place' = p
    /\ opened' = NoFile /\ counted' = [k \in LogKind |-> 0]
    /\ UNCHANGED <<plusFile, archive, took, replaced, second, nlogged>>

\* log and rawLog: any thread, any time; only while bstart_ is set.
PutLine(k) ==
    /\ nlogged < MaxLogged /\ nlogged' = nlogged + 1
    /\ logQueue' = IF logState = "on" THEN Append(logQueue, [kind |-> k, n |-> nlogged + 1])
                   ELSE logQueue
    /\ logState # "off"
    /\ UNCHANGED <<logState, opened, counted, plusFile, archive, place, took, replaced,
                   second, nstarts>>

\* stop: no more lines, and one item behind those that are queued.
StopLogThread ==
    /\ logState = "on" /\ logState' = "stopping" /\ logQueue' = Append(logQueue, StopLine)
    /\ UNCHANGED <<opened, counted, plusFile, archive, place, took, replaced, second,
                   nlogged, nstarts>>

\* MUTANT of CreateFile: the file is opened to be took anew.
CreateFileAnew(k) == IF opened[k] THEN plusFile[k] ELSE <<>>

\* createFile: opened to append.
CreateFile(k) == plusFile[k]

\* renameLog: by the second, over a file of that name; or not, for want of the
\* directory.
RenameLog(k, lines) ==
    LET old == archive[k][second] IN
    IF place.renames
    THEN /\ archive' = [archive EXCEPT ![k][second] = lines]
         /\ replaced' = [replaced EXCEPT ![k] = @ \o old]
         /\ plusFile' = [plusFile EXCEPT ![k] = <<>>]
    ELSE /\ plusFile' = [plusFile EXCEPT ![k] = lines] /\ UNCHANGED <<archive, replaced>>

Full(k) == counted[k] + 1 >= MaxLines

\* threadHandler for a line: took and flushed, and the file is rotated; a file
\* that cannot be opened loses the line.
TakeLine ==
    /\ logQueue # <<>> /\ Head(logQueue) # StopLine /\ logState \in {"on", "stopping"}
    /\ logQueue' = Tail(logQueue)
    /\ LET k == Head(logQueue).kind
           lines == Append(CreateFile(k), Head(logQueue).n) IN
       IF ~place.writes
       THEN UNCHANGED <<opened, counted, plusFile, archive, took, replaced>>
       ELSE /\ opened' = [opened EXCEPT ![k] = TRUE]
            /\ took' = [took EXCEPT ![k] = Append(@, Head(logQueue).n)]
            /\ IF Full(k)
               THEN RenameLog(k, lines) /\ counted' = [counted EXCEPT ![k] = 0]
               ELSE /\ plusFile' = [plusFile EXCEPT ![k] = lines]
                    /\ counted' = [counted EXCEPT ![k] = @ + 1]
                    /\ UNCHANGED <<archive, replaced>>
    /\ UNCHANGED <<logState, place, second, nlogged, nstarts>>

\* threadHandler for the stop: it ends, and stop() has joined it.
TakeStopLine ==
    /\ logState = "stopping" /\ logQueue # <<>> /\ Head(logQueue) = StopLine
    /\ logState' = "joined" /\ logQueue' = Tail(logQueue)
    /\ UNCHANGED <<opened, counted, plusFile, archive, place, took, replaced, second,
                   nlogged, nstarts>>

\* ~LogThread, when main has returned: a file that is open is closed and renamed.
Destruct(k) ==
    /\ logState = "joined" /\ opened[k]
    /\ opened' = [opened EXCEPT ![k] = FALSE] /\ RenameLog(k, plusFile[k])
    /\ UNCHANGED <<logState, logQueue, counted, place, took, second, nlogged, nstarts>>

ProcessEnds ==
    /\ logState = "joined" /\ opened = NoFile /\ logState' = "off"
    /\ UNCHANGED <<logQueue, opened, counted, plusFile, archive, place, took, replaced,
                   second, nlogged, nstarts>>

\* A crash takes the queue with it, and leaves the files.
LogCrash ==
    /\ logState # "off" /\ logState' = "off" /\ logQueue' = <<>> /\ opened' = NoFile
    /\ UNCHANGED <<counted, plusFile, archive, place, took, replaced, second, nlogged, nstarts>>

SecondPasses ==
    /\ second < MaxSeconds /\ second' = second + 1
    /\ UNCHANGED <<logState, logQueue, opened, counted, plusFile, archive, place, took,
                   replaced, nlogged, nstarts>>

LogInit ==
    /\ logState = "off" /\ logQueue = <<>> /\ opened = NoFile
    /\ counted = [k \in LogKind |-> 0] /\ place = [writes |-> TRUE, renames |-> TRUE]
    /\ plusFile = NoLines /\ took = NoLines /\ replaced = NoLines
    /\ archive = [k \in LogKind |-> [s \in 0 .. MaxSeconds |-> <<>>]]
    /\ second = 0 /\ nlogged = 0 /\ nstarts = 0

LogNext ==
    \/ \E writes, renames \in BOOLEAN : StartLogThread([writes |-> writes, renames |-> renames])
    \/ \E k \in LogKind : PutLine(k) \/ Destruct(k)
    \/ StopLogThread \/ TakeLine \/ TakeStopLine \/ ProcessEnds \/ LogCrash \/ SecondPasses

LogSpec == LogInit /\ [][LogNext]_logFileVars

-----------------------------------------------------------------------------
(* Properties                                                               *)

\* The files of a kind by their seconds, and the one that is written after all of them.
Files(k) == [s \in 0 .. MaxSeconds + 1 |-> IF s <= MaxSeconds THEN archive[k][s] ELSE plusFile[k]]

InOrderOfLogging(files) ==
    \A s, t \in DOMAIN files : \A i \in DOMAIN files[s], j \in DOMAIN files[t] :
        s < t \/ (s = t /\ i < j) => files[s][i] < files[t][j]

LinesIn(files) == UNION {ToSet(files[s]) : s \in DOMAIN files}

\* A line that the thread wrote is in a file for good, once and in the order it was
\* logged in, over crashes, restarts, rotations and failing renames; all that is
\* ever lost are the whole files that a second rename in the same second replaces.
LinesAreKept ==
    \A k \in LogKind :
        /\ InOrderOfLogging(Files(k))
        /\ LinesIn(Files(k)) = ToSet(took[k]) \ ToSet(replaced[k])
=============================================================================
