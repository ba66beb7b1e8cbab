------------------------------ MODULE Startup ------------------------------
(***************************************************************************)
(* main of dbsrv, LoongBgSrv and bosssrv: the same steps in an order of    *)
(* their own, from the options to the end of the loop and what is undone   *)
(* after it. Processes of one machine share the pid file, whose path is    *)
(* absolute, and the port. A process may be killed at any moment.          *)
(***************************************************************************)
EXTENDS Naturals, Sequences, FiniteSets

CONSTANTS
    Process,     \* the processes of the server that run at a time
    CommandLine, \* what is asked for: says, cores, daemon, pidFile, user
    MaxPid       \* bound: process numbers given out

ASSUME StartAssumption ==
    /\ IsFiniteSet(Process) /\ MaxPid \in Nat
    /\ CommandLine \subseteq [says : {"run", "version", "unknown"}, cores : BOOLEAN,
                             daemon : BOOLEAN, pidFile : BOOLEAN, user : BOOLEAN]

VARIABLES
    prog,        \* which of the servers this is: it does not change
    procs,       \* process -> its state, or NoProcess
    pidFile,     \* the number in the pid file, or 0 for no file or no number
    port,        \* the number that listens on the port, or 0
    howEnded,    \* process number -> how it ended: "no", "ok", "failed", "killed", or
                 \* "left" when it returned 0 after it said that its pid file is still there
    lastPid      \* the last number given out

startVars == <<prog, procs, pidFile, port, howEnded, lastPid>>

NoProcess == [pid |-> 0]

DBSrvBegins == <<"options", "path", "cores", "files">>
DBSrvServes == <<"user", "daemon", "pid", "config", "log", "serve", "stop", "unpid", "unlog">>
BgBegins == <<"options", "path", "config", "cores", "files">>
BgServes == <<"user", "daemon", "pid", "base", "serve", "stop", "unpid">>
BossBegins == <<"options", "path", "config", "cores", "files">>
BossServes == <<"user", "daemon", "pid", "serve", "stop", "unpid">>

\* MUTANT of Main: the pid file is saved before the fork.
MainSavingFirst ==
    CASE prog = "dbsrv" -> DBSrvBegins \o <<"user", "pid", "daemon">> \o SubSeq(DBSrvServes, 4, 9)
      [] prog = "bg"    -> BgBegins \o BgServes
      [] prog = "boss"  -> BossBegins \o BossServes

Main ==
    CASE prog = "dbsrv" -> DBSrvBegins \o DBSrvServes
      [] prog = "bg"    -> BgBegins \o BgServes
      [] prog = "boss"  -> BossBegins \o BossServes

\* The threads of a server that serves, beside its loop.
ThreadsOf == IF prog = "dbsrv" THEN {"workers", "writers"} ELSE {"php"}

-----------------------------------------------------------------------------
(* How a step ends                                                          *)

At(p, step) ==
    /\ procs[p] # NoProcess
    /\ procs[p].step <= Len(Main) /\ Main[procs[p].step] = step

Goes(p, state) == procs' = [procs EXCEPT ![p] = [state EXCEPT !.step = @ + 1]]

\* return -1, exit, abort, a signal: the system closes the port, and keeps the file.
Ends(p, how) ==
    /\ procs' = [procs EXCEPT ![p] = NoProcess]
    /\ howEnded' = [howEnded EXCEPT ![procs[p].pid] = how]
    /\ port' = IF port = procs[p].pid THEN 0 ELSE port

-----------------------------------------------------------------------------
(* The steps                                                                *)

Launch(p, asked, root) ==
    /\ procs[p] = NoProcess /\ p = CHOOSE q \in Process : procs[q] = NoProcess
    /\ lastPid + Cardinality(Process) <= MaxPid    \* so that all may fork
    /\ lastPid' = lastPid + 1
    /\ procs' = [procs EXCEPT ![p] =
          [pid |-> lastPid + 1, asked |-> asked, root |-> root, step |-> 1,
           cores |-> FALSE, files |-> FALSE, config |-> FALSE, threads |-> {}, kept |-> FALSE]]
    /\ UNCHANGED <<prog, pidFile, port, howEnded>>

\* getopt: the version and the help, an unknown letter, or the options.
Options(p) ==
    /\ At(p, "options")
    /\ CASE procs[p].asked.says = "version" -> Ends(p, "ok")
         [] procs[p].asked.says = "unknown" -> Ends(p, "failed")
         [] OTHER -> Goes(p, procs[p]) /\ UNCHANGED <<howEnded, port>>
    /\ UNCHANGED <<prog, pidFile, lastPid>>

\* A step that succeeds, with what it changes, or that ends the process.
Tries(p, step, ok, state) ==
    /\ At(p, step)
    /\ IF ok THEN Goes(p, state) /\ UNCHANGED <<howEnded, port>> ELSE Ends(p, "failed")
    /\ UNCHANGED <<prog, pidFile, lastPid>>

\* The path of the environment, or that of the working directory.
FindPath(p, ok) == Tries(p, "path", ok, procs[p])

\* -r: cores without a limit, or up to the hard limit, which may be none.
MaximizeCores(p, hard) ==
    Tries(p, "cores", procs[p].asked.cores => procs[p].root \/ hard,
          [procs[p] EXCEPT !.cores = procs[p].root \/ hard])

\* As many descriptors as connections.
RaiseFiles(p, hard) == Tries(p, "files", procs[p].root \/ hard, [procs[p] EXCEPT !.files = TRUE])

\* Lose root privileges, to the user of -u, if there is one.
DropRoot(p, known) ==
    Tries(p, "user", procs[p].root => procs[p].asked.user /\ known, [procs[p] EXCEPT !.root = FALSE])

\* daemonize: the parent exits with success whatever becomes of the child, and only
\* the thread that forks lives on in it.
Forks(p, ok) ==
    /\ lastPid < MaxPid /\ lastPid' = lastPid + 1
    /\ howEnded' = [howEnded EXCEPT ![procs[p].pid] = "ok", ![lastPid + 1] = IF ok THEN "no" ELSE "failed"]
    /\ IF ok THEN Goes(p, [procs[p] EXCEPT !.pid = lastPid + 1, !.threads = {}])
             ELSE procs' = [procs EXCEPT ![p] = NoProcess]
    /\ UNCHANGED <<prog, pidFile, port>>

Daemonize(p, ok) ==
    /\ At(p, "daemon")
    /\ IF procs[p].asked.daemon
       THEN Forks(p, ok)
       ELSE ok /\ Goes(p, procs[p]) /\ UNCHANGED <<prog, pidFile, port, howEnded, lastPid>>

ForkFails(p) == At(p, "daemon") /\ procs[p].asked.daemon /\ Tries(p, "daemon", FALSE, procs[p])

HasPidFile(p) == procs[p].asked.daemon /\ procs[p].asked.pidFile

\* save_pid: a file that cannot be opened, or not be closed, is only told of; what was
\* in it is gone once it is open.
SavePid(p, opens, closes) ==
    /\ At(p, "pid") /\ Goes(p, procs[p])
    /\ pidFile' = IF HasPidFile(p) /\ opens THEN (IF closes THEN procs[p].pid ELSE 0) ELSE pidFile
    /\ UNCHANGED <<prog, port, howEnded, lastPid>>

SetSource(p, ok) == Tries(p, "config", ok, [procs[p] EXCEPT !.config = TRUE])
StartLog(p) == Tries(p, "log", TRUE, [procs[p] EXCEPT !.threads = @ \cup {"log"}])

\* Base::init: the tables of buffs, items, pets and skills; the pool that it opens
\* is closed again.
InitBase(p, ok) == Tries(p, "base", ok, procs[p])

\* bindOrDie in the constructor of the server; then its threads, and the loop.
Serve(p) ==
    /\ At(p, "serve")
    /\ IF port # 0 THEN Ends(p, "killed")
       ELSE /\ port' = procs[p].pid /\ UNCHANGED howEnded
            /\ Goes(p, [procs[p] EXCEPT !.threads = @ \cup ThreadsOf])
    /\ UNCHANGED <<prog, pidFile, lastPid>>

\* SIGTERM: the loop ends, and stop() joins the threads of the server.
StopServer(p) == Tries(p, "stop", TRUE, [procs[p] EXCEPT !.threads = @ \ ThreadsOf])

\* remove_pidfile: an unlink that fails, in a directory that the user of -u may not
\* write, is only told of.
RemovePid(p, removable) ==
    /\ At(p, "unpid")
    /\ Goes(p, [procs[p] EXCEPT !.kept = HasPidFile(p) /\ ~removable])
    /\ pidFile' = IF HasPidFile(p) /\ removable THEN 0 ELSE pidFile
    /\ UNCHANGED <<prog, port, howEnded, lastPid>>

StopLog(p) == Tries(p, "unlog", TRUE, [procs[p] EXCEPT !.threads = @ \ {"log"}])

\* return 0
Returns(p) ==
    /\ procs[p] # NoProcess /\ procs[p].step > Len(Main)
    /\ Ends(p, IF procs[p].kept THEN "left" ELSE "ok") /\ UNCHANGED <<prog, pidFile, lastPid>>

Kill(p) == procs[p] # NoProcess /\ Ends(p, "killed") /\ UNCHANGED <<prog, pidFile, lastPid>>

StartInit ==
    /\ prog \in {"dbsrv", "bg", "boss"}
    /\ procs = [p \in Process |-> NoProcess] /\ pidFile = 0 /\ port = 0 /\ lastPid = 0
    /\ howEnded = [n \in 1 .. MaxPid |-> "no"]

StartNext ==
    \E p \in Process :
       \/ \E a \in CommandLine, root \in BOOLEAN : Launch(p, a, root)
       \/ \E ok \in BOOLEAN :
             \/ FindPath(p, ok) \/ MaximizeCores(p, ok) \/ RaiseFiles(p, ok) \/ DropRoot(p, ok)
             \/ Daemonize(p, ok) \/ RemovePid(p, ok) \/ SetSource(p, ok) \/ InitBase(p, ok)
       \/ Options(p) \/ ForkFails(p) \/ StartLog(p) \/ Serve(p) \/ StopServer(p)
       \/ \E opens, closes \in BOOLEAN : SavePid(p, opens, closes)
       \/ StopLog(p) \/ Returns(p) \/ Kill(p)

StartSpec == StartInit /\ [][StartNext]_startVars

-----------------------------------------------------------------------------
(* Properties                                                               *)

Serves(p) == At(p, "stop")

\* A server that serves has what its command line asks for: no root, the descriptors
\* for its connections, cores if asked, its settings, and every thread that it
\* started, none of which was lost in the fork.
ServesAsAsked ==
    \A p \in Process : Serves(p) =>
        /\ ~procs[p].root /\ procs[p].files /\ procs[p].config /\ port = procs[p].pid
        /\ procs[p].asked.cores => procs[p].cores
        /\ procs[p].threads = ThreadsOf
                              \cup (IF prog = "dbsrv" THEN {"log"} ELSE {})

\* The pid file never names a process that ended as it should and said nothing: one
\* that it still names has failed, was killed, or told that it could not remove it.
PidFileTells == pidFile # 0 => howEnded[pidFile] # "ok"

StartsInOrder == ServesAsAsked /\ PidFileTells
=============================================================================
