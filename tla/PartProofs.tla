----------------------------- MODULE PartProofs -----------------------------
(***************************************************************************)
(* Proofs about the parts that share no state with the others: the signals *)
(* of a server, its way from the command line to its end, the pool of      *)
(* connections to MySQL, the connection a client keeps up, the base tables *)
(* of LoongBgSrv, the messages that the scripts of dbsrv hold, the files   *)
(* of its log, and the prizes of bosssrv.                                  *)
(***************************************************************************)
EXTENDS Signals, Startup, Database, NetClient, BaseTables, LuaMessages, LogFiles,
    BossSrv, SequenceTheorems, FiniteSetTheorems, TLAPS

-----------------------------------------------------------------------------
(* What a thread has before it                                              *)

Steps == {"lock", "unlock", "shutdown", "default", "kill", "unblock"} \X (Locks \cup Signal)

Has(s, x) == \E i \in 1 .. Len(s) : s[i] = x

\* The heap is given back at once, the queue at some time.
Whole(s) ==
    /\ \A i \in 1 .. Len(s) : s[i] = Take("heap") => i < Len(s) /\ s[i + 1] = Give("heap")
    /\ \A i \in 1 .. Len(s) : s[i] = Take("queue") =>
          \E j \in 1 .. Len(s) : i < j /\ s[j] = Give("queue")

LEMMA StepsDiffer ==
    /\ \A l \in Locks : Take(l) \in Steps /\ Give(l) \in Steps
    /\ \A l \in Locks, m \in Locks : Take(l) # Give(m) /\ (l # m => Take(l) # Take(m) /\ Give(l) # Give(m))
    /\ \A l \in Locks, x \in Signal, w \in {"shutdown", "default", "kill", "unblock"} :
          <<w, x>> \in Steps /\ <<w, x>> # Take(l) /\ <<w, x>> # Give(l)
BY DEF Steps, Take, Give, Locks

LEMMA ShortSeqs ==
    ASSUME NEW S, NEW a \in S, NEW b \in S
    PROVE  /\ <<a>> \in Seq(S) /\ Len(<<a>>) = 1 /\ <<a>>[1] = a /\ 1 .. Len(<<a>>) = {1}
           /\ <<a, b>> \in Seq(S) /\ Len(<<a, b>>) = 2 /\ <<a, b>>[1] = a /\ <<a, b>>[2] = b
           /\ 1 .. Len(<<a, b>>) = {1, 2}
OBVIOUS

LEMMA HasJoined ==
    ASSUME NEW S, NEW a \in Seq(S), NEW b \in Seq(S), NEW x
    PROVE  a \o b \in Seq(S) /\ (Has(a \o b, x) <=> Has(a, x) \/ Has(b, x))
<1>1. /\ a \o b \in Seq(S) /\ Len(a \o b) = Len(a) + Len(b) /\ Len(a) \in Nat /\ Len(b) \in Nat
      /\ \A i \in 1 .. Len(a) : (a \o b)[i] = a[i]
      /\ \A i \in 1 .. Len(b) : (a \o b)[Len(a) + i] = b[i]
  OBVIOUS
<1> DEFINE c == a \o b
<1> HIDE DEF c
<1>2. ASSUME Has(c, x) PROVE Has(a, x) \/ Has(b, x)
  <2>1. PICK i \in 1 .. Len(c) : c[i] = x
    BY <1>2 DEF Has
  <2>2. CASE i <= Len(a)
    BY <1>1, <2>1, <2>2 DEF Has, c
  <2>3. CASE i > Len(a)
    <3>1. i - Len(a) \in 1 .. Len(b) /\ Len(a) + (i - Len(a)) = i
      BY <1>1, <2>1, <2>3 DEF c
    <3> QED
      BY <1>1, <2>1, <3>1 DEF Has, c
  <2> QED
    BY <1>1, <2>1, <2>2, <2>3
<1>3. ASSUME Has(a, x) PROVE Has(c, x)
  BY <1>1, <1>3 DEF Has, c
<1>4. ASSUME Has(b, x) PROVE Has(c, x)
  <2>1. PICK i \in 1 .. Len(b) : b[i] = x
    BY <1>4 DEF Has
  <2>2. Len(a) + i \in 1 .. Len(c) /\ c[Len(a) + i] = x
    BY <1>1, <2>1 DEF c
  <2> QED
    BY <2>2 DEF Has
<1> QED
  BY <1>1, <1>2, <1>3, <1>4 DEF c

LEMMA WholeJoined ==
    ASSUME NEW S, NEW a \in Seq(S), NEW b \in Seq(S), Whole(a), Whole(b)
    PROVE  Whole(a \o b)
<1>1. /\ Len(a \o b) = Len(a) + Len(b) /\ Len(a) \in Nat /\ Len(b) \in Nat
      /\ \A i \in 1 .. Len(a) : (a \o b)[i] = a[i]
      /\ \A i \in 1 .. Len(b) : (a \o b)[Len(a) + i] = b[i]
  OBVIOUS
<1> DEFINE c == a \o b
<1> HIDE DEF c
<1>2. \A i \in 1 .. Len(c) :
         \/ i \in 1 .. Len(a) /\ c[i] = a[i]
         \/ \E k \in 1 .. Len(b) : i = Len(a) + k /\ c[i] = b[k]
  <2> SUFFICES ASSUME NEW i \in 1 .. Len(c), ~(i <= Len(a))
               PROVE  \E k \in 1 .. Len(b) : i = Len(a) + k /\ c[i] = b[k]
    BY <1>1 DEF c
  <2>1. i - Len(a) \in 1 .. Len(b) /\ i = Len(a) + (i - Len(a))
    BY <1>1 DEF c
  <2> QED
    BY <1>1, <2>1 DEF c
<1>3. ASSUME NEW i \in 1 .. Len(c), c[i] = Take("heap")
      PROVE  i < Len(c) /\ c[i + 1] = Give("heap")
  <2>1. CASE i \in 1 .. Len(a) /\ c[i] = a[i]
    <3>1. i < Len(a) /\ a[i + 1] = Give("heap")
      BY <1>3, <2>1 DEF Whole
    <3>2. i + 1 \in 1 .. Len(a)
      BY <1>1, <2>1, <3>1
    <3> QED
      BY <1>1, <3>1, <3>2 DEF c
  <2>2. ASSUME NEW k \in 1 .. Len(b), i = Len(a) + k, c[i] = b[k]
        PROVE  i < Len(c) /\ c[i + 1] = Give("heap")
    <3>1. k < Len(b) /\ b[k + 1] = Give("heap")
      BY <1>3, <2>2 DEF Whole
    <3>2. k + 1 \in 1 .. Len(b) /\ i + 1 = Len(a) + (k + 1)
      <4>1. Len(a) \in Nat /\ Len(b) \in Nat /\ k \in 1 .. Len(b)
        BY <1>1, <2>2
      <4> QED
        BY <4>1, <2>2, <3>1
    <3> QED
      BY <1>1, <3>1, <3>2 DEF c
  <2> QED
    BY <1>2, <2>1, <2>2
<1>4. ASSUME NEW i \in 1 .. Len(c), c[i] = Take("queue")
      PROVE  \E j \in 1 .. Len(c) : i < j /\ c[j] = Give("queue")
  <2>1. CASE i \in 1 .. Len(a) /\ c[i] = a[i]
    <3>1. PICK j \in 1 .. Len(a) : i < j /\ a[j] = Give("queue")
      BY <1>4, <2>1 DEF Whole
    <3>2. j \in 1 .. Len(c) /\ c[j] = a[j]
      BY <1>1, <3>1 DEF c
    <3> QED
      BY <3>1, <3>2
  <2>2. ASSUME NEW k \in 1 .. Len(b), i = Len(a) + k, c[i] = b[k]
        PROVE  \E j \in 1 .. Len(c) : i < j /\ c[j] = Give("queue")
    <3>1. PICK j \in 1 .. Len(b) : k < j /\ b[j] = Give("queue")
      BY <1>4, <2>2 DEF Whole
    <3>2. Len(a) + j \in 1 .. Len(c) /\ c[Len(a) + j] = b[j] /\ i < Len(a) + j
      BY <1>1, <2>2, <3>1 DEF c
    <3> QED
      BY <3>1, <3>2
  <2> QED
    BY <1>2, <2>1, <2>2
<1> QED
  BY <1>3, <1>4 DEF Whole, c

\* A step is done: what is left, and what the step was.
LEMMA StepDone ==
    ASSUME NEW S, NEW s \in Seq(S), s # <<>>
    PROVE  /\ Tail(s) \in Seq(S) /\ Head(s) \in S
           /\ \A x : Has(s, x) <=> Head(s) = x \/ Has(Tail(s), x)
           /\ Whole(s) => Whole(Tail(s))
           /\ Whole(s) /\ Head(s) = Take("heap") => Tail(s) # <<>> /\ Head(Tail(s)) = Give("heap")
           /\ Whole(s) /\ Head(s) = Take("queue") => Has(Tail(s), Give("queue"))
<1> DEFINE t == Tail(s)
<1>1. /\ t \in Seq(S) /\ Head(s) \in S /\ Len(s) \in Nat /\ Len(s) >= 1 /\ Len(t) = Len(s) - 1 /\ Head(s) = s[1]
      /\ \A i \in 1 .. Len(t) : t[i] = s[i + 1]
  OBVIOUS
<1> HIDE DEF t
<1>2. \A i \in 1 .. Len(s) : i = 1 \/ \E k \in 1 .. Len(t) : i = k + 1 /\ t[k] = s[i]
  <2> SUFFICES ASSUME NEW i \in 1 .. Len(s), i # 1
               PROVE  \E k \in 1 .. Len(t) : i = k + 1 /\ t[k] = s[i]
    OBVIOUS
  <2>1. i - 1 \in 1 .. Len(t) /\ i = (i - 1) + 1
    BY <1>1
  <2> QED
    BY <1>1, <2>1
<1>3. ASSUME NEW x PROVE Has(s, x) <=> Head(s) = x \/ Has(t, x)
  <2>1. Has(s, x) => Head(s) = x \/ Has(t, x)
    BY <1>1, <1>2 DEF Has
  <2>2. Head(s) = x => Has(s, x)
    BY <1>1 DEF Has
  <2>3. ASSUME Has(t, x) PROVE Has(s, x)
    <3>1. PICK k \in 1 .. Len(t) : t[k] = x
      BY <2>3 DEF Has
    <3>2. k + 1 \in 1 .. Len(s) /\ s[k + 1] = x
      BY <1>1, <3>1
    <3> QED
      BY <3>2 DEF Has
  <2> QED
    BY <2>1, <2>2, <2>3
<1>4. ASSUME Whole(s) PROVE Whole(t)
  <2>1. ASSUME NEW i \in 1 .. Len(t), t[i] = Take("heap")
        PROVE  i < Len(t) /\ t[i + 1] = Give("heap")
    <3>1. i + 1 \in 1 .. Len(s) /\ s[i + 1] = Take("heap")
      BY <1>1, <2>1
    <3>2. i + 1 < Len(s) /\ s[(i + 1) + 1] = Give("heap")
      BY <1>4, <3>1 DEF Whole
    <3>3. i + 1 \in 1 .. Len(t)
      BY <1>1, <3>2
    <3> QED
      BY <1>1, <3>2, <3>3
  <2>2. ASSUME NEW i \in 1 .. Len(t), t[i] = Take("queue")
        PROVE  \E j \in 1 .. Len(t) : i < j /\ t[j] = Give("queue")
    <3>1. i + 1 \in 1 .. Len(s) /\ s[i + 1] = Take("queue")
      BY <1>1, <2>2
    <3>2. PICK j \in 1 .. Len(s) : i + 1 < j /\ s[j] = Give("queue")
      BY <1>4, <3>1 DEF Whole
    <3>3. j # 1
      BY <3>2
    <3>4. PICK k \in 1 .. Len(t) : j = k + 1 /\ t[k] = s[j]
      BY <1>2, <3>2, <3>3
    <3> QED
      BY <3>2, <3>4
  <2> QED
    BY <2>1, <2>2 DEF Whole
<1>5. ASSUME Whole(s), Head(s) = Take("heap") PROVE t # <<>> /\ Head(t) = Give("heap")
  <2>1. 1 \in 1 .. Len(s) /\ s[1] = Take("heap")
    BY <1>1, <1>5
  <2>2. 1 < Len(s) /\ s[1 + 1] = Give("heap")
    BY <1>5, <2>1 DEF Whole
  <2>3. 1 \in 1 .. Len(t) /\ t[1] = Give("heap")
    BY <1>1, <2>2
  <2> QED
    BY <1>1, <2>3
<1>6. ASSUME Whole(s), Head(s) = Take("queue") PROVE Has(t, Give("queue"))
  <2>1. 1 \in 1 .. Len(s) /\ s[1] = Take("queue")
    BY <1>1, <1>6
  <2>2. PICK j \in 1 .. Len(s) : 1 < j /\ s[j] = Give("queue")
    BY <1>6, <2>1 DEF Whole
  <2>3. j # 1
    BY <2>2
  <2>4. PICK k \in 1 .. Len(t) : j = k + 1 /\ t[k] = s[j]
    BY <1>2, <2>2, <2>3
  <2> QED
    BY <2>2, <2>4 DEF Has
<1> QED
  BY <1>1, <1>3, <1>4, <1>5, <1>6 DEF t

-----------------------------------------------------------------------------
(* The handlers                                                             *)

LockSteps == {Take(l) : l \in Locks} \cup {Give(l) : l \in Locks}

\* Steps that begin as the log does.
Logged(s) == s \in Seq(Steps) /\ s # <<>> /\ Head(s) = Take("heap") /\ Whole(s)

LEMMA LoggedThen ==
    ASSUME NEW a, Logged(a), NEW b \in Seq(Steps), Whole(b)
    PROVE  /\ Logged(a \o b)
           /\ \A x : Has(a \o b, x) <=> Has(a, x) \/ Has(b, x)
<1>1. a \o b # <<>> /\ Head(a \o b) = Head(a)
  BY DEF Logged
<1>2. a \in Seq(Steps) /\ Whole(a)
  BY DEF Logged
<1> QED
  BY <1>1, <1>2, HasJoined, WholeJoined DEF Logged

LEMMA LineLogs == Logged(Line) /\ \A x : Has(Line, x) => x \in LockSteps
<1>1. /\ Logged(LogLine) /\ \A x : Has(LogLine, x) => x \in LockSteps
      /\ Len(LogLine) = 2
  <2>1. /\ LogLine \in Seq(Steps) /\ Len(LogLine) = 2
        /\ LogLine[1] = Take("heap") /\ LogLine[2] = Give("heap")
    BY StepsDiffer DEF LogLine, Locks
  <2>2. LogLine # <<>> /\ Head(LogLine) = Take("heap") /\ 1 .. Len(LogLine) = {1, 2}
    BY <2>1
  <2> HIDE DEF LogLine
  <2>3. Whole(LogLine)
    BY <2>1, <2>2, StepsDiffer DEF Whole, Locks
  <2>4. \A x : Has(LogLine, x) => x \in LockSteps
    BY <2>1, <2>2 DEF Has, LockSteps, Locks
  <2> QED
    BY <2>1, <2>2, <2>3, <2>4 DEF Logged
<1>2. /\ Logged(LogexLine) /\ \A x : Has(LogexLine, x) => x \in LockSteps
  <2>1. /\ LogexLine \in Seq(Steps) /\ Len(LogexLine) = 6
        /\ LogexLine[1] = Take("heap") /\ LogexLine[2] = Give("heap")
        /\ LogexLine[3] = Take("queue") /\ LogexLine[4] = Take("heap")
        /\ LogexLine[5] = Give("heap") /\ LogexLine[6] = Give("queue")
    BY StepsDiffer DEF LogexLine, Locks
  <2>2. LogexLine # <<>> /\ Head(LogexLine) = Take("heap") /\ 1 .. Len(LogexLine) = {1, 2, 3, 4, 5, 6}
    BY <2>1
  <2> HIDE DEF LogexLine
  <2>3. Whole(LogexLine)
    BY <2>1, <2>2, StepsDiffer DEF Whole, Locks
  <2>4. \A x : Has(LogexLine, x) => x \in LockSteps
    BY <2>1, <2>2 DEF Has, LockSteps, Locks
  <2> QED
    BY <2>1, <2>2, <2>3, <2>4 DEF Logged
<1> QED
  BY <1>1, <1>2 DEF Line

\* What follows the lines of a handler: a step of its own kind.
LEMMA AlsoDone ==
    ASSUME NEW w \in {"shutdown", "default", "kill", "unblock"}, NEW sig \in Signal
    PROVE  /\ <<<<w, sig>>>> \in Seq(Steps) /\ Whole(<<<<w, sig>>>>)
           /\ \A x : Has(<<<<w, sig>>>>, x) <=> x = <<w, sig>>
<1> DEFINE s == <<<<w, sig>>>>
<1>1. s \in Seq(Steps) /\ Len(s) = 1 /\ s[1] = <<w, sig>> /\ 1 .. Len(s) = {1}
  <2>1. <<w, sig>> \in Steps
    BY StepsDiffer DEF Locks
  <2> QED
    BY <2>1, ShortSeqs
<1> HIDE DEF s
<1>2. Whole(s)
  BY <1>1, StepsDiffer DEF Whole, Locks
<1>3. \A x : Has(s, x) <=> x = <<w, sig>>
  BY <1>1 DEF Has
<1> QED
  BY <1>1, <1>2, <1>3 DEF s

LEMMA TermLogs ==
    ASSUME NEW sig \in Signal
    PROVE  /\ Logged(SigtermHandler(sig)) /\ Has(SigtermHandler(sig), <<"shutdown", sig>>)
           /\ \A x : Has(SigtermHandler(sig), x) => x \in LockSteps \/ x = <<"shutdown", sig>>
<1> DEFINE s == <<<<"shutdown", sig>>>>
<1>1. s \in Seq(Steps) /\ Whole(s) /\ \A x : Has(s, x) <=> x = <<"shutdown", sig>>
  BY AlsoDone
<1>2. SigtermHandler(sig) = Line \o s
  BY DEF SigtermHandler
<1> HIDE DEF s
<1> QED
  BY <1>1, <1>2, LineLogs, LoggedThen

LEMMA NoteLogs ==
    ASSUME NEW sig \in Signal
    PROVE  /\ Logged(NoteHandler(sig))
           /\ \A x : Has(NoteHandler(sig), x) => x \in LockSteps \/ x = <<"unblock", sig>>
<1> DEFINE s == <<<<"unblock", sig>>>>
<1>1. s \in Seq(Steps) /\ Whole(s) /\ \A x : Has(s, x) <=> x = <<"unblock", sig>>
  BY AlsoDone
<1>2. NoteHandler(sig) = Line \o s
  BY DEF NoteHandler
<1> HIDE DEF s
<1> QED
  BY <1>1, <1>2, LineLogs, LoggedThen

LEMMA ReportLogs == Logged(BugReport) /\ \A x : Has(BugReport, x) => x \in LockSteps
<1>1. Logged(LogLine) /\ \A x : Has(LogLine, x) => x \in LockSteps
  <2>1. /\ LogLine \in Seq(Steps) /\ Len(LogLine) = 2
        /\ LogLine[1] = Take("heap") /\ LogLine[2] = Give("heap")
    BY StepsDiffer DEF LogLine, Locks
  <2>2. LogLine # <<>> /\ Head(LogLine) = Take("heap") /\ 1 .. Len(LogLine) = {1, 2}
    BY <2>1
  <2> HIDE DEF LogLine
  <2> QED
    BY <2>1, <2>2, StepsDiffer DEF Whole, Locks, Has, LockSteps, Logged
<1>2. Logged(Line \o Line) /\ \A x : Has(Line \o Line, x) => x \in LockSteps
  BY LineLogs, LoggedThen DEF Logged
<1>3. /\ Logged((Line \o Line) \o LogLine)
      /\ \A x : Has((Line \o Line) \o LogLine, x) => x \in LockSteps
  BY <1>1, <1>2, LoggedThen DEF Logged
<1>4. /\ Logged(((Line \o Line) \o LogLine) \o Line)
      /\ \A x : Has(((Line \o Line) \o LogLine) \o Line, x) => x \in LockSteps
  BY <1>3, LineLogs, LoggedThen DEF Logged
<1>5. BugReport = ((Line \o Line) \o LogLine) \o Line
  BY DEF BugReport, LogLine
<1> QED
  BY <1>4, <1>5

LEMMA SegvLogs ==
    ASSUME NEW sig \in Signal
    PROVE  /\ Logged(SigsegvHandler(sig)) /\ Has(SigsegvHandler(sig), <<"kill", sig>>)
           /\ \A x : Has(SigsegvHandler(sig), x) =>
                 x \in LockSteps \/ x = <<"default", sig>> \/ x = <<"kill", sig>>
<1> DEFINE s == <<<<"default", sig>>, <<"kill", sig>>>>
<1>1. /\ s \in Seq(Steps) /\ Len(s) = 2 /\ 1 .. Len(s) = {1, 2}
      /\ s[1] = <<"default", sig>> /\ s[2] = <<"kill", sig>>
  <2>1. <<"default", sig>> \in Steps /\ <<"kill", sig>> \in Steps
    BY StepsDiffer DEF Locks
  <2> QED
    BY <2>1, ShortSeqs
<1>2. SigsegvHandler(sig) = BugReport \o s
  BY DEF SigsegvHandler
<1> HIDE DEF s
<1>3. Whole(s)
  BY <1>1, StepsDiffer DEF Whole, Locks
<1>4. \A x : Has(s, x) <=> x = <<"default", sig>> \/ x = <<"kill", sig>>
  BY <1>1 DEF Has
<1> QED
  BY <1>1, <1>2, <1>3, <1>4, ReportLogs, LoggedThen

-----------------------------------------------------------------------------
(* The invariant                                                            *)

SigOK ==
    /\ handler \in [Signal -> {"sigterm", "sigsegv", "note", "default"}]
    /\ \A sig \in Signal : /\ handler[sig] = "sigterm" <=> sig \in Ending /\ handler[sig] # "default"
                           /\ handler[sig] = "sigsegv" <=> sig \in Crash /\ handler[sig] # "default"
    /\ todo \in [SigThread -> Seq(Steps)] /\ \A t \in SigThread : Whole(todo[t])
    /\ heldBy \in [Locks -> SigThread \cup {NoThread}]
    /\ caught \subseteq Signal /\ shutdownAsked \in BOOLEAN
    /\ gone \in {"no", "returned"} \cup Signal

\* Who holds the heap is about to give it back, or to take it for a handler; who holds
\* the queue will give it back.
Owners ==
    \A t \in SigThread :
        /\ heldBy["heap"] = t => todo[t] # <<>> /\ Head(todo[t]) \in {Take("heap"), Give("heap")}
        /\ heldBy["queue"] = t => Has(todo[t], Give("queue"))

\* A signal that came is not forgotten before the process is gone.
Pending ==
    gone = "no" => \A sig \in caught :
        /\ sig \in Ending => shutdownAsked \/ \E t \in SigThread : Has(todo[t], <<"shutdown", sig>>)
        /\ sig \in Crash => \E t \in SigThread : Has(todo[t], <<"kill", sig>>)

\* Nobody ends the server who was not asked to.
Asked ==
    /\ \A t \in SigThread, sig \in Signal :
          Has(todo[t], <<"shutdown", sig>>) => sig \in caught \cap Ending
    /\ shutdownAsked => caught \cap Ending # {}

Returned == gone = "returned" => caught \cap Ending # {} /\ caught \cap Crash = {}

SigInv == SigOK /\ Owners /\ Pending /\ Asked /\ Returned

LEMMA SigInitially == ASSUME SignalsInit PROVE SigInv
<1>1. SigOK
  <2>1. \A t \in SigThread : todo[t] = <<>> /\ Whole(todo[t])
    BY DEF SignalsInit, Whole
  <2>2. todo \in [SigThread -> Seq(Steps)]
    BY DEF SignalsInit
  <2>3. heldBy \in [Locks -> SigThread \cup {NoThread}] /\ caught = {} /\ shutdownAsked = FALSE /\ gone = "no"
    BY DEF SignalsInit
  <2>4. /\ handler \in [Signal -> {"sigterm", "sigsegv", "note", "default"}]
        /\ \A sig \in Signal :
              /\ handler[sig] = "sigterm" <=> sig \in Ending /\ handler[sig] # "default"
              /\ handler[sig] = "sigsegv" <=> sig \in Crash /\ handler[sig] # "default"
    BY DEF SignalsInit, SetupSignalHandlers, SetupBossHandlers, Signal, Ending, Crash, User
  <2> QED
    BY <2>1, <2>2, <2>3, <2>4 DEF SigOK
<1>2. Owners
  BY SignalsAssumption DEF SignalsInit, Owners, Locks
<1>3. Pending /\ Asked /\ Returned
  BY DEF SignalsInit, Pending, Asked, Returned, Has
<1> QED
  BY <1>1, <1>2, <1>3 DEF SigInv

\* A handler, or a line, is put before what a thread was doing.
LEMMA Pushed ==
    ASSUME SigInv, NEW t \in SigThread, NEW s, Logged(s),
           todo' = [todo EXCEPT ![t] = s \o @], UNCHANGED heldBy
    PROVE  /\ todo' \in [SigThread -> Seq(Steps)] /\ \A u \in SigThread : Whole(todo'[u])
           /\ Owners'
           /\ \A u \in SigThread : \A x : Has(todo'[u], x) <=> Has(todo[u], x) \/ (u = t /\ Has(s, x))
<1>1. todo \in [SigThread -> Seq(Steps)] /\ (\A u \in SigThread : Whole(todo[u])) /\ Owners
  BY DEF SigInv, SigOK
<1>2. /\ Logged(s \o todo[t])
      /\ \A x : Has(s \o todo[t], x) <=> Has(s, x) \/ Has(todo[t], x)
  BY <1>1, LoggedThen
<1>3. todo'[t] = s \o todo[t] /\ \A u \in SigThread : u # t => todo'[u] = todo[u]
  BY <1>1
<1>4. todo' \in [SigThread -> Seq(Steps)]
  BY <1>1, <1>2 DEF Logged
<1>5. \A u \in SigThread : Whole(todo'[u])
  BY <1>1, <1>2, <1>3 DEF Logged
<1>6. \A u \in SigThread : \A x : Has(todo'[u], x) <=> Has(todo[u], x) \/ (u = t /\ Has(s, x))
  BY <1>2, <1>3
<1>7. todo'[t] # <<>> /\ Head(todo'[t]) = Take("heap")
  BY <1>2, <1>3 DEF Logged
<1>8. Owners'
  BY <1>1, <1>3, <1>6, <1>7 DEF Owners
<1> QED
  BY <1>4, <1>5, <1>6, <1>8

\* A thread has done a step.
LEMMA Popped ==
    ASSUME SigInv, NEW t \in SigThread, NEW step, Does(t, step)
    PROVE  /\ todo' \in [SigThread -> Seq(Steps)] /\ \A u \in SigThread : Whole(todo'[u])
           /\ \A u \in SigThread : \A x : /\ Has(todo'[u], x) => Has(todo[u], x)
                                          /\ Has(todo[u], x) => Has(todo'[u], x) \/ (u = t /\ x = step)
           /\ Has(todo[t], step) /\ \A u \in SigThread : u # t => todo'[u] = todo[u]
           /\ step = Take("heap") => todo'[t] # <<>> /\ Head(todo'[t]) = Give("heap")
           /\ step = Take("queue") => Has(todo'[t], Give("queue"))
<1>1. todo \in [SigThread -> Seq(Steps)] /\ \A u \in SigThread : Whole(todo[u])
  BY DEF SigInv, SigOK
<1>2. todo[t] \in Seq(Steps) /\ todo[t] # <<>> /\ Head(todo[t]) = step
  BY <1>1 DEF Does
<1>3. /\ Tail(todo[t]) \in Seq(Steps)
      /\ \A x : Has(todo[t], x) <=> step = x \/ Has(Tail(todo[t]), x)
      /\ Whole(Tail(todo[t]))
      /\ step = Take("heap") => Tail(todo[t]) # <<>> /\ Head(Tail(todo[t])) = Give("heap")
      /\ step = Take("queue") => Has(Tail(todo[t]), Give("queue"))
  BY <1>1, <1>2, StepDone
<1>4. todo' = [todo EXCEPT ![t] = Tail(todo[t])]
  BY DEF Does
<1>5. todo'[t] = Tail(todo[t]) /\ \A u \in SigThread : u # t => todo'[u] = todo[u]
  BY <1>1, <1>4
<1>6. todo' \in [SigThread -> Seq(Steps)]
  BY <1>1, <1>3, <1>4
<1> QED
  BY <1>1, <1>3, <1>5, <1>6

\* What a step that is about no lock, and gives nothing up, leaves alone.
LEMMA OwnersStay ==
    ASSUME SigInv, NEW t \in SigThread, NEW step, Does(t, step), UNCHANGED heldBy,
           step \notin LockSteps
    PROVE  Owners'
<1>1. /\ \A u \in SigThread : \A x : Has(todo[u], x) => Has(todo'[u], x) \/ (u = t /\ x = step)
      /\ \A u \in SigThread : u # t => todo'[u] = todo[u]
  BY Popped
<1>2. todo[t] # <<>> /\ Head(todo[t]) = step /\ Owners
  BY DEF Does, SigInv
<1>3. step # Take("heap") /\ step # Give("heap") /\ step # Give("queue")
  BY DEF LockSteps, Locks
<1>4. heldBy["heap"] # t
  BY <1>2, <1>3 DEF Owners
<1> QED
  BY <1>1, <1>2, <1>3, <1>4 DEF Owners

LEMMA AcquireKeeps == ASSUME SigInv, NEW t \in SigThread, NEW l \in Locks, Acquire(t, l) PROVE SigInv'
<1>1. Does(t, Take(l)) /\ heldBy[l] = NoThread /\ heldBy' = [heldBy EXCEPT ![l] = t]
  BY DEF Acquire
<1>2. /\ todo' \in [SigThread -> Seq(Steps)] /\ \A u \in SigThread : Whole(todo'[u])
      /\ \A u \in SigThread : \A x :
            /\ Has(todo'[u], x) => Has(todo[u], x)
            /\ Has(todo[u], x) => Has(todo'[u], x) \/ (u = t /\ x = Take(l))
      /\ \A u \in SigThread : u # t => todo'[u] = todo[u]
      /\ l = "heap" => todo'[t] # <<>> /\ Head(todo'[t]) = Give("heap")
      /\ l = "queue" => Has(todo'[t], Give("queue"))
  BY <1>1, Popped
<1>3. UNCHANGED <<handler, shutdownAsked, gone, caught>>
  BY <1>1 DEF Acquire, Does
<1>4. SigOK /\ Owners /\ Pending /\ Asked /\ Returned
  BY DEF SigInv
<1>5. heldBy' \in [Locks -> SigThread \cup {NoThread}]
  BY <1>1, <1>4 DEF SigOK
<1>6. SigOK'
  BY <1>2, <1>3, <1>4, <1>5 DEF SigOK
<1>7. Owners'
  <2>1. heldBy \in [Locks -> SigThread \cup {NoThread}] /\ todo[t] # <<>> /\ Head(todo[t]) = Take(l)
    BY <1>1, <1>4 DEF SigOK, Does
  <2>2. CASE l = "heap"
    <3>1. heldBy'["heap"] = t /\ heldBy'["queue"] = heldBy["queue"]
      BY <1>1, <2>1, <2>2 DEF Locks
    <3>2. Take(l) # Give("queue")
      BY <2>2, StepsDiffer DEF Locks
    <3> QED
      BY <1>2, <1>4, <2>2, <3>1, <3>2 DEF Owners
  <2>3. CASE l = "queue"
    <3>1. heldBy'["queue"] = t /\ heldBy'["heap"] = heldBy["heap"]
      BY <1>1, <2>1, <2>3 DEF Locks
    <3>2. Take(l) # Take("heap") /\ Take(l) # Give("heap")
      BY <2>3, StepsDiffer DEF Locks
    <3>3. heldBy["heap"] # t
      BY <1>4, <2>1, <3>2 DEF Owners
    <3> QED
      BY <1>2, <1>4, <2>3, <3>1, <3>3 DEF Owners
  <2> QED
    BY <2>2, <2>3 DEF Locks
<1>8. \A sig \in Signal, w \in {"shutdown", "kill"} : <<w, sig>> # Take(l)
  BY StepsDiffer DEF Locks
<1>9. Pending'
  BY <1>2, <1>3, <1>4, <1>8 DEF Pending, SigOK
<1>10. Asked' /\ Returned'
  BY <1>2, <1>3, <1>4 DEF Asked, Returned
<1> QED
  BY <1>6, <1>7, <1>9, <1>10 DEF SigInv

LEMMA ReleaseKeeps == ASSUME SigInv, NEW t \in SigThread, NEW l \in Locks, Release(t, l) PROVE SigInv'
<1>1. Does(t, Give(l)) /\ heldBy' = [heldBy EXCEPT ![l] = NoThread]
  BY DEF Release
<1>2. /\ todo' \in [SigThread -> Seq(Steps)] /\ \A u \in SigThread : Whole(todo'[u])
      /\ \A u \in SigThread : \A x :
            /\ Has(todo'[u], x) => Has(todo[u], x)
            /\ Has(todo[u], x) => Has(todo'[u], x) \/ (u = t /\ x = Give(l))
      /\ \A u \in SigThread : u # t => todo'[u] = todo[u]
  BY <1>1, Popped
<1>3. UNCHANGED <<handler, shutdownAsked, gone, caught>>
  BY <1>1 DEF Release, Does
<1>4. SigOK /\ Owners /\ Pending /\ Asked /\ Returned
  BY DEF SigInv
<1>5. heldBy' \in [Locks -> SigThread \cup {NoThread}]
  BY <1>1, <1>4 DEF SigOK
<1>6. SigOK'
  BY <1>2, <1>3, <1>4, <1>5 DEF SigOK
<1>7. Owners'
  <2>1. heldBy \in [Locks -> SigThread \cup {NoThread}] /\ todo[t] # <<>> /\ Head(todo[t]) = Give(l)
    BY <1>1, <1>4 DEF SigOK, Does
  <2>2. CASE l = "heap"
    <3>1. heldBy'["heap"] = NoThread /\ heldBy'["queue"] = heldBy["queue"]
      BY <1>1, <2>1, <2>2 DEF Locks
    <3>2. Give(l) # Give("queue")
      BY <2>2, StepsDiffer DEF Locks
    <3> QED
      BY <1>2, <1>4, <3>1, <3>2, SignalsAssumption DEF Owners
  <2>3. CASE l = "queue"
    <3>1. heldBy'["queue"] = NoThread /\ heldBy'["heap"] = heldBy["heap"]
      BY <1>1, <2>1, <2>3 DEF Locks
    <3>2. Give(l) # Take("heap") /\ Give(l) # Give("heap")
      BY <2>3, StepsDiffer DEF Locks
    <3>3. heldBy["heap"] # t
      BY <1>4, <2>1, <3>2 DEF Owners
    <3> QED
      BY <1>2, <1>4, <3>1, <3>3, SignalsAssumption DEF Owners
  <2> QED
    BY <2>2, <2>3 DEF Locks
<1>8. \A sig \in Signal, w \in {"shutdown", "kill"} : <<w, sig>> # Give(l)
  BY StepsDiffer DEF Locks
<1>9. Pending'
  BY <1>2, <1>3, <1>4, <1>8 DEF Pending, SigOK
<1>10. Asked' /\ Returned'
  BY <1>2, <1>3, <1>4 DEF Asked, Returned
<1> QED
  BY <1>6, <1>7, <1>9, <1>10 DEF SigInv

\* The last step of a handler.
LEMMA HandledKeeps ==
    ASSUME SigInv, NEW t \in SigThread, NEW sig \in Signal,
           (ScheduleShutdown(t, sig) /\ sig \in Ending) \/ (SetDefault(t, sig) /\ sig \in Crash)
              \/ (KillSelf(t, sig) /\ sig \in Crash) \/ NoteReturns(t, sig)
    PROVE  SigInv'
<1>1. PICK w \in {"shutdown", "default", "kill", "unblock"} :
        /\ Does(t, <<w, sig>>) /\ UNCHANGED <<heldBy, caught>> /\ gone = "no"
        /\ IF w = "shutdown" THEN shutdownAsked' = TRUE /\ sig \in Ending ELSE UNCHANGED shutdownAsked
        /\ IF w = "default" THEN sig \in Crash /\ handler' = [handler EXCEPT ![sig] = "default"]
                            ELSE UNCHANGED handler
        /\ IF w = "kill" THEN gone' = sig ELSE UNCHANGED gone
  BY DEF ScheduleShutdown, SetDefault, KillSelf, NoteReturns, Does
<1>2. /\ todo' \in [SigThread -> Seq(Steps)] /\ \A u \in SigThread : Whole(todo'[u])
      /\ \A u \in SigThread : \A x :
            /\ Has(todo'[u], x) => Has(todo[u], x)
            /\ Has(todo[u], x) => Has(todo'[u], x) \/ (u = t /\ x = <<w, sig>>)
      /\ Has(todo[t], <<w, sig>>)
  <2>1. PICK step : step = <<w, sig>>
    OBVIOUS
  <2>2. Does(t, step)
    BY <1>1, <2>1
  <2>3. /\ todo' \in [SigThread -> Seq(Steps)] /\ \A u \in SigThread : Whole(todo'[u])
        /\ \A u \in SigThread : \A x : /\ Has(todo'[u], x) => Has(todo[u], x)
                                       /\ Has(todo[u], x) => Has(todo'[u], x) \/ (u = t /\ x = step)
        /\ Has(todo[t], step)
    BY <2>2, Popped
  <2> QED
    BY <2>1, <2>3
<1>3. <<w, sig>> \notin LockSteps
  BY StepsDiffer DEF LockSteps, Locks
<1>4. Owners'
  BY <1>1, <1>3, OwnersStay
<1>5. SigOK /\ Pending /\ Asked /\ Returned
  BY DEF SigInv
<1>6. /\ handler' \in [Signal -> {"sigterm", "sigsegv", "note", "default"}]
      /\ \A s \in Signal : /\ handler'[s] = "sigterm" <=> s \in Ending /\ handler'[s] # "default"
                           /\ handler'[s] = "sigsegv" <=> s \in Crash /\ handler'[s] # "default"
  <2>1. CASE w # "default"
    BY <1>1, <1>5, <2>1 DEF SigOK
  <2>2. CASE w = "default"
    BY <1>1, <1>5, <2>2 DEF SigOK
  <2> QED
    BY <2>1, <2>2
<1>7. gone' \in {"no", "returned"} \cup Signal /\ gone' # "returned" /\ shutdownAsked' \in BOOLEAN
  <2>1. "returned" \notin Signal
    BY DEF Signal, Ending, Crash, User
  <2> QED
    BY <1>1, <1>5, <2>1 DEF SigOK
<1>8. SigOK'
  BY <1>1, <1>2, <1>5, <1>6, <1>7 DEF SigOK
<1>9. Pending'
  <2> SUFFICES ASSUME gone' = "no", NEW x \in caught
               PROVE  /\ x \in Ending => shutdownAsked' \/ \E u \in SigThread : Has(todo'[u], <<"shutdown", x>>)
                      /\ x \in Crash => \E u \in SigThread : Has(todo'[u], <<"kill", x>>)
    BY <1>1 DEF Pending
  <2>1. w # "kill"
    <3>1. "no" \notin Signal
      BY DEF Signal, Ending, Crash, User
    <3> QED
      BY <1>1, <3>1
  <2>2. <<"kill", x>> # <<w, sig>> /\ (w # "shutdown" => <<"shutdown", x>> # <<w, sig>>)
    BY <2>1
  <2>3. w = "shutdown" => shutdownAsked'
    BY <1>1
  <2>4. w # "shutdown" => shutdownAsked' = shutdownAsked
    BY <1>1
  <2> QED
    BY <1>1, <1>2, <1>5, <2>2, <2>3, <2>4 DEF Pending
<1>10. Asked'
  <2>1. w = "shutdown" => sig \in caught \cap Ending
    BY <1>2, <1>5 DEF Asked
  <2>2. shutdownAsked' => caught \cap Ending # {}
    BY <1>1, <1>5, <2>1 DEF Asked
  <2> QED
    BY <1>1, <1>2, <1>5, <2>2 DEF Asked
<1>11. Returned'
  BY <1>7 DEF Returned
<1> QED
  BY <1>4, <1>8, <1>9, <1>10, <1>11 DEF SigInv

LEMMA LogsKeeps == ASSUME SigInv, NEW t \in SigThread, Logs(t) PROVE SigInv'
<1>1. /\ todo[t] = <<>> /\ todo' = [todo EXCEPT ![t] = Line]
      /\ UNCHANGED <<handler, shutdownAsked, heldBy, gone, caught>>
  BY DEF Logs
<1>2. Logged(Line) /\ \A x : Has(Line, x) => x \in LockSteps
  BY LineLogs
<1>3. Line = Line \o todo[t]
  <2>1. Line \in Seq(Steps)
    BY <1>2 DEF Logged
  <2> QED
    BY <1>1, <2>1
<1>4. todo' = [todo EXCEPT ![t] = Line \o @]
  BY <1>1, <1>3
<1>5. /\ todo' \in [SigThread -> Seq(Steps)] /\ \A u \in SigThread : Whole(todo'[u])
      /\ Owners'
      /\ \A u \in SigThread : \A x : Has(todo'[u], x) <=> Has(todo[u], x) \/ (u = t /\ Has(Line, x))
  BY <1>1, <1>2, <1>4, Pushed
<1>6. \A sig \in Signal, w \in {"shutdown", "kill"} : <<w, sig>> \notin LockSteps
  BY StepsDiffer DEF LockSteps, Locks
<1>7. SigOK'
  BY <1>1, <1>5 DEF SigInv, SigOK
<1>8. Pending'
  BY <1>1, <1>5 DEF SigInv, Pending
<1>9. Asked'
  BY <1>1, <1>2, <1>5, <1>6 DEF SigInv, Asked
<1>10. Returned'
  BY <1>1 DEF SigInv, Returned
<1> QED
  BY <1>5, <1>7, <1>8, <1>9, <1>10 DEF SigInv

\* What a handler that a signal of this number has is, and has in it.
LEMMA HandlingLogs ==
    ASSUME SigInv, NEW sig \in Signal, handler[sig] # "default"
    PROVE  /\ Logged(Handling(sig))
           /\ sig \in Ending => Has(Handling(sig), <<"shutdown", sig>>)
           /\ sig \in Crash => Has(Handling(sig), <<"kill", sig>>)
           /\ \A x \in Signal : Has(Handling(sig), <<"shutdown", x>>) => x = sig /\ sig \in Ending
<1>1. /\ handler[sig] \in {"sigterm", "sigsegv", "note"}
      /\ handler[sig] = "sigterm" <=> sig \in Ending
      /\ handler[sig] = "sigsegv" <=> sig \in Crash
  BY DEF SigInv, SigOK
<1>2. \A x \in Signal : <<"shutdown", x>> \notin LockSteps
  BY StepsDiffer DEF LockSteps, Locks
<1>3. CASE handler[sig] = "sigterm"
  <2>1. Handling(sig) = SigtermHandler(sig)
    BY <1>3 DEF Handling
  <2>2. sig \in Ending /\ sig \notin Crash
    BY <1>1, <1>3
  <2>3. \A x : <<"shutdown", x>> = <<"shutdown", sig>> => x = sig
    OBVIOUS
  <2> QED
    BY <1>2, <2>1, <2>2, <2>3, TermLogs
<1>4. CASE handler[sig] = "sigsegv"
  <2>1. Handling(sig) = SigsegvHandler(sig)
    BY <1>4 DEF Handling
  <2>2. sig \in Crash /\ sig \notin Ending
    BY <1>1, <1>4
  <2>3. \A x : <<"shutdown", x>> # <<"default", sig>> /\ <<"shutdown", x>> # <<"kill", sig>>
    OBVIOUS
  <2> QED
    BY <1>2, <2>1, <2>2, <2>3, SegvLogs
<1>5. CASE handler[sig] = "note"
  <2>1. Handling(sig) = NoteHandler(sig)
    BY <1>5 DEF Handling
  <2>2. sig \notin Crash /\ sig \notin Ending
    BY <1>1, <1>5
  <2>3. \A x : <<"shutdown", x>> # <<"unblock", sig>>
    OBVIOUS
  <2> QED
    BY <1>2, <2>1, <2>2, <2>3, NoteLogs
<1> QED
  BY <1>1, <1>3, <1>4, <1>5

LEMMA RaiseKeeps ==
    ASSUME SigInv, NEW t \in SigThread, NEW sig \in Signal, Raise(sig, t) PROVE SigInv'
<1>1. gone = "no" /\ caught' = caught \cup {sig} /\ UNCHANGED <<shutdownAsked, heldBy>>
  BY DEF Raise
<1>2. SigOK /\ Owners /\ Pending /\ Asked /\ Returned
  BY DEF SigInv
<1>3. "no" \notin Signal /\ "returned" \notin Signal
  BY DEF Signal, Ending, Crash, User
<1>4. CASE handler[sig] = "default"
  <2>1. gone' = sig /\ UNCHANGED <<handler, todo>>
    BY <1>4 DEF Raise
  <2>2. SigOK'
    BY <1>1, <1>2, <2>1 DEF SigOK
  <2>3. Owners'
    BY <1>1, <1>2, <2>1 DEF Owners
  <2>4. Pending' /\ Returned'
    BY <1>3, <2>1 DEF Pending, Returned
  <2>5. Asked'
    BY <1>1, <1>2, <2>1 DEF Asked
  <2> QED
    BY <2>2, <2>3, <2>4, <2>5 DEF SigInv
<1>5. CASE handler[sig] # "default"
  <2>1. /\ todo' = [todo EXCEPT ![t] = Handling(sig) \o @] /\ gone' = gone
        /\ handler' = IF handler[sig] = "note" THEN handler ELSE [handler EXCEPT ![sig] = "default"]
    BY <1>5 DEF Raise
  <2>2. /\ Logged(Handling(sig))
        /\ sig \in Ending => Has(Handling(sig), <<"shutdown", sig>>)
        /\ sig \in Crash => Has(Handling(sig), <<"kill", sig>>)
        /\ \A x \in Signal : Has(Handling(sig), <<"shutdown", x>>) => x = sig /\ sig \in Ending
    BY <1>5, HandlingLogs
  <2> DEFINE h == Handling(sig)
  <2>3. /\ todo' \in [SigThread -> Seq(Steps)] /\ \A u \in SigThread : Whole(todo'[u])
        /\ Owners'
        /\ \A u \in SigThread : \A x : Has(todo'[u], x) <=> Has(todo[u], x) \/ (u = t /\ Has(h, x))
    BY <1>1, <2>1, <2>2, Pushed
  <2>4. /\ handler' \in [Signal -> {"sigterm", "sigsegv", "note", "default"}]
        /\ \A s \in Signal : /\ handler'[s] = "sigterm" <=> s \in Ending /\ handler'[s] # "default"
                             /\ handler'[s] = "sigsegv" <=> s \in Crash /\ handler'[s] # "default"
    BY <1>2, <2>1 DEF SigOK
  <2> HIDE DEF h
  <2>5. SigOK'
    BY <1>1, <1>2, <2>1, <2>3, <2>4 DEF SigOK
  <2>6. Pending'
    <3>1. sig \in Ending => Has(todo'[t], <<"shutdown", sig>>)
      BY <2>2, <2>3 DEF h
    <3>2. sig \in Crash => Has(todo'[t], <<"kill", sig>>)
      BY <2>2, <2>3 DEF h
    <3>3. \A x \in caught' : x = sig \/ x \in caught
      BY <1>1
    <3> QED
      BY <1>1, <1>2, <2>1, <2>3, <3>1, <3>2, <3>3 DEF Pending
  <2>7. Asked'
    <3>1. \A x \in Signal : Has(h, <<"shutdown", x>>) => x = sig /\ sig \in Ending
      BY <2>2 DEF h
    <3> QED
      BY <1>1, <1>2, <2>3, <3>1 DEF Asked
  <2>8. Returned'
    BY <1>1, <2>1 DEF Returned
  <2> QED
    BY <2>3, <2>5, <2>6, <2>7, <2>8 DEF SigInv
<1> QED
  BY <1>4, <1>5

LEMMA TickKeeps == ASSUME SigInv, TickQuits PROVE SigInv'
<1>1. /\ gone = "no" /\ shutdownAsked /\ gone' = "returned"
      /\ UNCHANGED <<handler, shutdownAsked, todo, heldBy, caught>>
      /\ \A t \in SigThread : todo[t] = <<>>
  BY DEF TickQuits
<1>2. SigOK /\ Owners /\ Pending /\ Asked
  BY DEF SigInv
<1>3. SigOK'
  BY <1>1, <1>2 DEF SigOK
<1>4. Owners'
  BY <1>1, <1>2 DEF Owners
<1>5. Pending' /\ Asked'
  BY <1>1, <1>2 DEF Pending, Asked
<1>6. \A t \in SigThread : \A x : ~Has(todo[t], x)
  BY <1>1 DEF Has
<1>7. Returned'
  BY <1>1, <1>2, <1>6 DEF Pending, Asked, Returned
<1> QED
  BY <1>3, <1>4, <1>5, <1>7 DEF SigInv

LEMMA SigStep == ASSUME SigInv, [SignalsNext]_signalVars PROVE SigInv'
<1>1. CASE UNCHANGED signalVars
  BY <1>1 DEF signalVars, SigInv, SigOK, Owners, Pending, Asked, Returned
<1>2. ASSUME NEW t \in SigThread, NEW l \in Locks, Acquire(t, l) \/ Release(t, l) PROVE SigInv'
  BY <1>2, AcquireKeeps, ReleaseKeeps
<1>3. ASSUME NEW t \in SigThread, NEW sig \in Signal,
             (ScheduleShutdown(t, sig) /\ sig \in Ending) \/ (SetDefault(t, sig) /\ sig \in Crash)
                \/ (KillSelf(t, sig) /\ sig \in Crash) \/ NoteReturns(t, sig)
      PROVE  SigInv'
  BY <1>3, HandledKeeps
<1>4. CASE TickQuits
  BY <1>4, TickKeeps
<1>5. ASSUME NEW t \in SigThread, Logs(t) PROVE SigInv'
  BY <1>5, LogsKeeps
<1>6. ASSUME NEW t \in SigThread, NEW sig \in Signal, Raise(sig, t) PROVE SigInv'
  BY <1>6, RaiseKeeps
<1> QED
  BY <1>1, <1>2, <1>3, <1>4, <1>5, <1>6 DEF SignalsNext, SignalStep, Signal

\* What the invariant says of a server that was told to end: follow the locks from who
\* waits to who holds, the queue and then the heap, and there is a thread that moves,
\* unless it waits for itself.
LEMMA SomethingMoves == ASSUME SigInv PROVE SignalsEndIt
<1>1. SigOK /\ Owners /\ Pending /\ Asked /\ Returned
  BY DEF SigInv
<1>2. ASSUME caught \cap (Ending \cup Crash) # {}, gone = "no",
             ~(shutdownAsked /\ \A t \in SigThread : todo[t] = <<>>)
      PROVE  \E t \in SigThread : Moves(t) \/ SelfLocked(t)
  <2>1. PICK t \in SigThread : todo[t] # <<>>
    <3>1. PICK sig \in caught : sig \in Ending \cup Crash
      BY <1>2
    <3>2. \A u \in SigThread : \A x : Has(todo[u], x) => todo[u] # <<>>
      BY DEF Has
    <3> QED
      BY <1>1, <1>2, <3>1, <3>2 DEF Pending
  <2>2. /\ heldBy["heap"] \in SigThread \cup {NoThread}
        /\ heldBy["queue"] \in SigThread \cup {NoThread}
    BY <1>1 DEF SigOK, Locks
  <2>3. ASSUME NEW u \in SigThread, heldBy["heap"] = u
        PROVE  Moves(u) \/ SelfLocked(u)
    <3>1. todo[u] # <<>> /\ Head(todo[u]) \in {Take("heap"), Give("heap")}
      BY <1>1, <2>3 DEF Owners
    <3>2. CASE Head(todo[u]) = Take("heap")
      BY <2>3, <3>1, <3>2 DEF SelfLocked, Locks
    <3>3. CASE Head(todo[u]) = Give("heap")
      <4>1. \A l \in Locks : Head(todo[u]) # Take(l)
        BY <3>3, StepsDiffer DEF Locks
      <4> QED
        BY <3>1, <4>1 DEF Moves
    <3> QED
      BY <3>1, <3>2, <3>3
  <2>4. ASSUME NEW u \in SigThread, todo[u] # <<>>, Head(todo[u]) # Take("queue"),
               heldBy["heap"] = NoThread
        PROVE  Moves(u)
    BY <2>4 DEF Moves, Locks
  <2>5. CASE heldBy["heap"] # NoThread
    BY <2>2, <2>3, <2>5
  <2>6. CASE heldBy["heap"] = NoThread /\ heldBy["queue"] = NoThread
    BY <2>1, <2>6 DEF Moves, Locks
  <2>7. CASE heldBy["heap"] = NoThread /\ heldBy["queue"] # NoThread
    <3>1. PICK u \in SigThread : heldBy["queue"] = u
      BY <2>2, <2>7
    <3>2. todo[u] # <<>>
      BY <1>1, <3>1 DEF Owners, Has
    <3>3. CASE Head(todo[u]) = Take("queue")
      BY <3>1, <3>2, <3>3 DEF SelfLocked, Locks
    <3> QED
      BY <2>4, <2>7, <3>2, <3>3
  <2> QED
    BY <2>5, <2>6, <2>7
<1> QED
  BY <1>1, <1>2 DEF SignalsEndIt, Returned

\* A server that was asked to end, or crashed, always has a step left to its end, or a
\* thread that waits for a lock it holds itself: no two threads wait for each other,
\* however signals interrupt the log and each other; and main returns only for a
\* signal that asked, and after no crash.
THEOREM SignalsComeToAnEnd == SignalsSpec => []SignalsEndIt
<1>1. SignalsSpec => []SigInv
  BY SigInitially, SigStep, PTL DEF SignalsSpec
<1> QED
  BY <1>1, SomethingMoves, PTL

-----------------------------------------------------------------------------
(* The order of main                                                        *)

DBSrvMain == DBSrvBegins \o DBSrvServes
BgMain == BgBegins \o BgServes
BossMain == BossBegins \o BossServes

Programs == {DBSrvMain, BgMain, BossMain}

Reaches(m, i, s) == i <= Len(m) /\ m[i] = s
Done(m, i, s) == \E k \in 1 .. Len(m) : k < i /\ m[k] = s

\* What comes before what; a server has each step once.
Ordered(m) ==
    \A i \in Nat \ {0} :
        /\ \A s : Reaches(m, i, s) => ~Done(m, i, s)
        /\ \A s : Done(m, i + 1, s) <=> Done(m, i, s) \/ Reaches(m, i, s)
        /\ Reaches(m, i, "options") => ~Done(m, i, "pid")
        /\ Reaches(m, i, "daemon") =>
              \A s \in {"pid", "unpid", "log", "unlog", "serve", "stop"} : ~Done(m, i, s)
        /\ Reaches(m, i, "pid") => ~Done(m, i, "unpid")
        /\ Reaches(m, i, "log") => ~Done(m, i, "unlog")
        /\ Reaches(m, i, "serve") => ~Done(m, i, "stop")
        /\ Reaches(m, i, "stop") =>
              /\ \A s \in {"user", "files", "cores", "config", "serve"} : Done(m, i, s)
              /\ ~Done(m, i, "unlog") /\ (m = DBSrvMain => Done(m, i, "log"))
        /\ m # DBSrvMain => ~Done(m, i, "log")
        /\ i > Len(m) => Done(m, i, "unpid")
    /\ \A s : ~Done(m, 1, s)

LEMMA DBSrvOrder == Ordered(DBSrvMain)
<1> DEFINE m == DBSrvMain
<1>1. /\ Len(m) = 13 /\ 1 .. Len(m) = {1, 2, 3, 4, 5, 6, 7, 8, 9, 10, 11, 12, 13}
      /\ m[1] = "options" /\ m[2] = "path" /\ m[3] = "cores" /\ m[4] = "files" /\ m[5] = "user"
      /\ m[6] = "daemon" /\ m[7] = "pid" /\ m[8] = "config" /\ m[9] = "log" /\ m[10] = "serve"
      /\ m[11] = "stop" /\ m[12] = "unpid" /\ m[13] = "unlog"
  BY DEF DBSrvMain, DBSrvBegins, DBSrvServes
<1> HIDE DEF m
<1>2. ASSUME NEW i \in Nat \ {0}, NEW s
      PROVE  /\ Reaches(m, i, s) => ~Done(m, i, s)
             /\ Done(m, i + 1, s) <=> Done(m, i, s) \/ Reaches(m, i, s)
  BY <1>1 DEF Reaches, Done
<1>3. ASSUME NEW i \in Nat \ {0}
      PROVE  /\ Reaches(m, i, "options") => ~Done(m, i, "pid")
             /\ Reaches(m, i, "daemon") =>
                   \A s \in {"pid", "unpid", "log", "unlog", "serve", "stop"} : ~Done(m, i, s)
             /\ Reaches(m, i, "pid") => ~Done(m, i, "unpid")
             /\ Reaches(m, i, "log") => ~Done(m, i, "unlog")
             /\ Reaches(m, i, "serve") => ~Done(m, i, "stop")
  BY <1>1 DEF Reaches, Done
<1>4. ASSUME NEW i \in Nat \ {0}, Reaches(m, i, "stop")
      PROVE  /\ \A s \in {"user", "files", "cores", "config", "serve", "log"} : Done(m, i, s)
             /\ ~Done(m, i, "unlog")
  BY <1>1, <1>4 DEF Reaches, Done
<1>5. ASSUME NEW i \in Nat \ {0}, i > Len(m) PROVE Done(m, i, "unpid")
  BY <1>1, <1>5 DEF Done
<1>6. \A s : ~Done(m, 1, s)
  BY <1>1 DEF Done
<1>7. m = DBSrvMain
  BY DEF m
<1> QED
  BY <1>2, <1>3, <1>4, <1>5, <1>6, <1>7 DEF Ordered

LEMMA BgOrder == Ordered(BgMain)
<1> DEFINE m == BgMain
<1>1. /\ Len(m) = 12 /\ 1 .. Len(m) = {1, 2, 3, 4, 5, 6, 7, 8, 9, 10, 11, 12}
      /\ m[1] = "options" /\ m[2] = "path" /\ m[3] = "config" /\ m[4] = "cores" /\ m[5] = "files"
      /\ m[6] = "user" /\ m[7] = "daemon" /\ m[8] = "pid" /\ m[9] = "base" /\ m[10] = "serve"
      /\ m[11] = "stop" /\ m[12] = "unpid"
  BY DEF BgMain, BgBegins, BgServes
<1>2. m # DBSrvMain
  <2>1. Len(DBSrvMain) = 13
    BY DEF DBSrvMain, DBSrvBegins, DBSrvServes
  <2> QED
    BY <1>1, <2>1
<1> HIDE DEF m
<1>3. ASSUME NEW i \in Nat \ {0}, NEW s
      PROVE  /\ Reaches(m, i, s) => ~Done(m, i, s)
             /\ Done(m, i + 1, s) <=> Done(m, i, s) \/ Reaches(m, i, s)
  BY <1>1 DEF Reaches, Done
<1>4. ASSUME NEW i \in Nat \ {0}
      PROVE  /\ Reaches(m, i, "options") => ~Done(m, i, "pid")
             /\ Reaches(m, i, "daemon") =>
                   \A s \in {"pid", "unpid", "log", "unlog", "serve", "stop"} : ~Done(m, i, s)
             /\ Reaches(m, i, "pid") => ~Done(m, i, "unpid")
             /\ Reaches(m, i, "serve") => ~Done(m, i, "stop")
             /\ ~Reaches(m, i, "log") /\ ~Done(m, i, "log") /\ ~Done(m, i, "unlog")
  BY <1>1 DEF Reaches, Done
<1>5. ASSUME NEW i \in Nat \ {0}, Reaches(m, i, "stop")
      PROVE  \A s \in {"user", "files", "cores", "config", "serve"} : Done(m, i, s)
  BY <1>1, <1>5 DEF Reaches, Done
<1>6. ASSUME NEW i \in Nat \ {0}, i > Len(m) PROVE Done(m, i, "unpid")
  BY <1>1, <1>6 DEF Done
<1>7. \A s : ~Done(m, 1, s)
  BY <1>1 DEF Done
<1>8. m # DBSrvMain /\ m = BgMain
  BY <1>2 DEF m
<1> QED
  BY <1>3, <1>4, <1>5, <1>6, <1>7, <1>8 DEF Ordered

LEMMA BossOrder == Ordered(BossMain)
<1> DEFINE m == BossMain
<1>1. /\ Len(m) = 11 /\ 1 .. Len(m) = {1, 2, 3, 4, 5, 6, 7, 8, 9, 10, 11}
      /\ m[1] = "options" /\ m[2] = "path" /\ m[3] = "config" /\ m[4] = "cores" /\ m[5] = "files"
      /\ m[6] = "user" /\ m[7] = "daemon" /\ m[8] = "pid" /\ m[9] = "serve" /\ m[10] = "stop"
      /\ m[11] = "unpid"
  BY DEF BossMain, BossBegins, BossServes
<1>2. m # DBSrvMain
  <2>1. Len(DBSrvMain) = 13
    BY DEF DBSrvMain, DBSrvBegins, DBSrvServes
  <2> QED
    BY <1>1, <2>1
<1> HIDE DEF m
<1>3. ASSUME NEW i \in Nat \ {0}, NEW s
      PROVE  /\ Reaches(m, i, s) => ~Done(m, i, s)
             /\ Done(m, i + 1, s) <=> Done(m, i, s) \/ Reaches(m, i, s)
  BY <1>1 DEF Reaches, Done
<1>4. ASSUME NEW i \in Nat \ {0}
      PROVE  /\ Reaches(m, i, "options") => ~Done(m, i, "pid")
             /\ Reaches(m, i, "daemon") =>
                   \A s \in {"pid", "unpid", "log", "unlog", "serve", "stop"} : ~Done(m, i, s)
             /\ Reaches(m, i, "pid") => ~Done(m, i, "unpid")
             /\ Reaches(m, i, "serve") => ~Done(m, i, "stop")
             /\ ~Reaches(m, i, "log") /\ ~Done(m, i, "log") /\ ~Done(m, i, "unlog")
  BY <1>1 DEF Reaches, Done
<1>5. ASSUME NEW i \in Nat \ {0}, Reaches(m, i, "stop")
      PROVE  \A s \in {"user", "files", "cores", "config", "serve"} : Done(m, i, s)
  BY <1>1, <1>5 DEF Reaches, Done
<1>6. ASSUME NEW i \in Nat \ {0}, i > Len(m) PROVE Done(m, i, "unpid")
  BY <1>1, <1>6 DEF Done
<1>7. \A s : ~Done(m, 1, s)
  BY <1>1 DEF Done
<1>8. m # DBSrvMain /\ m = BossMain
  BY <1>2 DEF m
<1> QED
  BY <1>3, <1>4, <1>5, <1>6, <1>7, <1>8 DEF Ordered

LEMMA MainOrder == ASSUME prog \in {"dbsrv", "bg", "boss"}
                   PROVE  Ordered(Main) /\ (Main = DBSrvMain <=> prog = "dbsrv")
<1>1. Len(DBSrvMain) = 13 /\ Len(BgMain) = 12 /\ Len(BossMain) = 11
  BY DEF DBSrvMain, DBSrvBegins, DBSrvServes, BgMain, BgBegins, BgServes, BossMain, BossBegins, BossServes
<1>2. DBSrvMain # BgMain /\ DBSrvMain # BossMain
  BY <1>1
<1>3. /\ prog = "dbsrv" => Main = DBSrvMain
      /\ prog = "bg" => Main = BgMain
      /\ prog = "boss" => Main = BossMain
  BY DEF Main, DBSrvMain, BgMain, BossMain
<1> QED
  BY <1>2, <1>3, DBSrvOrder, BgOrder, BossOrder

-----------------------------------------------------------------------------
(* The processes                                                            *)

AnyThread == {"log", "workers", "writers", "php"}

Running ==
    [pid : 1 .. MaxPid, asked : CommandLine, root : BOOLEAN, step : Nat \ {0},
     cores : BOOLEAN, files : BOOLEAN, config : BOOLEAN, threads : SUBSET AnyThread,
     kept : BOOLEAN]

Runs(p) == procs[p] # NoProcess

StartOK ==
    /\ prog \in {"dbsrv", "bg", "boss"}
    /\ procs \in [Process -> {NoProcess} \cup Running]
    /\ pidFile \in 0 .. MaxPid /\ port \in 0 .. MaxPid /\ lastPid \in 0 .. MaxPid
    /\ howEnded \in [1 .. MaxPid -> {"no", "ok", "left", "failed", "killed"}]

\* The numbers are given out in order, one to each.
Numbered ==
    /\ \A p \in Process : Runs(p) => procs[p].pid <= lastPid /\ howEnded[procs[p].pid] = "no"
    /\ \A p, q \in Process : Runs(p) /\ Runs(q) /\ procs[p].pid = procs[q].pid => p = q
    /\ \A n \in 1 .. MaxPid : n > lastPid => howEnded[n] = "no"
    /\ pidFile <= lastPid

\* What a process x that runs main m has by now.
Prepared(m, x) ==
    /\ Done(m, x.step, "user") => ~x.root
    /\ Done(m, x.step, "files") => x.files
    /\ Done(m, x.step, "config") => x.config
    /\ Done(m, x.step, "cores") => (x.asked.cores => x.cores)
    /\ x.threads = (IF Done(m, x.step, "serve") /\ ~Done(m, x.step, "stop") THEN ThreadsOf ELSE {})
                   \cup (IF Done(m, x.step, "log") /\ ~Done(m, x.step, "unlog") THEN {"log"} ELSE {})

AllPrepared == \A p \in Process : Runs(p) => Prepared(Main, procs[p])

\* The port is of the one that has come to serve.
PortHeld == \A p \in Process : Runs(p) /\ Done(Main, procs[p].step, "serve") => port = procs[p].pid

\* A number that is in the pid file was written there, and is not removed yet or could
\* not be removed.
FileOf ==
    \A p \in Process : Runs(p) /\ pidFile = procs[p].pid =>
        /\ Done(Main, procs[p].step, "pid")
        /\ Done(Main, procs[p].step, "unpid") => procs[p].kept
        /\ HasPidFile(p)

StartInv == StartOK /\ Numbered /\ AllPrepared /\ PortHeld /\ FileOf /\ PidFileTells

LEMMA StartInitially == ASSUME StartInit PROVE StartInv
<1>1. \A p \in Process : ~Runs(p)
  BY DEF StartInit, Runs
<1>2. MaxPid \in Nat
  BY StartAssumption
<1>3. StartOK
  BY <1>2 DEF StartInit, StartOK
<1>4. Numbered
  BY <1>1, <1>2 DEF StartInit, Numbered
<1> QED
  BY <1>1, <1>3, <1>4 DEF StartInv, StartInit, AllPrepared, PortHeld, FileOf, PidFileTells

\* A process ends; one that ends as it should is not named by the pid file.
LEMMA EndKeeps ==
    ASSUME StartInv, NEW p \in Process, Runs(p), NEW how \in {"ok", "left", "failed", "killed"},
           Ends(p, how), UNCHANGED <<prog, pidFile, lastPid>>,
           how = "ok" => pidFile # procs[p].pid
    PROVE  StartInv'
<1>1. StartOK /\ Numbered /\ AllPrepared /\ PortHeld /\ FileOf /\ PidFileTells
  BY DEF StartInv
<1>2. PICK n \in 1 .. MaxPid : n = procs[p].pid
  BY <1>1 DEF StartOK, Runs, Running
<1>3. /\ procs' = [procs EXCEPT ![p] = NoProcess] /\ howEnded' = [howEnded EXCEPT ![n] = how]
      /\ port' = IF port = n THEN 0 ELSE port
  BY <1>2 DEF Ends
<1>4. /\ ~Runs(p)' /\ procs' \in [Process -> {NoProcess} \cup Running]
      /\ \A q \in Process : q # p => procs'[q] = procs[q] /\ (Runs(q)' <=> Runs(q))
      /\ \A q \in Process : q # p /\ Runs(q) => procs[q].pid # n
  <2>1. \A q \in Process : q # p /\ Runs(q) => procs[q].pid # n
    BY <1>1, <1>2 DEF Numbered
  <2>2. procs \in [Process -> {NoProcess} \cup Running]
    BY <1>1 DEF StartOK
  <2>3. procs' \in [Process -> {NoProcess} \cup Running]
    BY <1>3, <2>2
  <2>4. procs'[p] = NoProcess /\ \A q \in Process : q # p => procs'[q] = procs[q]
    BY <1>3, <2>2
  <2> QED
    BY <2>1, <2>3, <2>4 DEF Runs
<1>5. /\ howEnded' \in [1 .. MaxPid -> {"no", "ok", "left", "failed", "killed"}]
      /\ howEnded'[n] = how /\ \A k \in 1 .. MaxPid : k # n => howEnded'[k] = howEnded[k]
  BY <1>1, <1>3 DEF StartOK
<1>6. port' \in 0 .. MaxPid /\ Main' = Main /\ ThreadsOf' = ThreadsOf
  <2>1. port' \in 0 .. MaxPid
    BY <1>1, <1>3, StartAssumption DEF StartOK
  <2>2. Main' = Main /\ ThreadsOf' = ThreadsOf
    BY DEF Main, ThreadsOf
  <2> QED
    BY <2>1, <2>2
<1>7. \A q \in Process : Runs(q)' => /\ q # p /\ Runs(q) /\ procs'[q] = procs[q] /\ procs[q].pid # n
                                     /\ procs[q].pid \in 1 .. MaxPid
  BY <1>1, <1>4 DEF StartOK, Runs, Running
<1>8. StartOK'
  BY <1>1, <1>4, <1>5, <1>6 DEF StartOK
<1>9. Numbered'
  <2>1. n <= lastPid /\ MaxPid \in Nat /\ lastPid \in Nat
    BY <1>1, <1>2, StartAssumption DEF Numbered, StartOK
  <2> QED
    BY <1>1, <1>5, <1>7, <2>1 DEF Numbered
<1>10. AllPrepared'
  BY <1>1, <1>6, <1>7 DEF AllPrepared, Prepared
<1>11. PortHeld'
  BY <1>1, <1>3, <1>6, <1>7 DEF PortHeld
<1>12. FileOf'
  BY <1>1, <1>6, <1>7 DEF FileOf, HasPidFile
<1>13. PidFileTells'
  <2>1. pidFile \in 0 .. MaxPid
    BY <1>1 DEF StartOK
  <2> QED
    BY <1>1, <1>2, <1>5, <2>1 DEF PidFileTells
<1> QED
  BY <1>8, <1>9, <1>10, <1>11, <1>12, <1>13 DEF StartInv

\* A process goes on to its next step.
LEMMA GoesKeeps ==
    ASSUME StartInv, NEW p \in Process, NEW s, At(p, s), NEW x \in Running,
           x.pid = procs[p].pid, x.asked = procs[p].asked, x.step = procs[p].step,
           s # "unpid" => x.kept = procs[p].kept, Goes(p, x), UNCHANGED <<prog, howEnded, lastPid>>,
           Prepared(Main, [x EXCEPT !.step = @ + 1]),
           IF s = "serve" THEN port = 0 /\ port' = x.pid ELSE port' = port,
           \/ pidFile' = pidFile /\ (s = "unpid" => ~HasPidFile(p) \/ x.kept)
           \/ s \in {"pid", "unpid"} /\ pidFile' = 0
           \/ s = "pid" /\ HasPidFile(p) /\ pidFile' = x.pid
    PROVE  StartInv'
<1>1. StartOK /\ Numbered /\ AllPrepared /\ PortHeld /\ FileOf /\ PidFileTells
  BY DEF StartInv
<1> DEFINE y == [x EXCEPT !.step = @ + 1]
<1>2. /\ y \in Running /\ y.pid = x.pid /\ y.asked = x.asked /\ y.step = x.step + 1 /\ y # NoProcess
      /\ y.kept = x.kept
      /\ x.pid \in 1 .. MaxPid /\ x.step \in Nat \ {0} /\ MaxPid \in Nat
  BY StartAssumption DEF Running, NoProcess
<1>3. procs' = [procs EXCEPT ![p] = y] /\ Prepared(Main, y)
  BY DEF Goes
<1>4. Runs(p) /\ Reaches(Main, x.step, s)
  BY DEF At, Runs, Reaches
<1> HIDE DEF y
<1>5. /\ procs' \in [Process -> {NoProcess} \cup Running]
      /\ procs'[p] = y /\ Runs(p)'
      /\ \A q \in Process : q # p => procs'[q] = procs[q] /\ (Runs(q)' <=> Runs(q))
  BY <1>1, <1>2, <1>3 DEF StartOK, Runs
<1>6. \A q \in Process : Runs(q) => procs[q].pid \in 1 .. MaxPid /\ (q # p => procs[q].pid # x.pid)
  BY <1>1, <1>4 DEF StartOK, Running, Runs, Numbered
<1>7. Main' = Main /\ ThreadsOf' = ThreadsOf /\ Ordered(Main)
  BY <1>1, MainOrder DEF Main, ThreadsOf, StartOK
<1>8. \A r : Done(Main, y.step, r) <=> Done(Main, x.step, r) \/ Reaches(Main, x.step, r)
  BY <1>2, <1>7 DEF Ordered
<1>9. \A r : Reaches(Main, x.step, r) <=> r = s
  BY <1>4 DEF Reaches
<1>10. StartOK'
  BY <1>1, <1>2, <1>5 DEF StartOK
<1>11. Numbered'
  <2>1. pidFile' = pidFile \/ pidFile' = 0 \/ pidFile' = x.pid
    OBVIOUS
  <2>2. x.pid <= lastPid /\ howEnded[x.pid] = "no"
    BY <1>1, <1>4 DEF Numbered
  <2>3. \A q \in Process : Runs(q)' => Runs(q) /\ procs'[q].pid = procs[q].pid
    BY <1>2, <1>4, <1>5
  <2>4. pidFile' <= lastPid
    BY <1>1, <1>2, <2>1, <2>2 DEF Numbered, StartOK
  <2> QED
    BY <1>1, <2>3, <2>4 DEF Numbered
<1>12. AllPrepared'
  <2>1. Prepared(Main, y)'
    BY <1>3, <1>7 DEF Prepared
  <2>2. \A q \in Process : q # p /\ Runs(q) => Prepared(Main, procs[q])'
    BY <1>1, <1>5, <1>7 DEF AllPrepared, Prepared
  <2> QED
    BY <1>5, <2>1, <2>2 DEF AllPrepared
<1>13. PortHeld'
  <2>1. ASSUME NEW q \in Process, q # p, Runs(q)', Done(Main, procs[q].step, "serve")
        PROVE  port' = procs[q].pid
    <3>1. port = procs[q].pid /\ port # 0
      BY <1>1, <1>5, <1>6, <2>1 DEF PortHeld
    <3> QED
      BY <3>1
  <2>2. Done(Main, y.step, "serve") => port' = y.pid
    BY <1>1, <1>2, <1>4, <1>8, <1>9 DEF PortHeld
  <2> QED
    BY <1>5, <1>7, <2>1, <2>2 DEF PortHeld
<1>14. FileOf'
  <2>1. ASSUME NEW q \in Process, q # p, Runs(q)', pidFile' = procs[q].pid
        PROVE  /\ Done(Main, procs[q].step, "pid")
               /\ Done(Main, procs[q].step, "unpid") => procs[q].kept
               /\ HasPidFile(q)
    <3>1. Runs(q) /\ procs[q].pid # x.pid /\ procs[q].pid # 0
      BY <1>5, <1>6, <2>1
    <3>2. pidFile = procs[q].pid
      BY <2>1, <3>1
    <3> QED
      BY <1>1, <3>1, <3>2 DEF FileOf
  <2>2. ASSUME pidFile' = y.pid
        PROVE  /\ Done(Main, y.step, "pid")
               /\ Done(Main, y.step, "unpid") => y.kept
               /\ HasPidFile(p)
    <3>1. CASE pidFile' = pidFile
      <4>1. /\ Done(Main, x.step, "pid") /\ HasPidFile(p)
            /\ Done(Main, x.step, "unpid") => procs[p].kept
        BY <1>1, <1>2, <1>4, <2>2, <3>1 DEF FileOf
      <4>2. CASE s = "unpid"
        <5>1. y.kept
          BY <1>2, <2>2, <3>1, <4>1, <4>2
        <5> QED
          BY <1>8, <1>9, <4>1, <5>1
      <4>3. CASE s # "unpid"
        BY <1>2, <1>8, <1>9, <4>1, <4>3
      <4> QED
        BY <4>2, <4>3
    <3>2. CASE pidFile' # pidFile
      <4>1. s = "pid" /\ HasPidFile(p)
        BY <1>2, <2>2, <3>2
      <4>2. ~Done(Main, x.step, "unpid")
        BY <1>2, <1>4, <1>7, <4>1 DEF Ordered
      <4> QED
        BY <1>8, <1>9, <4>1, <4>2
    <3> QED
      BY <3>1, <3>2
  <2>3. HasPidFile(p)' <=> HasPidFile(p)
    BY <1>2, <1>5 DEF HasPidFile
  <2>4. \A q \in Process : q # p => (HasPidFile(q)' <=> HasPidFile(q))
    BY <1>5 DEF HasPidFile
  <2> QED
    BY <1>5, <1>7, <2>1, <2>2, <2>3, <2>4 DEF FileOf
<1>15. PidFileTells'
  <2>1. pidFile' = pidFile \/ pidFile' = 0 \/ pidFile' = x.pid
    OBVIOUS
  <2>2. howEnded[x.pid] = "no" /\ howEnded' = howEnded
    BY <1>1, <1>4 DEF Numbered
  <2> QED
    BY <1>1, <2>1, <2>2 DEF PidFileTells
<1> QED
  BY <1>10, <1>11, <1>12, <1>13, <1>14, <1>15 DEF StartInv

\* A step that tries: it goes on with what it has changed, or the process ends.
LEMMA TriesKeeps ==
    ASSUME StartInv, NEW p \in Process, NEW s, NEW ok, NEW x \in Running, Tries(p, s, ok, x),
           s \notin {"serve", "unpid"},
           x.pid = procs[p].pid, x.asked = procs[p].asked, x.step = procs[p].step,
           x.kept = procs[p].kept,
           ok => Prepared(Main, [x EXCEPT !.step = @ + 1])
    PROVE  StartInv'
<1>1. CASE ok
  <2>1. At(p, s) /\ Goes(p, x) /\ UNCHANGED <<prog, howEnded, lastPid, port, pidFile>>
    BY <1>1 DEF Tries
  <2> QED
    BY <1>1, <2>1, GoesKeeps
<1>2. CASE ~ok
  <2>1. Runs(p) /\ Ends(p, "failed") /\ UNCHANGED <<prog, pidFile, lastPid>>
    BY <1>2 DEF Tries, At, Runs
  <2> QED
    BY <2>1, EndKeeps
<1> QED
  BY <1>1, <1>2

\* What a process has before a step, and so after it, when it changes nothing else.
LEMMA PreparedOn ==
    ASSUME StartInv, NEW p \in Process, NEW s, At(p, s)
    PROVE  /\ procs[p] \in Running /\ Runs(p) /\ Prepared(Main, procs[p]) /\ Reaches(Main, procs[p].step, s)
           /\ Ordered(Main) /\ (Main = DBSrvMain <=> prog = "dbsrv")
           /\ \A r : Done(Main, procs[p].step + 1, r) <=> Done(Main, procs[p].step, r) \/ r = s
           /\ ~Done(Main, procs[p].step, s) /\ procs[p].step \in Nat \ {0}
<1>1. Runs(p) /\ Reaches(Main, procs[p].step, s)
  BY DEF At, Runs, Reaches
<1>2. procs[p] \in Running /\ Prepared(Main, procs[p])
  BY <1>1 DEF StartInv, StartOK, AllPrepared, Runs
<1>3. procs[p].step \in Nat \ {0}
  BY <1>2 DEF Running
<1>4. Ordered(Main) /\ (Main = DBSrvMain <=> prog = "dbsrv")
  BY MainOrder DEF StartInv, StartOK
<1>5. \A r : Reaches(Main, procs[p].step, r) <=> r = s
  BY <1>1 DEF Reaches
<1> QED
  BY <1>1, <1>2, <1>3, <1>4, <1>5 DEF Ordered

\* The steps that change only what the last one of them is about.
LEMMA ChangesKeep ==
    ASSUME StartInv, NEW p \in Process, NEW s, At(p, s), NEW x \in Running,
           s \notin {"serve", "stop", "log", "unlog"},
           x.pid = procs[p].pid, x.asked = procs[p].asked, x.step = procs[p].step,
           x.threads = procs[p].threads,
           procs[p].files => x.files, procs[p].config => x.config,
           s # "cores" => (procs[p].cores => x.cores),
           x.root => procs[p].root,
           s = "user" => ~x.root, s = "files" => x.files, s = "config" => x.config,
           s = "cores" => (x.asked.cores => x.cores)
    PROVE  Prepared(Main, [x EXCEPT !.step = @ + 1])
<1>1. /\ procs[p] \in Running /\ Prepared(Main, procs[p])
      /\ \A r : Done(Main, procs[p].step + 1, r) <=> Done(Main, procs[p].step, r) \/ r = s
  BY PreparedOn
<1> DEFINE y == [x EXCEPT !.step = @ + 1]
<1>2. /\ y.step = procs[p].step + 1 /\ y.root = x.root /\ y.files = x.files /\ y.config = x.config
      /\ y.asked = procs[p].asked /\ y.cores = x.cores /\ y.threads = procs[p].threads
  BY DEF Running
<1> HIDE DEF y
<1>3. /\ Done(Main, y.step, "user") => ~y.root
      /\ Done(Main, y.step, "files") => y.files
      /\ Done(Main, y.step, "config") => y.config
      /\ Done(Main, y.step, "cores") => (y.asked.cores => y.cores)
  BY <1>1, <1>2 DEF Prepared
<1>4. \A r \in {"serve", "stop", "log", "unlog"} :
         Done(Main, y.step, r) <=> Done(Main, procs[p].step, r)
  BY <1>1, <1>2
<1>5. y.threads =
         (IF Done(Main, y.step, "serve") /\ ~Done(Main, y.step, "stop") THEN ThreadsOf ELSE {})
         \cup (IF Done(Main, y.step, "log") /\ ~Done(Main, y.step, "unlog") THEN {"log"} ELSE {})
  BY <1>1, <1>2, <1>4 DEF Prepared
<1> QED
  BY <1>3, <1>5 DEF Prepared, y

\* The steps that start and end threads.
LEMMA ThreadsKeep ==
    ASSUME StartInv, NEW p \in Process, NEW s \in {"serve", "stop", "log", "unlog"}, At(p, s),
           NEW x \in Running,
           x = [procs[p] EXCEPT !.threads = CASE s = "serve" -> @ \cup ThreadsOf
                                              [] s = "stop" -> @ \ ThreadsOf
                                              [] s = "log" -> @ \cup {"log"}
                                              [] s = "unlog" -> @ \ {"log"}]
    PROVE  Prepared(Main, [x EXCEPT !.step = @ + 1])
<1>1. /\ procs[p] \in Running /\ Prepared(Main, procs[p]) /\ Reaches(Main, procs[p].step, s)
      /\ \A r : Done(Main, procs[p].step + 1, r) <=> Done(Main, procs[p].step, r) \/ r = s
      /\ Ordered(Main) /\ procs[p].step \in Nat \ {0}
  BY PreparedOn
<1> DEFINE y == [x EXCEPT !.step = @ + 1]
           T == procs[p].threads
<1>2. /\ y.step = procs[p].step + 1 /\ y.root = procs[p].root /\ y.files = procs[p].files
      /\ y.config = procs[p].config /\ y.asked = procs[p].asked /\ y.cores = procs[p].cores
  BY DEF Running
<1>3. y.threads = CASE s = "serve" -> T \cup ThreadsOf
                    [] s = "stop" -> T \ ThreadsOf
                    [] s = "log" -> T \cup {"log"}
                    [] s = "unlog" -> T \ {"log"}
  BY <1>1 DEF Running
<1> HIDE DEF y
<1>4. /\ Done(Main, y.step, "user") => ~y.root
      /\ Done(Main, y.step, "files") => y.files
      /\ Done(Main, y.step, "config") => y.config
      /\ Done(Main, y.step, "cores") => (y.asked.cores => y.cores)
  BY <1>1, <1>2 DEF Prepared
<1> DEFINE d(r) == Done(Main, procs[p].step, r)
<1>5. T = (IF d("serve") /\ ~d("stop") THEN ThreadsOf ELSE {})
          \cup (IF d("log") /\ ~d("unlog") THEN {"log"} ELSE {})
  BY <1>1 DEF Prepared
<1>6. \A r : Done(Main, y.step, r) <=> d(r) \/ r = s
  BY <1>1, <1>2
<1>7. /\ s = "serve" => ~d("stop")
      /\ s = "log" => ~d("unlog")
      /\ ~d(s)
  BY <1>1 DEF Ordered
<1>8. "log" \notin ThreadsOf
  BY DEF ThreadsOf
<1> HIDE DEF T, d
<1>9. y.threads =
         (IF Done(Main, y.step, "serve") /\ ~Done(Main, y.step, "stop") THEN ThreadsOf ELSE {})
         \cup (IF Done(Main, y.step, "log") /\ ~Done(Main, y.step, "unlog") THEN {"log"} ELSE {})
  <2>1. CASE s = "serve"
    BY <1>3, <1>5, <1>6, <1>7, <2>1
  <2>2. CASE s = "stop"
    BY <1>3, <1>5, <1>6, <1>7, <1>8, <2>2
  <2>3. CASE s = "log"
    BY <1>3, <1>5, <1>6, <1>7, <2>3
  <2>4. CASE s = "unlog"
    BY <1>3, <1>5, <1>6, <1>7, <1>8, <2>4
  <2> QED
    BY <2>1, <2>2, <2>3, <2>4
<1> QED
  BY <1>4, <1>9 DEF Prepared, y

\* The parent ends as it should; nothing of what comes after the fork is done yet.
LEMMA ForksKeeps ==
    ASSUME StartInv, NEW p \in Process, NEW ok \in BOOLEAN, At(p, "daemon"), Forks(p, ok)
    PROVE  StartInv'
<1>1. StartOK /\ Numbered /\ AllPrepared /\ PortHeld /\ FileOf /\ PidFileTells
  BY DEF StartInv
<1>2. /\ procs[p] \in Running /\ Runs(p) /\ Prepared(Main, procs[p]) /\ Ordered(Main)
      /\ Reaches(Main, procs[p].step, "daemon") /\ procs[p].step \in Nat \ {0}
      /\ \A r : Done(Main, procs[p].step + 1, r) <=> Done(Main, procs[p].step, r) \/ r = "daemon"
  BY PreparedOn
<1>3. \A r \in {"pid", "unpid", "log", "unlog", "serve", "stop"} : ~Done(Main, procs[p].step, r)
  BY <1>2 DEF Ordered
<1>4. PICK n \in 1 .. MaxPid : n = procs[p].pid
  BY <1>2 DEF Running
<1>5. /\ lastPid < MaxPid /\ lastPid' = lastPid + 1 /\ UNCHANGED <<prog, pidFile, port>>
      /\ howEnded' = [howEnded EXCEPT ![n] = "ok", ![lastPid + 1] = IF ok THEN "no" ELSE "failed"]
  BY <1>4 DEF Forks
<1>6. /\ lastPid \in Nat /\ MaxPid \in Nat /\ lastPid + 1 \in 1 .. MaxPid /\ n <= lastPid
      /\ pidFile \in Nat /\ pidFile <= lastPid
  BY <1>1, <1>2, <1>4, <1>5, StartAssumption DEF StartOK, Numbered
<1>7. /\ howEnded' \in [1 .. MaxPid -> {"no", "ok", "left", "failed", "killed"}]
      /\ howEnded'[n] = "ok" /\ howEnded'[lastPid + 1] = IF ok THEN "no" ELSE "failed"
      /\ \A k \in 1 .. MaxPid : k # n /\ k # lastPid + 1 => howEnded'[k] = howEnded[k]
  <2>1. howEnded \in [1 .. MaxPid -> {"no", "ok", "left", "failed", "killed"}]
    BY <1>1 DEF StartOK
  <2> QED
    BY <1>5, <1>6, <2>1
<1>8. Main' = Main /\ ThreadsOf' = ThreadsOf
  BY <1>5 DEF Main, ThreadsOf
<1>9. pidFile # n
  BY <1>1, <1>2, <1>3, <1>4 DEF FileOf
<1>10. \A q \in Process : Runs(q) => /\ procs[q].pid \in 1 .. MaxPid /\ procs[q].pid <= lastPid
                                     /\ (q # p => procs[q].pid # n) /\ howEnded[procs[q].pid] = "no"
  BY <1>1, <1>2, <1>4 DEF StartOK, Running, Runs, Numbered
<1>11. PidFileTells'
  <2>1. pidFile' = pidFile /\ (pidFile = 0 \/ pidFile \in 1 .. MaxPid) /\ pidFile # lastPid + 1
    BY <1>5, <1>6
  <2> QED
    BY <1>1, <1>7, <1>9, <2>1 DEF PidFileTells
<1>12. \A k \in 1 .. MaxPid : k > lastPid' => howEnded'[k] = "no"
  BY <1>1, <1>5, <1>6, <1>7 DEF Numbered
<1>13. CASE ~ok
  <2>1. procs' = [procs EXCEPT ![p] = NoProcess]
    BY <1>13 DEF Forks
  <2>2. procs \in [Process -> {NoProcess} \cup Running]
    BY <1>1 DEF StartOK
  <2>3. procs' \in [Process -> {NoProcess} \cup Running] /\ procs'[p] = NoProcess
        /\ \A q \in Process : q # p => procs'[q] = procs[q]
    BY <2>1, <2>2
  <2>4. \A q \in Process : Runs(q)' => q # p /\ Runs(q) /\ procs'[q] = procs[q]
    BY <2>3 DEF Runs
  <2>5. StartOK'
    BY <1>1, <1>5, <1>6, <1>7, <2>3 DEF StartOK
  <2>6. Numbered'
    <3>1. \A q \in Process : Runs(q)' => procs'[q].pid <= lastPid' /\ howEnded'[procs'[q].pid] = "no"
      BY <1>5, <1>6, <1>7, <1>10, <2>4
    <3>2. \A q, r \in Process : Runs(q)' /\ Runs(r)' /\ procs'[q].pid = procs'[r].pid => q = r
      BY <1>1, <2>4 DEF Numbered
    <3>3. pidFile' <= lastPid'
      BY <1>5, <1>6
    <3> QED
      BY <1>12, <3>1, <3>2, <3>3 DEF Numbered
  <2>7. AllPrepared'
    BY <1>1, <1>8, <2>4 DEF AllPrepared, Prepared
  <2>8. PortHeld' /\ FileOf'
    BY <1>1, <1>5, <1>8, <2>4 DEF PortHeld, FileOf, HasPidFile
  <2> QED
    BY <1>11, <2>5, <2>6, <2>7, <2>8 DEF StartInv
<1>14. CASE ok
  <2>2. procs \in [Process -> {NoProcess} \cup Running]
    BY <1>1 DEF StartOK
  <2>0. PICK x : x = [procs[p] EXCEPT !.pid = lastPid + 1, !.threads = {}]
    OBVIOUS
  <2>1. PICK y : procs' = [procs EXCEPT ![p] = y] /\ y = [x EXCEPT !.step = @ + 1]
    BY <1>14, <2>0 DEF Forks, Goes
  <2>3. /\ y \in Running /\ y # NoProcess /\ y.pid = lastPid + 1 /\ y.step = procs[p].step + 1
        /\ y.root = procs[p].root /\ y.files = procs[p].files /\ y.config = procs[p].config
        /\ y.asked = procs[p].asked /\ y.cores = procs[p].cores /\ y.threads = {}
    <3>1. /\ x \in Running /\ x.pid = lastPid + 1 /\ x.step = procs[p].step
          /\ x.root = procs[p].root /\ x.files = procs[p].files /\ x.config = procs[p].config
          /\ x.asked = procs[p].asked /\ x.cores = procs[p].cores /\ x.threads = {}
      BY <1>2, <1>6, <2>0 DEF Running
    <3>2. /\ y \in Running /\ y.pid = x.pid /\ y.step = x.step + 1 /\ y.root = x.root
          /\ y.files = x.files /\ y.config = x.config /\ y.asked = x.asked /\ y.cores = x.cores
          /\ y.threads = x.threads
      BY <2>1, <3>1 DEF Running
    <3>3. y.pid # NoProcess.pid
      BY <1>6, <3>1, <3>2 DEF NoProcess
    <3> QED
      BY <3>1, <3>2, <3>3
  <2>4. procs' \in [Process -> {NoProcess} \cup Running] /\ procs'[p] = y
        /\ \A q \in Process : q # p => procs'[q] = procs[q]
    BY <2>1, <2>2, <2>3
  <2>5. /\ \A q \in Process : q # p => (Runs(q)' <=> Runs(q)) /\ procs'[q] = procs[q]
        /\ Runs(p)' /\ procs'[p] = y
    BY <2>3, <2>4 DEF Runs
  <2>6. StartOK'
    BY <1>1, <1>5, <1>6, <1>7, <2>4 DEF StartOK
  <2>7. Numbered'
    <3>1. \A q \in Process : q # p /\ Runs(q)' =>
              procs'[q].pid <= lastPid' /\ howEnded'[procs'[q].pid] = "no"
      BY <1>5, <1>6, <1>7, <1>10, <2>5
    <3>2. y.pid <= lastPid' /\ howEnded'[y.pid] = "no"
      BY <1>5, <1>6, <1>7, <1>14, <2>3
    <3>3. \A q \in Process : q # p /\ Runs(q)' => procs'[q].pid # y.pid
      BY <1>6, <1>10, <2>3, <2>5
    <3>4. \A q, r \in Process : Runs(q)' /\ Runs(r)' /\ procs'[q].pid = procs'[r].pid => q = r
      BY <1>1, <2>5, <3>3 DEF Numbered
    <3>5. pidFile' <= lastPid'
      BY <1>5, <1>6
    <3> QED
      BY <1>12, <2>5, <3>1, <3>2, <3>4, <3>5 DEF Numbered
  <2>8. Prepared(Main, y)
    <3>1. /\ ~Done(Main, y.step, "serve") /\ ~Done(Main, y.step, "log")
      BY <1>2, <1>3, <2>3
    <3>2. \A r \in {"user", "files", "config", "cores"} :
              Done(Main, y.step, r) => Done(Main, procs[p].step, r)
      BY <1>2, <2>3
    <3> QED
      BY <1>2, <2>3, <3>1, <3>2 DEF Prepared
  <2>9. AllPrepared'
    <3>1. Prepared(Main, y)'
      BY <1>8, <2>3, <2>5, <2>8 DEF Prepared
    <3> QED
      BY <1>1, <1>8, <2>5, <3>1 DEF AllPrepared, Prepared
  <2>10. PortHeld'
    <3>1. ~Done(Main, y.step, "serve")
      BY <1>2, <1>3, <2>3
    <3> QED
      BY <1>1, <1>5, <1>8, <2>5, <3>1 DEF PortHeld
  <2>11. FileOf'
    <3>1. pidFile' # y.pid
      BY <1>5, <1>6, <2>3
    <3> QED
      BY <1>1, <1>5, <1>8, <2>5, <3>1 DEF FileOf, HasPidFile
  <2> QED
    BY <1>11, <2>6, <2>7, <2>9, <2>10, <2>11 DEF StartInv
<1> QED
  BY <1>13, <1>14

LEMMA LaunchKeeps ==
    ASSUME StartInv, NEW p \in Process, NEW a \in CommandLine, NEW root \in BOOLEAN,
           Launch(p, a, root)
    PROVE  StartInv'
<1>1. StartOK /\ Numbered /\ AllPrepared /\ PortHeld /\ FileOf /\ PidFileTells
  BY DEF StartInv
<1>0. PICK y : y = [pid |-> lastPid + 1, asked |-> a, root |-> root, step |-> 1,
                    cores |-> FALSE, files |-> FALSE, config |-> FALSE, threads |-> {},
                    kept |-> FALSE]
  OBVIOUS
<1>2. /\ procs[p] = NoProcess /\ lastPid + Cardinality(Process) <= MaxPid
      /\ lastPid' = lastPid + 1 /\ procs' = [procs EXCEPT ![p] = y]
      /\ UNCHANGED <<prog, pidFile, port, howEnded>>
  BY <1>0 DEF Launch
<1>3. Cardinality(Process) \in Nat \ {0}
  BY FS_EmptySet, FS_CardinalityType, StartAssumption
<1>4. /\ lastPid \in Nat /\ MaxPid \in Nat /\ lastPid + 1 \in 1 .. MaxPid
      /\ pidFile \in Nat /\ pidFile <= lastPid
  BY <1>1, <1>2, <1>3, StartAssumption DEF StartOK, Numbered
<1>5. /\ y \in Running /\ y # NoProcess /\ y.pid = lastPid + 1 /\ y.step = 1 /\ y.threads = {}
  BY <1>0, <1>4 DEF Running, NoProcess
<1>6. /\ procs' \in [Process -> {NoProcess} \cup Running]
      /\ \A q \in Process : q # p => (Runs(q)' <=> Runs(q)) /\ procs'[q] = procs[q]
      /\ Runs(p)' /\ procs'[p] = y
  <2>1. procs \in [Process -> {NoProcess} \cup Running]
    BY <1>1 DEF StartOK
  <2>2. procs' \in [Process -> {NoProcess} \cup Running] /\ procs'[p] = y
        /\ \A q \in Process : q # p => procs'[q] = procs[q]
    BY <1>2, <1>5, <2>1
  <2> QED
    BY <1>5, <2>2 DEF Runs
<1>7. Main' = Main /\ ThreadsOf' = ThreadsOf /\ \A s : ~Done(Main, 1, s)
  <2>1. Main' = Main /\ ThreadsOf' = ThreadsOf
    BY <1>2 DEF Main, ThreadsOf
  <2>2. Ordered(Main)
    BY <1>1, MainOrder DEF StartOK
  <2> QED
    BY <2>1, <2>2 DEF Ordered
<1>8. StartOK'
  BY <1>1, <1>2, <1>4, <1>6 DEF StartOK
<1>9. \A q \in Process : Runs(q) => procs[q].pid \in 1 .. MaxPid /\ procs[q].pid <= lastPid
  BY <1>1 DEF StartOK, Running, Runs, Numbered
<1>10. Numbered'
  <2>1. howEnded'[lastPid + 1] = "no" /\ \A q \in Process : q # p /\ Runs(q)' => procs'[q].pid # y.pid
    BY <1>1, <1>2, <1>4, <1>5, <1>6, <1>9 DEF Numbered
  <2>2. \A q \in Process : Runs(q)' => procs'[q].pid <= lastPid' /\ howEnded'[procs'[q].pid] = "no"
    BY <1>1, <1>2, <1>4, <1>5, <1>6, <1>9, <2>1 DEF Numbered
  <2>3. \A q, r \in Process : Runs(q)' /\ Runs(r)' /\ procs'[q].pid = procs'[r].pid => q = r
    BY <1>1, <1>6, <2>1 DEF Numbered
  <2>4. pidFile' <= lastPid' /\ \A k \in 1 .. MaxPid : k > lastPid' => howEnded'[k] = "no"
    BY <1>1, <1>2, <1>4 DEF Numbered
  <2> QED
    BY <2>2, <2>3, <2>4 DEF Numbered
<1>11. AllPrepared'
  <2>1. Prepared(Main, y)'
    BY <1>5, <1>6, <1>7 DEF Prepared
  <2> QED
    BY <1>1, <1>6, <1>7, <2>1 DEF AllPrepared, Prepared
<1>12. PortHeld'
  BY <1>1, <1>2, <1>5, <1>6, <1>7 DEF PortHeld
<1>13. FileOf'
  <2>1. pidFile' # y.pid
    BY <1>2, <1>4, <1>5
  <2> QED
    BY <1>1, <1>2, <1>6, <1>7, <2>1 DEF FileOf, HasPidFile
<1>14. PidFileTells'
  BY <1>1, <1>2 DEF PidFileTells
<1> QED
  BY <1>8, <1>10, <1>11, <1>12, <1>13, <1>14 DEF StartInv

LEMMA PlainSteps ==
    ASSUME StartInv, NEW p \in Process, NEW ok \in BOOLEAN,
           \/ FindPath(p, ok) \/ MaximizeCores(p, ok) \/ RaiseFiles(p, ok) \/ DropRoot(p, ok)
           \/ SetSource(p, ok) \/ InitBase(p, ok) \/ ForkFails(p)
    PROVE  StartInv'
<1> DEFINE o == procs[p]
<1>1. ASSUME NEW s, At(p, s)
      PROVE  o \in Running /\ o.root \in BOOLEAN /\ o.asked.cores \in BOOLEAN /\ o.asked.user \in BOOLEAN
  <2>1. o \in Running
    BY <1>1, PreparedOn
  <2> QED
    BY <2>1, StartAssumption DEF Running
<1>2. CASE FindPath(p, ok)
  <2>1. At(p, "path") /\ Tries(p, "path", ok, o)
    BY <1>2 DEF FindPath, Tries
  <2>2. o \in Running
    BY <1>1, <2>1
  <2>3. Prepared(Main, [o EXCEPT !.step = @ + 1])
    BY <2>1, <2>2, ChangesKeep
  <2> QED
    BY <2>1, <2>2, <2>3, TriesKeeps
<1>3. CASE MaximizeCores(p, ok)
  <2> DEFINE x == [o EXCEPT !.cores = o.root \/ ok]
  <2>1. At(p, "cores") /\ Tries(p, "cores", o.asked.cores => o.root \/ ok, x)
    BY <1>3 DEF MaximizeCores, Tries
  <2>2. /\ x \in Running /\ x.pid = o.pid /\ x.asked = o.asked /\ x.step = o.step
        /\ x.kept = o.kept
        /\ x.threads = o.threads /\ x.files = o.files /\ x.config = o.config /\ x.root = o.root
        /\ x.cores = (o.root \/ ok)
    BY <1>1, <2>1 DEF Running
  <2> HIDE DEF x
  <2>3. (o.asked.cores => o.root \/ ok) => (x.asked.cores => x.cores)
    BY <2>2
  <2>4. (o.asked.cores => o.root \/ ok) => Prepared(Main, [x EXCEPT !.step = @ + 1])
    BY <2>1, <2>2, <2>3, ChangesKeep
  <2> QED
    BY <2>1, <2>2, <2>4, TriesKeeps
<1>4. CASE RaiseFiles(p, ok)
  <2> DEFINE x == [o EXCEPT !.files = TRUE]
  <2>1. At(p, "files") /\ Tries(p, "files", o.root \/ ok, x)
    BY <1>4 DEF RaiseFiles, Tries
  <2>2. /\ x \in Running /\ x.pid = o.pid /\ x.asked = o.asked /\ x.step = o.step
        /\ x.kept = o.kept
        /\ x.threads = o.threads /\ x.files = TRUE /\ x.config = o.config /\ x.root = o.root
        /\ x.cores = o.cores
    BY <1>1, <2>1 DEF Running
  <2> HIDE DEF x
  <2>3. Prepared(Main, [x EXCEPT !.step = @ + 1])
    BY <2>1, <2>2, ChangesKeep
  <2> QED
    BY <2>1, <2>2, <2>3, TriesKeeps
<1>5. CASE DropRoot(p, ok)
  <2> DEFINE x == [o EXCEPT !.root = FALSE]
  <2>1. At(p, "user") /\ Tries(p, "user", o.root => o.asked.user /\ ok, x)
    BY <1>5 DEF DropRoot, Tries
  <2>2. /\ x \in Running /\ x.pid = o.pid /\ x.asked = o.asked /\ x.step = o.step
        /\ x.kept = o.kept
        /\ x.threads = o.threads /\ x.files = o.files /\ x.config = o.config /\ x.root = FALSE
        /\ x.cores = o.cores
    BY <1>1, <2>1 DEF Running
  <2> HIDE DEF x
  <2>3. Prepared(Main, [x EXCEPT !.step = @ + 1])
    BY <2>1, <2>2, ChangesKeep
  <2> QED
    BY <2>1, <2>2, <2>3, TriesKeeps
<1>6. CASE SetSource(p, ok)
  <2> DEFINE x == [o EXCEPT !.config = TRUE]
  <2>1. At(p, "config") /\ Tries(p, "config", ok, x)
    BY <1>6 DEF SetSource, Tries
  <2>2. /\ x \in Running /\ x.pid = o.pid /\ x.asked = o.asked /\ x.step = o.step
        /\ x.kept = o.kept
        /\ x.threads = o.threads /\ x.files = o.files /\ x.config = TRUE /\ x.root = o.root
        /\ x.cores = o.cores
    BY <1>1, <2>1 DEF Running
  <2> HIDE DEF x
  <2>3. Prepared(Main, [x EXCEPT !.step = @ + 1])
    BY <2>1, <2>2, ChangesKeep
  <2> QED
    BY <2>1, <2>2, <2>3, TriesKeeps
<1>7. CASE InitBase(p, ok)
  <2>1. At(p, "base") /\ Tries(p, "base", ok, o)
    BY <1>7 DEF InitBase, Tries
  <2>2. o \in Running
    BY <1>1, <2>1
  <2>3. Prepared(Main, [o EXCEPT !.step = @ + 1])
    BY <2>1, <2>2, ChangesKeep
  <2> QED
    BY <2>1, <2>2, <2>3, TriesKeeps
<1>8. CASE ForkFails(p)
  <2>1. At(p, "daemon") /\ Ends(p, "failed") /\ UNCHANGED <<prog, pidFile, lastPid>>
    BY <1>8 DEF ForkFails, Tries
  <2>2. Runs(p)
    BY <2>1, PreparedOn
  <2> QED
    BY <2>1, <2>2, EndKeeps
<1> QED
  BY <1>2, <1>3, <1>4, <1>5, <1>6, <1>7, <1>8

LEMMA ThreadSteps ==
    ASSUME StartInv, NEW p \in Process, StartLog(p) \/ Serve(p) \/ StopServer(p) \/ StopLog(p)
    PROVE  StartInv'
<1> DEFINE o == procs[p]
<1>1. ASSUME NEW s, At(p, s)
      PROVE  o \in Running /\ Runs(p) /\ ThreadsOf \subseteq AnyThread
  BY <1>1, PreparedOn DEF ThreadsOf, AnyThread
<1>2. CASE StartLog(p)
  <2> DEFINE x == [o EXCEPT !.threads = @ \cup {"log"}]
  <2>1. At(p, "log") /\ Tries(p, "log", TRUE, x)
    BY <1>2 DEF StartLog, Tries
  <2>2. x \in Running /\ x.pid = o.pid /\ x.asked = o.asked /\ x.step = o.step
        /\ x.kept = o.kept
    BY <1>1, <2>1 DEF Running, AnyThread
  <2>3. Prepared(Main, [x EXCEPT !.step = @ + 1])
    BY <2>1, <2>2, ThreadsKeep
  <2> HIDE DEF x
  <2> QED
    BY <2>1, <2>2, <2>3, TriesKeeps
<1>3. CASE Serve(p) /\ port # 0
  <2>1. At(p, "serve") /\ Ends(p, "killed") /\ UNCHANGED <<prog, pidFile, lastPid>>
    BY <1>3 DEF Serve
  <2> QED
    BY <1>1, <2>1, EndKeeps
<1>4. CASE Serve(p) /\ port = 0
  <2> DEFINE x == [o EXCEPT !.threads = @ \cup ThreadsOf]
  <2>1. /\ At(p, "serve") /\ Goes(p, x) /\ port' = o.pid
        /\ UNCHANGED <<prog, pidFile, lastPid, howEnded>>
    BY <1>4 DEF Serve
  <2>2. x \in Running /\ x.pid = o.pid /\ x.asked = o.asked /\ x.step = o.step
        /\ x.kept = o.kept
    BY <1>1, <2>1 DEF Running
  <2>3. Prepared(Main, [x EXCEPT !.step = @ + 1])
    BY <2>1, <2>2, ThreadsKeep
  <2> HIDE DEF x
  <2> QED
    BY <1>4, <2>1, <2>2, <2>3, GoesKeeps
<1>5. CASE StopServer(p)
  <2> DEFINE x == [o EXCEPT !.threads = @ \ ThreadsOf]
  <2>1. At(p, "stop") /\ Tries(p, "stop", TRUE, x)
    BY <1>5 DEF StopServer, Tries
  <2>2. x \in Running /\ x.pid = o.pid /\ x.asked = o.asked /\ x.step = o.step
        /\ x.kept = o.kept
    BY <1>1, <2>1 DEF Running
  <2>3. Prepared(Main, [x EXCEPT !.step = @ + 1])
    BY <2>1, <2>2, ThreadsKeep
  <2> HIDE DEF x
  <2> QED
    BY <2>1, <2>2, <2>3, TriesKeeps
<1>6. CASE StopLog(p)
  <2> DEFINE x == [o EXCEPT !.threads = @ \ {"log"}]
  <2>1. At(p, "unlog") /\ Tries(p, "unlog", TRUE, x)
    BY <1>6 DEF StopLog, Tries
  <2>2. x \in Running /\ x.pid = o.pid /\ x.asked = o.asked /\ x.step = o.step
        /\ x.kept = o.kept
    BY <1>1, <2>1 DEF Running
  <2>3. Prepared(Main, [x EXCEPT !.step = @ + 1])
    BY <2>1, <2>2, ThreadsKeep
  <2> HIDE DEF x
  <2> QED
    BY <2>1, <2>2, <2>3, TriesKeeps
<1> QED
  BY <1>2, <1>3, <1>4, <1>5, <1>6

LEMMA FileSteps ==
    ASSUME StartInv, NEW p \in Process, NEW ok \in BOOLEAN, NEW closes \in BOOLEAN,
           Options(p) \/ Daemonize(p, ok) \/ SavePid(p, ok, closes) \/ RemovePid(p, ok) \/ Returns(p) \/ Kill(p)
    PROVE  StartInv'
<1> DEFINE o == procs[p]
<1>1. ASSUME NEW s \in {"options", "daemon", "pid", "unpid"}, At(p, s)
      PROVE  /\ o \in Running /\ Runs(p) /\ Prepared(Main, [o EXCEPT !.step = @ + 1])
             /\ Ordered(Main) /\ o.step \in Nat \ {0} /\ Reaches(Main, o.step, s)
  <2>1. /\ o \in Running /\ Runs(p) /\ Ordered(Main) /\ o.step \in Nat \ {0} /\ Reaches(Main, o.step, s)
    BY <1>1, PreparedOn
  <2> QED
    BY <1>1, <2>1, ChangesKeep
<1>2. CASE Options(p)
  <2>1. /\ At(p, "options") /\ UNCHANGED <<prog, pidFile, lastPid>>
        /\ \/ Ends(p, "ok") \/ Ends(p, "failed")
           \/ Goes(p, o) /\ UNCHANGED <<howEnded, port>>
    BY <1>2 DEF Options
  <2>2. pidFile # o.pid
    BY <1>1, <2>1 DEF StartInv, FileOf, Ordered
  <2> QED
    BY <1>1, <2>1, <2>2, EndKeeps, GoesKeeps
<1>3. CASE Daemonize(p, ok)
  <2>1. CASE o.asked.daemon
    BY <1>3, <2>1, ForksKeeps DEF Daemonize
  <2>2. CASE ~o.asked.daemon
    <3>1. At(p, "daemon") /\ Goes(p, o) /\ UNCHANGED <<prog, pidFile, port, howEnded, lastPid>>
      BY <1>3, <2>2 DEF Daemonize
    <3> QED
      BY <1>1, <3>1, GoesKeeps
  <2> QED
    BY <2>1, <2>2
<1>4. CASE SavePid(p, ok, closes)
  <2>1. /\ At(p, "pid") /\ Goes(p, o) /\ UNCHANGED <<prog, port, howEnded, lastPid>>
        /\ (HasPidFile(p) /\ pidFile' = o.pid) \/ pidFile' = pidFile \/ pidFile' = 0
    BY <1>4 DEF SavePid
  <2> QED
    BY <1>1, <2>1, GoesKeeps
<1>5. CASE RemovePid(p, ok)
  <2> DEFINE x == [o EXCEPT !.kept = HasPidFile(p) /\ ~ok]
  <2>1. /\ At(p, "unpid") /\ Goes(p, x) /\ UNCHANGED <<prog, port, howEnded, lastPid>>
        /\ pidFile' = 0 \/ (pidFile' = pidFile /\ (~HasPidFile(p) \/ ~ok))
    BY <1>5 DEF RemovePid
  <2>2. o \in Running /\ Runs(p) /\ Reaches(Main, o.step, "unpid")
    BY <1>1, <2>1
  <2>3. /\ x \in Running /\ x.pid = o.pid /\ x.asked = o.asked /\ x.step = o.step
        /\ x.threads = o.threads /\ x.files = o.files /\ x.config = o.config /\ x.root = o.root
        /\ x.cores = o.cores /\ (x.kept <=> HasPidFile(p) /\ ~ok)
    BY <2>2 DEF Running, HasPidFile
  <2> HIDE DEF x
  <2>4. Prepared(Main, [x EXCEPT !.step = @ + 1])
    BY <2>1, <2>3, ChangesKeep
  <2> QED
    BY <2>1, <2>3, <2>4, GoesKeeps
<1>6. CASE Returns(p)
  <2>1. /\ Runs(p) /\ o.step > Len(Main) /\ UNCHANGED <<prog, pidFile, lastPid>>
        /\ Ends(p, IF o.kept THEN "left" ELSE "ok")
    BY <1>6 DEF Returns, Runs
  <2>2. o.step \in Nat \ {0} /\ Ordered(Main)
    BY <2>1, MainOrder DEF StartInv, StartOK, Runs, Running
  <2>3. ~o.kept => pidFile # o.pid
    BY <2>1, <2>2 DEF StartInv, FileOf, Ordered
  <2> QED
    BY <2>1, <2>3, EndKeeps
<1>7. CASE Kill(p)
  <2>1. Runs(p) /\ Ends(p, "killed") /\ UNCHANGED <<prog, pidFile, lastPid>>
    BY <1>7 DEF Kill, Runs
  <2> QED
    BY <2>1, EndKeeps
<1> QED
  BY <1>2, <1>3, <1>4, <1>5, <1>6, <1>7

LEMMA StartStep == ASSUME StartInv, [StartNext]_startVars PROVE StartInv'
<1>1. CASE UNCHANGED startVars
  <2>1. UNCHANGED <<prog, procs, pidFile, port, howEnded, lastPid>>
    BY <1>1 DEF startVars
  <2>2. Main' = Main /\ ThreadsOf' = ThreadsOf
    BY <2>1 DEF Main, ThreadsOf
  <2> QED
    BY <2>1, <2>2 DEF StartInv, StartOK, Numbered, AllPrepared, Prepared, PortHeld, FileOf, HasPidFile,
       PidFileTells, Runs
<1>2. CASE StartNext
  <2>1. PICK p \in Process :
           \/ \E a \in CommandLine, root \in BOOLEAN : Launch(p, a, root)
           \/ \E ok \in BOOLEAN :
                 \/ FindPath(p, ok) \/ MaximizeCores(p, ok) \/ RaiseFiles(p, ok) \/ DropRoot(p, ok)
                 \/ Daemonize(p, ok) \/ RemovePid(p, ok) \/ SetSource(p, ok) \/ InitBase(p, ok)
           \/ Options(p) \/ ForkFails(p) \/ StartLog(p) \/ Serve(p) \/ StopServer(p)
           \/ \E ok, closes \in BOOLEAN : SavePid(p, ok, closes)
           \/ StopLog(p) \/ Returns(p) \/ Kill(p)
    BY <1>2 DEF StartNext
  <2>2. TRUE \in BOOLEAN
    OBVIOUS
  <2> QED
    BY <2>1, <2>2, LaunchKeeps, PlainSteps, ThreadSteps, FileSteps
<1> QED
  BY <1>1, <1>2

\* A server that serves has everything its command line asked for, whoever else is
\* started, killed or fails to fork; and the pid file never names a process that ended
\* well and did not tell that it could not remove the file.
THEOREM ServersStartInOrder == StartSpec => []StartsInOrder
<1>1. StartSpec => []StartInv
  BY StartInitially, StartStep, PTL DEF StartSpec
<1>2. StartInv => StartsInOrder
  <2> SUFFICES ASSUME StartInv PROVE StartsInOrder
    OBVIOUS
  <2>1. ASSUME NEW p \in Process, Serves(p)
        PROVE  /\ ~procs[p].root /\ procs[p].files /\ procs[p].config /\ port = procs[p].pid
               /\ procs[p].asked.cores => procs[p].cores
               /\ procs[p].threads = ThreadsOf \cup (IF prog = "dbsrv" THEN {"log"} ELSE {})
    <3>1. /\ Runs(p) /\ Prepared(Main, procs[p]) /\ Ordered(Main) /\ procs[p].step \in Nat \ {0}
          /\ Reaches(Main, procs[p].step, "stop") /\ (Main = DBSrvMain <=> prog = "dbsrv")
      BY <2>1, PreparedOn DEF Serves
    <3>2. /\ \A s \in {"user", "files", "cores", "config", "serve"} : Done(Main, procs[p].step, s)
          /\ ~Done(Main, procs[p].step, "unlog") /\ ~Done(Main, procs[p].step, "stop")
          /\ Done(Main, procs[p].step, "log") <=> prog = "dbsrv"
      BY <3>1 DEF Ordered
    <3>3. port = procs[p].pid
      BY <3>1, <3>2 DEF StartInv, PortHeld
    <3> QED
      BY <3>1, <3>2, <3>3 DEF Prepared
  <2> QED
    BY <2>1 DEF StartInv, StartsInOrder, ServesAsAsked
<1> QED
  BY <1>1, <1>2, PTL

-----------------------------------------------------------------------------
(* What is still to be sent of a job                                        *)

StartTrans == Sql("START TRANSACTION")
Commit == Sql("COMMIT")
Rollback == Sql("ROLLBACK")
Both(j) == {Change(j, 1), Change(j, 2)}

Sql6(j) == <<StartTrans, StartTrans, Change(j, 1), Change(j, 2), Commit, Commit>>
Sql5(j) == <<StartTrans, Change(j, 1), Change(j, 2), Commit, Commit>>
Sql4(j) == <<Change(j, 1), Change(j, 2), Commit, Commit>>
Sql3(j) == <<Change(j, 2), Commit, Commit>>
Sql2 == <<Commit, Commit>>
Undo == <<Rollback, Commit>>
Sql1 == <<Commit>>

Shapes(j) ==
    IF j \in Trans THEN {Sql6(j), Sql5(j), Sql4(j), Sql3(j), Sql2, Undo, Sql1}
    ELSE {<<Change(j, 1)>>, <<Sql("SELECT")>>}

\* The changes of job j among those of Z.
Of(Z, j) == {s \in Z : s.job = j}

\* How far transaction j is, when its session is in a transaction or not, with the
\* changes that the session holds of it and the effects e, if nothing has cut it: only a
\* commit shows anything, and it comes after both changes, or after a rollback.
Stage(j, sql, inTrans, mine, e) ==
    \/ sql \in {Sql6(j), Sql5(j)} /\ mine = {} /\ e = {}
    \/ sql = Sql4(j) /\ inTrans /\ mine = {} /\ e = {}
    \/ sql = Sql3(j) /\ inTrans /\ mine = {Change(j, 1)} /\ e = {}
    \/ sql = Sql2 /\ mine = Both(j) /\ e = {}
    \/ sql = Undo /\ e = {}
    \/ sql = Sql1 /\ mine \in {{}, Both(j)} /\ e \in {{}, Both(j)}

LEMMA WordsDiffer ==
    /\ \A j, n : ~(Change(j, n).do \in {"START TRANSACTION", "COMMIT", "ROLLBACK", "SELECT"})
    /\ \A j, n : Change(j, n).do = "change" /\ Change(j, n).job = j /\ Change(j, n).no = n
    /\ StartTrans.do = "START TRANSACTION" /\ Commit.do = "COMMIT" /\ Rollback.do = "ROLLBACK"
    /\ Sql("SELECT").do = "SELECT"
BY DEF Change, Sql, StartTrans, Commit, Rollback

LEMMA OneList ==
    ASSUME NEW S, NEW s \in Seq(S), NEW t \in Seq(S), NEW u \in Seq(S),
           Len(u) = Len(s) + Len(t),
           \A i \in 1..Len(u) : u[i] = IF i <= Len(s) THEN s[i] ELSE t[i - Len(s)]
    PROVE  s \o t = u
<1> DEFINE v == s \o t
<1>1. v \in Seq(S) /\ Len(v) = Len(u)
  OBVIOUS
<1>2. \A i \in 1..Len(u) : v[i] = u[i]
  OBVIOUS
<1> HIDE DEF v
<1>3. v = u
  BY <1>1, <1>2
<1> QED
  BY <1>3 DEF v

LEMMA Around ==
    ASSUME NEW a, NEW b, NEW c, NEW d
    PROVE  /\ <<a>> \o <<b, c>> \o <<d>> = <<a, b, c, d>>
           /\ <<a>> \o <<a, b, c, d>> \o <<d>> = <<a, a, b, c, d, d>>
<1> DEFINE S == {a, b, c, d}
<1>1. <<a>> \in Seq(S) /\ <<d>> \in Seq(S) /\ <<b, c>> \in Seq(S)
  OBVIOUS
<1>2. <<a, b, c>> \in Seq(S) /\ <<a, b, c, d>> \in Seq(S)
  OBVIOUS
<1>3. <<a, a, b, c, d>> \in Seq(S) /\ <<a, a, b, c, d, d>> \in Seq(S)
  OBVIOUS
<1> HIDE DEF S
<1>4. <<a>> \o <<b, c>> = <<a, b, c>>
  <2> DEFINE s == <<a>>
             t == <<b, c>>
             u == <<a, b, c>>
  <2>1. s \in Seq(S) /\ t \in Seq(S) /\ u \in Seq(S)
    BY <1>1, <1>2, <1>3
  <2>2. Len(s) = 1 /\ Len(t) = 2 /\ Len(u) = 3
    OBVIOUS
  <2>3. \A i \in 1..Len(u) : i \in {1, 2, 3}
    BY <2>2
  <2>4. \A i \in {1, 2, 3} :
            u[i] = IF i <= 1 THEN s[i] ELSE t[i - 1]
    OBVIOUS
  <2> HIDE DEF s, t, u
  <2>5. \A i \in 1..Len(u) : u[i] = IF i <= Len(s) THEN s[i] ELSE t[i - Len(s)]
    BY <2>2, <2>3, <2>4
  <2>6. Len(u) = Len(s) + Len(t)
    BY <2>2
  <2>7. s \o t = u
    BY <2>1, <2>5, <2>6, OneList, Zenon
  <2> QED
    BY <2>7 DEF s, t, u
<1>5. <<a, b, c>> \o <<d>> = <<a, b, c, d>>
  <2> DEFINE s == <<a, b, c>>
             t == <<d>>
             u == <<a, b, c, d>>
  <2>1. s \in Seq(S) /\ t \in Seq(S) /\ u \in Seq(S)
    BY <1>1, <1>2, <1>3
  <2>2. Len(s) = 3 /\ Len(t) = 1 /\ Len(u) = 4
    OBVIOUS
  <2>3. \A i \in 1..Len(u) : i \in {1, 2, 3, 4}
    BY <2>2
  <2>4. \A i \in {1, 2, 3, 4} :
            u[i] = IF i <= 3 THEN s[i] ELSE t[i - 3]
    OBVIOUS
  <2> HIDE DEF s, t, u
  <2>5. \A i \in 1..Len(u) : u[i] = IF i <= Len(s) THEN s[i] ELSE t[i - Len(s)]
    BY <2>2, <2>3, <2>4
  <2>6. Len(u) = Len(s) + Len(t)
    BY <2>2
  <2>7. s \o t = u
    BY <2>1, <2>5, <2>6, OneList, Zenon
  <2> QED
    BY <2>7 DEF s, t, u
<1>6. <<a>> \o <<a, b, c, d>> = <<a, a, b, c, d>>
  <2> DEFINE s == <<a>>
             t == <<a, b, c, d>>
             u == <<a, a, b, c, d>>
  <2>1. s \in Seq(S) /\ t \in Seq(S) /\ u \in Seq(S)
    BY <1>1, <1>2, <1>3
  <2>2. Len(s) = 1 /\ Len(t) = 4 /\ Len(u) = 5
    OBVIOUS
  <2>3. \A i \in 1..Len(u) : i \in {1, 2, 3, 4, 5}
    BY <2>2
  <2>4. \A i \in {1, 2, 3, 4, 5} :
            u[i] = IF i <= 1 THEN s[i] ELSE t[i - 1]
    OBVIOUS
  <2> HIDE DEF s, t, u
  <2>5. \A i \in 1..Len(u) : u[i] = IF i <= Len(s) THEN s[i] ELSE t[i - Len(s)]
    BY <2>2, <2>3, <2>4
  <2>6. Len(u) = Len(s) + Len(t)
    BY <2>2
  <2>7. s \o t = u
    BY <2>1, <2>5, <2>6, OneList, Zenon
  <2> QED
    BY <2>7 DEF s, t, u
<1>7. <<a, a, b, c, d>> \o <<d>> = <<a, a, b, c, d, d>>
  <2> DEFINE s == <<a, a, b, c, d>>
             t == <<d>>
             u == <<a, a, b, c, d, d>>
  <2>1. s \in Seq(S) /\ t \in Seq(S) /\ u \in Seq(S)
    BY <1>1, <1>2, <1>3
  <2>2. Len(s) = 5 /\ Len(t) = 1 /\ Len(u) = 6
    OBVIOUS
  <2>3. \A i \in 1..Len(u) : i \in {1, 2, 3, 4, 5, 6}
    BY <2>2
  <2>4. \A i \in {1, 2, 3, 4, 5, 6} :
            u[i] = IF i <= 5 THEN s[i] ELSE t[i - 5]
    OBVIOUS
  <2> HIDE DEF s, t, u
  <2>5. \A i \in 1..Len(u) : u[i] = IF i <= Len(s) THEN s[i] ELSE t[i - Len(s)]
    BY <2>2, <2>3, <2>4
  <2>6. Len(u) = Len(s) + Len(t)
    BY <2>2
  <2>7. s \o t = u
    BY <2>1, <2>5, <2>6, OneList, Zenon
  <2> QED
    BY <2>7 DEF s, t, u
<1> QED
  BY <1>4, <1>5, <1>6, <1>7

LEMMA JobSql ==
    ASSUME NEW j
    PROVE  HandleDBMsg(j) \in Shapes(j) /\ (j \in Trans => HandleDBMsg(j) = Sql6(j))
<1>1. CASE j \in Trans
  <2>1. Statements(j) = <<Change(j, 1), Change(j, 2)>>
    BY <1>1 DEF Statements
  <2>2. ExecuteTransaction(j) = <<StartTrans, Change(j, 1), Change(j, 2), Commit>>
    <3>1. ExecuteTransaction(j) = <<StartTrans>> \o <<Change(j, 1), Change(j, 2)>> \o <<Commit>>
      BY <2>1 DEF ExecuteTransaction, StartTrans, Commit
    <3> QED
      BY <3>1, Around
  <2>3. HandleDBMsg(j) = <<StartTrans, StartTrans, Change(j, 1), Change(j, 2), Commit, Commit>>
    <3>1. HandleDBMsg(j) = <<StartTrans>> \o ExecuteTransaction(j) \o <<Commit>>
      BY <1>1 DEF HandleDBMsg, StartTrans, Commit
    <3>2. HandleDBMsg(j) = <<StartTrans>> \o <<StartTrans, Change(j, 1), Change(j, 2), Commit>> \o <<Commit>>
      BY <3>1, <2>2
    <3> QED
      BY <3>2, Around
  <2> QED
    BY <1>1, <2>3 DEF Shapes, Sql6
<1>2. CASE j \notin Trans
  BY <1>2 DEF HandleDBMsg, Statements, Shapes
<1> QED
  BY <1>1, <1>2

\* What a statement of a transaction does, and what is left after it.
LEMMA Sent ==
    ASSUME NEW j \in Trans, NEW sql \in Shapes(j)
    PROVE  /\ sql # <<>>
           /\ sql = Sql6(j) => Head(sql) = StartTrans /\ Tail(sql) = Sql5(j)
           /\ sql = Sql5(j) => Head(sql) = StartTrans /\ Tail(sql) = Sql4(j)
           /\ sql = Sql4(j) => Head(sql) = Change(j, 1) /\ Tail(sql) = Sql3(j)
           /\ sql = Sql3(j) => Head(sql) = Change(j, 2) /\ Tail(sql) = Sql2
           /\ sql = Sql2 => Head(sql) = Commit /\ Tail(sql) = Sql1
           /\ sql = Undo => Head(sql) = Rollback /\ Tail(sql) = Sql1
           /\ sql = Sql1 => Head(sql) = Commit /\ Tail(sql) = <<>>
           /\ Head(sql) \in {StartTrans, Commit, Rollback} \cup Both(j)
<1>1. CASE sql = Sql6(j)
  BY <1>1 DEF Sql6, Sql5, Sql4, Sql3, Sql2, Undo, Sql1
<1>2. CASE sql = Sql5(j)
  BY <1>2 DEF Sql6, Sql5, Sql4, Sql3, Sql2, Undo, Sql1
<1>3. CASE sql = Sql4(j)
  BY <1>3 DEF Sql6, Sql5, Sql4, Sql3, Sql2, Undo, Sql1, Both
<1>4. CASE sql = Sql3(j)
  BY <1>4 DEF Sql6, Sql5, Sql4, Sql3, Sql2, Undo, Sql1, Both
<1>5. CASE sql = Sql2
  BY <1>5 DEF Sql6, Sql5, Sql4, Sql3, Sql2, Undo, Sql1
<1>6. CASE sql = Undo
  BY <1>6 DEF Sql6, Sql5, Sql4, Sql3, Sql2, Undo, Sql1
<1>7. CASE sql = Sql1
  BY <1>7 DEF Sql6, Sql5, Sql4, Sql3, Sql2, Undo, Sql1
<1> QED
  BY <1>1, <1>2, <1>3, <1>4, <1>5, <1>6, <1>7 DEF Shapes

-----------------------------------------------------------------------------
(* The invariant                                                            *)

Thread == 0..(AsyncThreads - 1)
Stmt == [do : {"change"}, job : Job, no : {1, 2}]
Session == {x \in [inTrans : BOOLEAN, changes : SUBSET Stmt] : ~x.inTrans => x.changes = {}}
AllSql == {<<>>} \cup UNION {Shapes(j) : j \in Job}

DbOK ==
    /\ table \in SUBSET Stmt /\ session \in [Used -> Session]
    /\ mysql \in [Used -> {"open", "NULL"}]
    /\ work \in [Used -> [job : Job \cup {"none"}, sql : AllSql]]
    /\ pipe \in [Thread -> Seq(Trans \cup Bind)]
    /\ worker \in [Thread -> {"runs", "quit", "ended"}]
    /\ pool \in [nextAsync : Thread, nextSync : 0..(SyncConns - 1), closing : Int]
    /\ asked \in SUBSET Job /\ ended \in SUBSET asked

\* What is still to be sent is the rest of what the job consists of.
Shaped == \A c \in Used : Working(c) => work[c].sql \in Shapes(work[c].job)

\* A job is in one place: in one pipe, on one connection, or done.
Alone ==
    /\ \A c \in Used : Working(c) => work[c].job \in asked \ ended
    /\ \A c, d \in Used : Working(c) /\ work[c].job = work[d].job => c = d
Piped ==
    /\ \A t \in Thread : \A i \in 1..Len(pipe[t]) :
           pipe[t][i] \in asked \ ended /\ \A c \in Used : work[c].job # pipe[t][i]
    /\ \A t, u \in Thread : \A i \in 1..Len(pipe[t]), k \in 1..Len(pipe[u]) :
           pipe[t][i] = pipe[u][k] => t = u /\ i = k

\* Only a job that has been started has changed anything, for all or in a session; and
\* one that is under way on its own connection only.
Begun ==
    /\ \A s \in table : s.job \in ended \/ \E c \in Used : work[c].job = s.job
    /\ \A c \in Used : \A s \in session[c].changes : s.job \in ended \/ work[c].job = s.job

AllOrNothing ==
    \A j \in Trans \ (cut \cup slipped) :
        /\ j \in ended => /\ Effects(j) \in {{}, Both(j)}
                         /\ \A c \in Used : Of(session[c].changes, j) \in {{}, Both(j)}
        /\ \A c \in Used : work[c].job = j =>
               Stage(j, work[c].sql, session[c].inTrans, Of(session[c].changes, j), Effects(j))

DbInv == DbOK /\ Shaped /\ Alone /\ Piped /\ Begun /\ AllOrNothing

LEMMA NoneIsNoJob == "none" \notin Job
BY DatabaseAssumption DEF Job

LEMMA Turns == ASSUME NEW n \in Nat \ {0}, NEW k \in 0..(n - 1)
               PROVE  GetNext(k, n) \in 0..(n - 1)
BY DEF GetNext

LEMMA NewSessionOK == NewSession \in Session /\ NewSession.changes = {}
BY DEF NewSession, Session

LEMMA JobShapes ==
    ASSUME NEW j \in Job, NEW q \in Shapes(j)
    PROVE  q \in AllSql
BY DEF AllSql

LEMMA DbInit == DatabaseInit => DbInv
<1> SUFFICES ASSUME DatabaseInit PROVE DbInv
  OBVIOUS
<1> USE DEF DatabaseInit
<1>0. \A c \in Used : work[c].job = "none" /\ ~Working(c)
  BY DEF NoWork, Working
<1>1. DbOK
  <2>1. session \in [Used -> Session]
    BY NewSessionOK
  <2>2. NoWork \in [job : Job \cup {"none"}, sql : AllSql]
    BY DEF NoWork, AllSql
  <2>3. work \in [Used -> [job : Job \cup {"none"}, sql : AllSql]]
    BY <2>2
  <2>4. pool \in [nextAsync : Thread, nextSync : 0..(SyncConns - 1), closing : Int]
    BY DatabaseAssumption DEF Thread, NotClosing
  <2>5. pipe \in [Thread -> Seq(Trans \cup Bind)] /\ worker \in [Thread -> {"runs", "quit", "ended"}]
    BY DEF Thread
  <2> QED
    BY <2>1, <2>3, <2>4, <2>5 DEF DbOK
<1>2. Shaped
  BY <1>0 DEF Shaped
<1>3. Alone /\ Piped /\ Begun
  BY <1>0, NewSessionOK DEF Alone, Piped, Begun, Thread
<1>4. AllOrNothing
  BY <1>0, NoneIsNoJob DEF AllOrNothing, Job
<1> QED
  BY <1>1, <1>2, <1>3, <1>4 DEF DbInv

\* Of another job a session loses all, which may show then, or nothing.
KeepsOthers(j, old, new, told) ==
    /\ new \subseteq old \cup Both(j) /\ told \subseteq old \cup Both(j)
    /\ \A k : k # j => /\ Of(new, k) \in {{}, Of(old, k)}
                       /\ Of(told, k) \in {{}, Of(old, k)}

LEMMA BothAreMine == ASSUME NEW j, NEW s \in Both(j) PROVE s.job = j
<1>1. \A n : Change(j, n).job = j
  BY ZenonT(30), WordsDiffer
<1> QED
  BY <1>1 DEF Both

\* Something is sent, or refused, on the connection of a job: what the job did to its
\* session and to the table, and what it sends after that, decide whether the invariant
\* goes on.
LEMMA JobGoesOn ==
    ASSUME DbInv, NEW c \in Used, Working(c), NEW j, j = work[c].job,
           NEW x \in Session, NEW X \in SUBSET Stmt,
           NEW q, Carry(c, q), q = <<>> \/ q \in Shapes(j),
           table' = table \cup X, KeepsOthers(j, session[c].changes, x.changes, X),
           session' = [session EXCEPT ![c] = x],
           mysql' \in [Used -> {"open", "NULL"}],
           cut \subseteq cut', slipped \subseteq slipped',
           UNCHANGED <<pipe, worker, pool, asked>>,
           j \in Trans \ (cut' \cup slipped') =>
               IF q = <<>> THEN Effects(j)' \in {{}, Both(j)} /\ Of(x.changes, j) \in {{}, Both(j)}
               ELSE Stage(j, q, x.inTrans, Of(x.changes, j), Effects(j)')
    PROVE  DbInv'
<1>0. j = work[c].job
  OBVIOUS
<1>1. /\ DbOK /\ Shaped /\ Alone /\ Piped /\ Begun /\ AllOrNothing
  BY DEF DbInv
<1>2. j \in Job /\ j # "none" /\ work[c] \in [job : Job \cup {"none"}, sql : AllSql]
  BY <1>0, <1>1 DEF DbOK, Working
<1>3. j \in asked /\ j \notin ended
  BY <1>0, <1>1 DEF Alone
<1>4. \A d \in Used : d # c => work[d].job # j
  BY <1>0, <1>1 DEF Alone
<1>5. \A d \in Used : d # c => work'[d] = work[d] /\ session'[d] = session[d]
  BY <1>1 DEF DbOK, Carry
<1>6. session'[c] = x /\ session' \in [Used -> Session] /\ table' \in SUBSET Stmt
  BY <1>1 DEF DbOK
<1>7. /\ ended \subseteq ended' /\ ended' \subseteq ended \cup {j}
      /\ q = <<>> => j \in ended' /\ work'[c] = NoWork
      /\ q # <<>> => ended' = ended /\ work'[c].job = j /\ work'[c].sql = q
      /\ work'[c] \in [job : Job \cup {"none"}, sql : AllSql]
  <2>1. CASE q = <<>>
    <3>1. work' = [work EXCEPT ![c] = NoWork] /\ ended' = ended \cup {j}
      BY <2>1, <1>0 DEF Carry
    <3>2. NoWork \in [job : Job \cup {"none"}, sql : AllSql]
      BY DEF NoWork, AllSql
    <3> QED
      BY <2>1, <3>1, <3>2, <1>1 DEF DbOK
  <2>2. CASE q # <<>>
    <3>1. work' = [work EXCEPT ![c].sql = q] /\ ended' = ended
      BY <2>2 DEF Carry
    <3>2. q \in AllSql
      BY <2>2, <1>2, JobShapes
    <3> QED
      BY <2>2, <3>1, <3>2, <1>0, <1>1, <1>2 DEF DbOK
  <2> QED
    BY <2>1, <2>2
<1>8. work' \in [Used -> [job : Job \cup {"none"}, sql : AllSql]]
  <2>1. work' = [d \in Used |-> work'[d]]
    BY <1>1 DEF DbOK, Carry
  <2>2. \A d \in Used : work'[d] \in [job : Job \cup {"none"}, sql : AllSql]
    BY <1>1, <1>5, <1>7 DEF DbOK
  <2> QED
    BY <2>1, <2>2
<1>9. work'[c].job \in {j, "none"} /\ (work'[c].job = "none" <=> q = <<>>)
  BY <1>2, <1>7 DEF NoWork
<1>10. /\ \A d \in Used : Working(d)' => Working(d) /\ work'[d].job = work[d].job
       /\ \A d \in Used : work'[d].job # "none" => work'[d].job = work[d].job
  BY <1>0, <1>5, <1>9 DEF Working
<1>11. DbOK'
  <2>1. ended' \in SUBSET asked'
    BY <1>1, <1>3, <1>7 DEF DbOK
  <2> QED
    BY <2>1, <1>1, <1>6, <1>8 DEF DbOK
<1>12. Shaped'
  BY <1>1, <1>5, <1>7, <1>9, <1>10 DEF Shaped, Working
<1>13. Alone'
  <2>1. ASSUME NEW d \in Used, Working(d)' PROVE work'[d].job \in asked' \ ended'
    <3>1. CASE d = c
      BY <3>1, <2>1, <1>3, <1>7, <1>9 DEF Working
    <3>2. CASE d # c
      BY <3>2, <2>1, <1>1, <1>4, <1>5, <1>7, <1>10 DEF Alone
    <3> QED
      BY <3>1, <3>2
  <2>2. ASSUME NEW d \in Used, NEW e \in Used, Working(d)', work'[d].job = work'[e].job PROVE d = e
    BY <2>2, <1>1, <1>10 DEF Alone, Working
  <2> QED
    BY <2>1, <2>2 DEF Alone
<1>14. Piped'
  <2>1. ASSUME NEW t \in Thread, NEW i \in 1..Len(pipe[t])
        PROVE  pipe[t][i] \in asked' \ ended' /\ \A d \in Used : work'[d].job # pipe[t][i]
    <3>1. pipe[t][i] \in asked \ ended /\ pipe[t][i] # j /\ \A d \in Used : work[d].job # pipe[t][i]
      BY <1>0, <1>1 DEF Piped
    <3>2. pipe[t][i] # "none"
      BY <3>1, <1>1, NoneIsNoJob DEF DbOK
    <3> QED
      BY <3>1, <3>2, <1>7, <1>10
  <2> QED
    BY <2>1, <1>1 DEF Piped
<1>15. j \in ended' \/ work'[c].job = j
  BY <1>7
<1>16. Begun'
  <2>1. \A s \in session[c].changes : s.job \in ended' \/ work'[c].job = s.job
    BY <1>0, <1>1, <1>7, <1>15 DEF Begun
  <2>2. \A s \in Both(j) : s.job = j
    BY BothAreMine
  <2>3. \A s \in X \cup x.changes : s.job \in ended' \/ work'[c].job = s.job
    BY <2>1, <2>2, <1>15 DEF KeepsOthers
  <2>4. \A s \in table : s.job \in ended' \/ \E d \in Used : work'[d].job = s.job
    BY <1>0, <1>1, <1>5, <1>7, <1>15 DEF Begun
  <2>5. \A d \in Used : \A s \in session'[d].changes : s.job \in ended' \/ work'[d].job = s.job
    BY <2>3, <1>1, <1>5, <1>6, <1>7 DEF Begun
  <2> QED
    BY <2>3, <2>4, <2>5 DEF Begun
<1>17. \A d \in Used : d # c => Of(session[d].changes, j) = {}
  BY <1>1, <1>3, <1>4 DEF Begun, Of
<1>18. ASSUME NEW k \in Trans \ (cut' \cup slipped')
       PROVE  /\ k \in ended' => /\ Effects(k)' \in {{}, Both(k)}
                                 /\ \A d \in Used : Of(session'[d].changes, k) \in {{}, Both(k)}
              /\ \A d \in Used : work'[d].job = k =>
                    Stage(k, work'[d].sql, session'[d].inTrans, Of(session'[d].changes, k), Effects(k)')
  <2>0. k # "none" /\ k \in Trans \ (cut \cup slipped)
    BY NoneIsNoJob DEF Job
  <2>1. CASE k = j
    <3>1. CASE q = <<>>
      <4>1. Effects(k)' \in {{}, Both(k)} /\ Of(x.changes, k) \in {{}, Both(k)}
        BY <2>1, <3>1, <1>18
      <4>2. \A d \in Used : Of(session'[d].changes, k) \in {{}, Both(k)}
        BY <2>1, <4>1, <1>5, <1>6, <1>17
      <4>3. \A d \in Used : work'[d].job # k
        BY <2>0, <2>1, <3>1, <1>4, <1>5, <1>9
      <4> QED
        BY <4>1, <4>2, <4>3
    <3>2. CASE q # <<>>
      <4>1. k \notin ended'
        BY <2>1, <3>2, <1>3, <1>7
      <4>2. \A d \in Used : work'[d].job = k => d = c
        BY <2>1, <1>4, <1>5
      <4>3. Stage(k, q, x.inTrans, Of(x.changes, k), Effects(k)')
        BY <2>1, <3>2, <1>18
      <4> QED
        BY <3>2, <4>1, <4>2, <4>3, <1>6, <1>7
    <3> QED
      BY <3>1, <3>2
  <2>2. CASE k # j
    <3>1. Effects(k)' = Effects(k) \cup Of(X, k)
      BY DEF Effects, Of
    <3>2. Of(X, k) \in {{}, Of(session[c].changes, k)} /\ Of(x.changes, k) \in {{}, Of(session[c].changes, k)}
      BY <2>2 DEF KeepsOthers
    <3>3. CASE k \in ended'
      <4>1. k \in ended
        BY <2>2, <3>3, <1>7
      <4>2. /\ Effects(k) \in {{}, Both(k)}
            /\ \A d \in Used : Of(session[d].changes, k) \in {{}, Both(k)}
        BY <2>0, <4>1, <1>1 DEF AllOrNothing
      <4>3. Effects(k)' \in {{}, Both(k)}
        BY <3>1, <3>2, <4>2
      <4>4. \A d \in Used : Of(session'[d].changes, k) \in {{}, Both(k)}
        BY <3>2, <4>2, <1>5, <1>6
      <4>5. \A d \in Used : work'[d].job # k
        BY <2>0, <3>3, <1>13 DEF Alone, Working
      <4> QED
        BY <4>3, <4>4, <4>5
    <3>4. ASSUME NEW d \in Used, work'[d].job = k, k \notin ended'
          PROVE  Stage(k, work'[d].sql, session'[d].inTrans, Of(session'[d].changes, k), Effects(k)')
      <4>1. d # c
        BY <2>0, <2>2, <3>4, <1>9
      <4>2. work[d].job = k /\ k \notin ended /\ work'[d] = work[d] /\ session'[d] = session[d]
        BY <3>4, <4>1, <1>5, <1>7
      <4>3. Of(session[c].changes, k) = {}
        BY <2>2, <4>2, <1>0, <1>1 DEF Begun, Of
      <4>4. Effects(k)' = Effects(k)
        BY <3>1, <3>2, <4>3
      <4> QED
        BY <2>0, <4>2, <4>4, <1>1 DEF AllOrNothing
    <3> QED
      BY <3>3, <3>4, <1>13 DEF Alone, Working
  <2> QED
    BY <2>1, <2>2
<1> QED
  BY <1>11, <1>12, <1>13, <1>14, <1>16, <1>18 DEF DbInv, AllOrNothing

Words(j) == {StartTrans, Commit, Rollback, Sql("SELECT")} \cup Both(j)

LEMMA LastWord == \A a : Head(<<a>>) = a /\ Tail(<<a>>) = <<>> /\ <<a>> # <<>>
OBVIOUS

LEMMA WordOf ==
    ASSUME NEW j \in Job, NEW q \in Shapes(j)
    PROVE  /\ q # <<>> /\ Head(q) \in Words(j)
           /\ Tail(q) = <<>> \/ Tail(q) \in Shapes(j)
           /\ AfterFailure(j, q) = <<>> \/ AfterFailure(j, q) \in Shapes(j)
           /\ j \notin Trans => Tail(q) = <<>> /\ Head(q) \in {Sql("SELECT"), Change(j, 1)}
           /\ j \in Trans /\ Tail(q) = <<>> => q = Sql1
<1>1. CASE j \in Trans
  <2>1. Tail(q) = <<>> \/ Tail(q) \in Shapes(j)
    BY <1>1, Sent DEF Shapes
  <2>2. q # <<>> /\ Head(q) \in Words(j)
    BY <1>1, Sent DEF Words
  <2>3. AfterFailure(j, q) \in {Undo, Tail(q)} /\ Undo \in Shapes(j)
    BY <1>1 DEF AfterFailure, Undo, Rollback, Commit, Shapes
  <2>4. <<>> \notin {Sql6(j), Sql5(j), Sql4(j), Sql3(j), Sql2, Undo, Sql1}
    BY DEF Sql6, Sql5, Sql4, Sql3, Sql2, Undo, Sql1
  <2>5. Tail(q) = <<>> => q = Sql1
    BY <1>1, <2>4, Sent DEF Shapes
  <2> QED
    BY <1>1, <2>1, <2>2, <2>3, <2>5
<1>2. CASE j \notin Trans
  <2>1. q \in {<<Change(j, 1)>>, <<Sql("SELECT")>>}
    BY <1>2 DEF Shapes
  <2>2. q # <<>> /\ Head(q) \in {Sql("SELECT"), Change(j, 1)} /\ Tail(q) = <<>>
    BY <2>1, LastWord
  <2>3. AfterFailure(j, q) = <<>>
    BY <1>2, <2>2 DEF AfterFailure
  <2> QED
    BY <1>2, <2>2, <2>3 DEF Words, Both
<1> QED
  BY <1>1, <1>2

LEMMA ChangeOK == ASSUME NEW j \in Job PROVE Both(j) \subseteq Stmt
BY DEF Both, Change, Stmt

\* What the server makes of each of them.
LEMMA Served ==
    ASSUME NEW j, NEW x
    PROVE  /\ SessionAfter(x, StartTrans) = [inTrans |-> TRUE, changes |-> {}]
           /\ SessionAfter(x, Commit) = NewSession /\ SessionAfter(x, Rollback) = NewSession
           /\ SessionAfter(x, Sql("SELECT")) = x
           /\ Committed(x, StartTrans) = x.changes /\ Committed(x, Commit) = x.changes
           /\ Committed(x, Rollback) = {} /\ Committed(x, Sql("SELECT")) = {}
           /\ \A n : SessionAfter(x, Change(j, n)) =
                         IF x.inTrans THEN [x EXCEPT !.changes = @ \cup {Change(j, n)}] ELSE x
           /\ \A n : Committed(x, Change(j, n)) = IF x.inTrans THEN {} ELSE {Change(j, n)}
<1>1. /\ SessionAfter(x, StartTrans) = [inTrans |-> TRUE, changes |-> {}]
      /\ SessionAfter(x, Commit) = NewSession /\ SessionAfter(x, Rollback) = NewSession
      /\ SessionAfter(x, Sql("SELECT")) = x
  BY WordsDiffer DEF SessionAfter
<1>2. /\ Committed(x, StartTrans) = x.changes /\ Committed(x, Commit) = x.changes
      /\ Committed(x, Rollback) = {} /\ Committed(x, Sql("SELECT")) = {}
  BY WordsDiffer DEF Committed
<1>3. ASSUME NEW n
      PROVE  /\ SessionAfter(x, Change(j, n)) =
                    IF x.inTrans THEN [x EXCEPT !.changes = @ \cup {Change(j, n)}] ELSE x
             /\ Committed(x, Change(j, n)) = IF x.inTrans THEN {} ELSE {Change(j, n)}
  <2> DEFINE s == Change(j, n)
  <2>1. s.do # "START TRANSACTION" /\ s.do # "COMMIT" /\ s.do # "ROLLBACK" /\ s.do # "SELECT"
    BY WordsDiffer
  <2> HIDE DEF s
  <2>2. /\ SessionAfter(x, s) = IF x.inTrans THEN [x EXCEPT !.changes = @ \cup {s}] ELSE x
        /\ Committed(x, s) = IF x.inTrans THEN {} ELSE {s}
    BY <2>1 DEF SessionAfter, Committed
  <2> QED
    BY <2>2 DEF s
<1> QED
  BY <1>1, <1>2, <1>3

LEMMA ChangeServed ==
    ASSUME NEW j, NEW x, NEW n
    PROVE  /\ SessionAfter(x, Change(j, n)) =
                  IF x.inTrans THEN [x EXCEPT !.changes = @ \cup {Change(j, n)}] ELSE x
           /\ Committed(x, Change(j, n)) = IF x.inTrans THEN {} ELSE {Change(j, n)}
<1>1. \A k : SessionAfter(x, Change(j, k)) =
               IF x.inTrans THEN [x EXCEPT !.changes = @ \cup {Change(j, k)}] ELSE x
  BY ZenonT(30), Served
<1>2. \A k : Committed(x, Change(j, k)) = IF x.inTrans THEN {} ELSE {Change(j, k)}
  BY ZenonT(30), Served
<1> QED
  BY ZenonT(30), <1>1, <1>2

LEMMA ChangeInTrans ==
    ASSUME NEW j, NEW x, NEW n, x.inTrans
    PROVE  /\ SessionAfter(x, Change(j, n)) = [x EXCEPT !.changes = @ \cup {Change(j, n)}]
           /\ Committed(x, Change(j, n)) = {}
<1>1. /\ SessionAfter(x, Change(j, n)) =
            IF x.inTrans THEN [x EXCEPT !.changes = @ \cup {Change(j, n)}] ELSE x
      /\ Committed(x, Change(j, n)) = IF x.inTrans THEN {} ELSE {Change(j, n)}
  BY ZenonT(30), ChangeServed
<1> QED
  BY <1>1

LEMMA OneMore ==
    ASSUME NEW x \in Session, NEW r
    PROVE  /\ [x EXCEPT !.changes = @ \cup {r}]
                  = [inTrans |-> x.inTrans, changes |-> x.changes \cup {r}]
           /\ x.changes \subseteq Stmt /\ x.inTrans \in BOOLEAN /\ (~x.inTrans => x.changes = {})
BY DEF Session

LEMMA OfChanges ==
    ASSUME NEW j
    PROVE  /\ Of({}, j) = {}
           /\ \A Y, Z : Of(Y \cup Z, j) = Of(Y, j) \cup Of(Z, j)
           /\ \A n : Of({Change(j, n)}, j) = {Change(j, n)}
           /\ \A Z, k : Z \subseteq Both(j) /\ k # j => Of(Z, k) = {}
<1>1. \A n : Change(j, n).job = j
  BY ZenonT(30), WordsDiffer
<1>2. \A n : Of({Change(j, n)}, j) = {Change(j, n)}
  BY <1>1 DEF Of
<1>3. \A r \in Both(j) : r.job = j
  BY <1>1 DEF Both
<1> QED
  BY <1>2, <1>3 DEF Of

LEMMA OfUnion == \A j, Y, Z : Of(Y \cup Z, j) = Of(Y, j) \cup Of(Z, j)
BY DEF Of

LEMMA ServedOK ==
    ASSUME NEW j \in Job, NEW x \in Session, NEW s \in Words(j)
    PROVE  /\ SessionAfter(x, s) \in Session /\ Committed(x, s) \in SUBSET Stmt
           /\ KeepsOthers(j, x.changes, SessionAfter(x, s).changes, Committed(x, s))
<1>1. [inTrans |-> TRUE, changes |-> {}] \in Session /\ x.changes \subseteq Stmt
  BY DEF Session
<1>2. CASE s \in {StartTrans, Commit, Rollback, Sql("SELECT")}
  <2>1. SessionAfter(x, s) \in {[inTrans |-> TRUE, changes |-> {}], NewSession, x}
    BY <1>2, Served
  <2>2. Committed(x, s) \in {x.changes, {}}
    BY <1>2, Served
  <2>3. SessionAfter(x, s) \in Session
    BY <2>1, <1>1, NewSessionOK
  <2>4. SessionAfter(x, s).changes \in {x.changes, {}}
    BY <2>1, NewSessionOK
  <2>5. Committed(x, s) \in SUBSET Stmt
    BY <2>2, <1>1
  <2>6. \A k : Of({}, k) = {}
    BY OfChanges
  <2> HIDE DEF Of
  <2> QED
    BY <2>2, <2>3, <2>4, <2>5, <2>6 DEF KeepsOthers
<1>3. CASE s \in Both(j)
  <2>1. PICK n : s = Change(j, n)
    BY <1>3 DEF Both
  <2>2. SessionAfter(x, s) = IF x.inTrans THEN [x EXCEPT !.changes = @ \cup {s}] ELSE x
    BY ZenonT(30), <2>1, ChangeServed
  <2>3. Committed(x, s) = IF x.inTrans THEN {} ELSE {s}
    BY ZenonT(30), <2>1, ChangeServed
  <2>4. s \in Stmt
    BY <1>3, ChangeOK
  <2>5. [x EXCEPT !.changes = @ \cup {s}] = [inTrans |-> x.inTrans, changes |-> x.changes \cup {s}]
    BY OneMore
  <2>6. /\ SessionAfter(x, s).changes = IF x.inTrans THEN x.changes \cup {s} ELSE x.changes
        /\ SessionAfter(x, s) \in Session
    BY <2>2, <2>4, <2>5, <1>1 DEF Session
  <2>7. ASSUME NEW k, k # j PROVE Of({s}, k) = {} /\ Of({}, k) = {} /\ Of(x.changes \cup {s}, k) = Of(x.changes, k)
    <3>1. Of({s}, k) = {}
      BY <2>7, <1>3, OfChanges
    <3>2. Of(x.changes \cup {s}, k) = Of(x.changes, k) \cup Of({s}, k) /\ Of({}, k) = {}
      BY OfChanges
    <3> QED
      BY <3>1, <3>2
  <2>8. KeepsOthers(j, x.changes, SessionAfter(x, s).changes, Committed(x, s))
    <3>1. SessionAfter(x, s).changes \in {x.changes, x.changes \cup {s}} /\ Committed(x, s) \in {{}, {s}}
      BY <2>3, <2>6
    <3>2. PICK y, X : y = SessionAfter(x, s).changes /\ X = Committed(x, s)
      OBVIOUS
    <3>3. KeepsOthers(j, x.changes, y, X)
      BY <1>3, <2>7, <3>1, <3>2 DEF KeepsOthers
    <3> QED
      BY <3>2, <3>3
  <2> QED
    BY <2>3, <2>4, <2>6, <2>8
<1> QED
  BY <1>2, <1>3 DEF Words

\* A statement that is executed takes a transaction one stage further.
LEMMA NextStage ==
    ASSUME NEW j \in Trans, NEW q \in Shapes(j), NEW x \in Session, NEW e,
           Stage(j, q, x.inTrans, Of(x.changes, j), e),
           NEW y, y = SessionAfter(x, Head(q)), NEW X, X = Committed(x, Head(q))
    PROVE  IF Tail(q) = <<>> THEN e \cup Of(X, j) \in {{}, Both(j)} /\ Of(y.changes, j) \in {{}, Both(j)}
           ELSE Stage(j, Tail(q), y.inTrans, Of(y.changes, j), e \cup Of(X, j))
<1>1. /\ Tail(q) = <<>> <=> q = Sql1
      /\ <<>> \notin {Sql5(j), Sql4(j), Sql3(j), Sql2, Sql1}
  <2>1. Tail(q) = <<>> => q = Sql1
    BY WordOf DEF Job
  <2>2. q = Sql1 => Tail(q) = <<>>
    BY Sent
  <2> QED
    BY <2>1, <2>2 DEF Sql5, Sql4, Sql3, Sql2, Sql1
<1>2. Of({}, j) = {} /\ NewSession.changes = {}
  BY OfChanges, NewSessionOK
<1>3. CASE q \in {Sql6(j), Sql5(j)} /\ Of(x.changes, j) = {} /\ e = {}
  <2>1. Head(q) = StartTrans /\ Tail(q) \in {Sql5(j), Sql4(j)}
    BY <1>3, Sent
  <2>2. y = [inTrans |-> TRUE, changes |-> {}] /\ X = x.changes
    BY <2>1, Served
  <2>3. y.inTrans /\ Of(y.changes, j) = {} /\ e \cup Of(X, j) = {}
    BY <2>2, <1>2, <1>3
  <2> QED
    BY <2>1, <2>3, <1>1 DEF Stage
<1>4. CASE q = Sql4(j) /\ x.inTrans /\ Of(x.changes, j) = {} /\ e = {}
  <2>1. Head(q) = Change(j, 1) /\ Tail(q) = Sql3(j)
    BY <1>4, Sent
  <2>2. x.inTrans
    BY <1>4
  <2>3. y = [x EXCEPT !.changes = @ \cup {Change(j, 1)}] /\ X = {}
    BY ZenonT(30), <2>1, <2>2, ChangeInTrans
  <2>4. y.inTrans = x.inTrans /\ y.changes = x.changes \cup {Change(j, 1)}
    BY <2>3, OneMore
  <2>5. Of(y.changes, j) = {Change(j, 1)}
    <3>1. Of(x.changes \cup {Change(j, 1)}, j) = Of(x.changes, j) \cup Of({Change(j, 1)}, j)
      BY OfUnion
    <3>2. Of({Change(j, 1)}, j) = {Change(j, 1)}
      BY ZenonT(30), OfChanges
    <3>3. Of(x.changes, j) = {}
      BY <1>4
    <3>4. Of(y.changes, j) = Of(x.changes, j) \cup {Change(j, 1)}
      BY <2>4, <3>1, <3>2
    <3> HIDE DEF Of
    <3> QED
      BY <3>3, <3>4
  <2>6. y.inTrans /\ e \cup Of(X, j) = {}
    BY <2>3, <2>4, <1>2, <1>4
  <2> QED
    BY <2>1, <2>5, <2>6, <1>1 DEF Stage
<1>5. CASE q = Sql3(j) /\ x.inTrans /\ Of(x.changes, j) = {Change(j, 1)} /\ e = {}
  <2>1. Head(q) = Change(j, 2) /\ Tail(q) = Sql2
    BY <1>5, Sent
  <2>2. x.inTrans
    BY <1>5
  <2>3. y = [x EXCEPT !.changes = @ \cup {Change(j, 2)}] /\ X = {}
    BY ZenonT(30), <2>1, <2>2, ChangeInTrans
  <2>4. y.inTrans = x.inTrans /\ y.changes = x.changes \cup {Change(j, 2)}
    BY <2>3, OneMore
  <2>5. Of(y.changes, j) = {Change(j, 1)} \cup {Change(j, 2)}
    <3>1. Of(x.changes \cup {Change(j, 2)}, j) = Of(x.changes, j) \cup Of({Change(j, 2)}, j)
      BY OfUnion
    <3>2. Of({Change(j, 2)}, j) = {Change(j, 2)}
      BY ZenonT(30), OfChanges
    <3>3. Of(x.changes, j) = {Change(j, 1)}
      BY <1>5
    <3>4. Of(y.changes, j) = Of(x.changes, j) \cup {Change(j, 2)}
      BY <2>4, <3>1, <3>2
    <3> HIDE DEF Of
    <3> QED
      BY <3>3, <3>4
  <2>6. Of(y.changes, j) = Both(j) /\ e \cup Of(X, j) = {}
    BY <2>3, <2>5, <1>2, <1>5 DEF Both
  <2> QED
    BY <2>1, <2>6, <1>1 DEF Stage
<1>6. CASE q = Sql2 /\ Of(x.changes, j) = Both(j) /\ e = {}
  <2>1. Head(q) = Commit /\ Tail(q) = Sql1
    BY <1>6, Sent
  <2>2. y = NewSession /\ X = x.changes
    BY <2>1, Served
  <2>3. e \cup Of(X, j) = Both(j) /\ Of(y.changes, j) = {}
    BY <2>2, <1>2, <1>6
  <2> QED
    BY <2>1, <2>3, <1>1 DEF Stage
<1>7. CASE q = Undo /\ e = {}
  <2>1. Head(q) = Rollback /\ Tail(q) = Sql1
    BY <1>7, Sent
  <2>2. y = NewSession /\ X = {}
    BY <2>1, Served
  <2>3. e \cup Of(X, j) = {} /\ Of(y.changes, j) = {}
    BY <2>2, <1>2, <1>7
  <2> QED
    BY <2>1, <2>3, <1>1 DEF Stage
<1>8. CASE q = Sql1 /\ Of(x.changes, j) \in {{}, Both(j)} /\ e \in {{}, Both(j)}
  <2>1. Head(q) = Commit /\ Tail(q) = <<>>
    BY <1>8, Sent
  <2>2. y = NewSession /\ X = x.changes
    BY <2>1, Served
  <2>3. e \cup Of(X, j) \in {{}, Both(j)} /\ Of(y.changes, j) = {}
    BY <2>2, <1>2, <1>8
  <2> QED
    BY <2>1, <2>3
<1> QED
  BY <1>3, <1>4, <1>5, <1>6, <1>7, <1>8 DEF Stage

\* What the invariant says of a connection at work.
LEMMA AtWork ==
    ASSUME DbInv, NEW c \in Used, Working(c), NEW j, j = work[c].job
    PROVE  /\ j \in Job /\ j \in asked \ ended /\ work[c].sql \in Shapes(j)
           /\ session[c] \in Session
           /\ j \in Trans \ (cut \cup slipped) =>
                 Stage(j, work[c].sql, session[c].inTrans, Of(session[c].changes, j), Effects(j))
<1>1. DbOK /\ Shaped /\ Alone /\ AllOrNothing
  BY DEF DbInv
<1>2. j \in Job /\ session[c] \in Session
  BY <1>1 DEF DbOK, Working
<1>3. work[c].sql \in Shapes(j) /\ j \in asked \ ended
  BY <1>1 DEF Shaped, Alone
<1>4. j \in Trans \ (cut \cup slipped) =>
         Stage(j, work[c].sql, session[c].inTrans, Of(session[c].changes, j), Effects(j))
  BY <1>1 DEF AllOrNothing
<1> QED
  BY <1>2, <1>3, <1>4

LEMMA EffectsGrow ==
    ASSUME NEW j, NEW X, table' = table \cup X
    PROVE  Effects(j)' = Effects(j) \cup Of(X, j)
BY DEF Effects, Of

\* A session that loses all of it.
LEMMA AllIsLost == ASSUME NEW j, NEW old PROVE KeepsOthers(j, old, {}, {}) /\ KeepsOthers(j, old, old, {})
<1>1. \A k : Of({}, k) = {}
  BY OfChanges
<1> QED
  BY <1>1 DEF KeepsOthers

LEMMA OkStep == ASSUME DbInv, NEW c \in Used, ExecuteOk(c) PROVE DbInv'
<1> USE DEF ExecuteOk, Executed
<1>0. PICK j : j = work[c].job
  OBVIOUS
<1>1. PICK q : q = work[c].sql
  OBVIOUS
<1>2. PICK x : x = session[c]
  OBVIOUS
<1>3. /\ j \in Job /\ q \in Shapes(j) /\ x \in Session
      /\ j \in Trans \ (cut \cup slipped) => Stage(j, q, x.inTrans, Of(x.changes, j), Effects(j))
  BY <1>0, <1>1, <1>2, AtWork
<1>4. PICK y : y = SessionAfter(x, Head(q))
  OBVIOUS
<1>5. PICK X : X = Committed(x, Head(q))
  OBVIOUS
<1>6. Head(q) \in Words(j) /\ (Tail(q) = <<>> \/ Tail(q) \in Shapes(j))
  BY <1>3, WordOf
<1>7. y \in Session /\ X \in SUBSET Stmt /\ KeepsOthers(j, session[c].changes, y.changes, X)
  BY <1>2, <1>3, <1>4, <1>5, <1>6, ServedOK
<1>8. table' = table \cup X /\ session' = [session EXCEPT ![c] = y] /\ Carry(c, Tail(q))
  BY <1>1, <1>2, <1>4, <1>5
<1>10. Effects(j)' = Effects(j) \cup Of(X, j)
  BY <1>8, EffectsGrow
<1>11. ASSUME j \in Trans \ (cut \cup slipped)
       PROVE  IF Tail(q) = <<>> THEN Effects(j)' \in {{}, Both(j)} /\ Of(y.changes, j) \in {{}, Both(j)}
              ELSE Stage(j, Tail(q), y.inTrans, Of(y.changes, j), Effects(j)')
  <2>1. PICK e : e = Effects(j)
    OBVIOUS
  <2>2. j \in Trans /\ Stage(j, q, x.inTrans, Of(x.changes, j), e)
    BY <2>1, <1>3, <1>11
  <2>3. IF Tail(q) = <<>> THEN e \cup Of(X, j) \in {{}, Both(j)} /\ Of(y.changes, j) \in {{}, Both(j)}
        ELSE Stage(j, Tail(q), y.inTrans, Of(y.changes, j), e \cup Of(X, j))
    BY ONLY <2>2, <1>3, <1>4, <1>5, NextStage
  <2>4. Effects(j)' = e \cup Of(X, j)
    BY <2>1, <1>10
  <2> QED
    BY <2>3, <2>4
<1>12. mysql' \in [Used -> {"open", "NULL"}] /\ Working(c)
  BY DEF DbInv, DbOK
<1>13. cut' = cut /\ slipped' = slipped /\ UNCHANGED <<pipe, worker, pool, asked>>
  OBVIOUS
<1> QED
  BY <1>0, <1>6, <1>7, <1>8, <1>11, <1>12, <1>13, JobGoesOn

\* A statement that is refused: before the changes there must be a transaction around
\* them all the same, and after them a rollback or a commit is still to come.
LEMMA RefusedStage ==
    ASSUME NEW j \in Trans, NEW q \in Shapes(j), NEW x \in Session, NEW e,
           Stage(j, q, x.inTrans, Of(x.changes, j), e),
           NEW y \in {x, NewSession}, ~Slips(q, y), NEW p, p = AfterFailure(j, q)
    PROVE  IF p = <<>> THEN e \in {{}, Both(j)} /\ Of(y.changes, j) \in {{}, Both(j)}
           ELSE Stage(j, p, y.inTrans, Of(y.changes, j), e)
<1>1. /\ Of({}, j) = {} /\ NewSession.changes = {} /\ (~y.inTrans => y.changes = {})
      /\ y.changes = x.changes \/ y.changes = {}
  BY OfChanges, NewSessionOK, OneMore
<1>2. \A k : Changes(Change(j, k))
  BY ZenonT(30), WordsDiffer DEF Changes
<1>3. ~Changes(StartTrans) /\ ~Changes(Commit) /\ ~Changes(Rollback)
  BY WordsDiffer DEF Changes
<1>4. /\ Changes(Head(q)) => p = Undo
      /\ ~Changes(Head(q)) => p = Tail(q)
  BY DEF AfterFailure, Undo, Rollback, Commit
<1>5. <<>> \notin {Sql5(j), Sql4(j), Sql3(j), Sql2, Sql1, Undo}
  BY DEF Sql5, Sql4, Sql3, Sql2, Sql1, Undo
<1>6. CASE q = Sql6(j) /\ Of(x.changes, j) = {} /\ e = {}
  <2>1. p = Sql5(j)
    BY <1>3, <1>4, <1>6, Sent
  <2> QED
    BY <2>1, <1>1, <1>5, <1>6 DEF Stage
<1>7. CASE q = Sql5(j) /\ Of(x.changes, j) = {} /\ e = {}
  <2>1. p = Sql4(j) /\ Head(q) = StartTrans
    BY <1>3, <1>4, <1>7, Sent
  <2>2. q[2] = Change(j, 1)
    BY <1>7 DEF Sql5
  <2>3. y.inTrans
    BY <1>2, <2>1, <2>2 DEF Slips, StartTrans
  <2> QED
    BY <2>1, <2>3, <1>1, <1>5, <1>7 DEF Stage
<1>8. CASE q \in {Sql4(j), Sql3(j)} /\ e = {}
  <2>1. p = Undo
    BY <1>2, <1>4, <1>8, Sent
  <2> QED
    BY <2>1, <1>5, <1>8 DEF Stage
<1>9. CASE q = Sql2 /\ Of(x.changes, j) = Both(j) /\ e = {}
  <2>1. p = Sql1
    BY <1>3, <1>4, <1>9, Sent
  <2> QED
    BY <2>1, <1>1, <1>5, <1>9 DEF Stage
<1>10. CASE q = Undo /\ e = {}
  <2>1. p = Sql1 /\ Head(q) = Rollback
    BY <1>3, <1>4, <1>10, Sent
  <2>2. ~y.inTrans
    BY <2>1 DEF Slips, Rollback
  <2> QED
    BY <2>1, <2>2, <1>1, <1>5, <1>10 DEF Stage
<1>11. CASE q = Sql1 /\ Of(x.changes, j) \in {{}, Both(j)} /\ e \in {{}, Both(j)}
  <2>1. p = <<>>
    BY <1>3, <1>4, <1>11, Sent
  <2> QED
    BY <2>1, <1>1, <1>11
<1> QED
  BY <1>6, <1>7, <1>8, <1>9, <1>10, <1>11 DEF Stage

LEMMA RefusedStep == ASSUME DbInv, NEW c \in Used, ExecuteRefused(c) PROVE DbInv'
<1> USE DEF ExecuteRefused
<1>0. PICK j : j = work[c].job
  OBVIOUS
<1>1. PICK q : q = work[c].sql
  OBVIOUS
<1>2. PICK y \in {session[c], NewSession} :
         /\ session' = [session EXCEPT ![c] = y]
         /\ slipped' = IF Slips(q, y) THEN slipped \cup {j} ELSE slipped
  BY <1>0, <1>1
<1>3. /\ j \in Job /\ q \in Shapes(j) /\ session[c] \in Session
      /\ j \in Trans \ (cut \cup slipped) =>
            Stage(j, q, session[c].inTrans, Of(session[c].changes, j), Effects(j))
  BY <1>0, <1>1, AtWork
<1>4. PICK p : p = AfterFailure(j, q)
  OBVIOUS
<1>5. (p = <<>> \/ p \in Shapes(j)) /\ Carry(c, p)
  BY <1>0, <1>1, <1>3, <1>4, WordOf
<1>6. y \in Session /\ KeepsOthers(j, session[c].changes, y.changes, {})
  BY <1>2, <1>3, NewSessionOK, AllIsLost
<1>7. Effects(j)' = Effects(j)
  BY DEF Effects
<1>8. ASSUME j \in Trans \ (cut' \cup slipped')
      PROVE  IF p = <<>> THEN Effects(j)' \in {{}, Both(j)} /\ Of(y.changes, j) \in {{}, Both(j)}
             ELSE Stage(j, p, y.inTrans, Of(y.changes, j), Effects(j)')
  <2>1. ~Slips(q, y) /\ j \in Trans \ (cut \cup slipped)
    BY <1>2, <1>8
  <2> QED
    BY <2>1, <1>2, <1>3, <1>4, <1>7, RefusedStage
<1>9. mysql' \in [Used -> {"open", "NULL"}] /\ Working(c)
  BY DEF DbInv, DbOK
<1>10. /\ cut \subseteq cut' /\ slipped \subseteq slipped'
       /\ UNCHANGED <<pipe, worker, pool, asked>> /\ table' = table \cup {}
  BY <1>2
<1>11. {} \in SUBSET Stmt
  OBVIOUS
<1> QED
  BY <1>0, <1>2, <1>5, <1>6, <1>8, <1>9, <1>10, <1>11, JobGoesOn

\* With no handle: refused, and nothing is done.
LEMMA NoHandleStep == ASSUME DbInv, NEW c \in Used, ExecuteWithoutHandle(c) PROVE DbInv'
<1> USE DEF ExecuteWithoutHandle
<1>0. PICK j : j = work[c].job
  OBVIOUS
<1>1. PICK q : q = work[c].sql
  OBVIOUS
<1>2. PICK p : p = AfterFailure(j, q)
  OBVIOUS
<1>3. j \in Job /\ q \in Shapes(j) /\ session[c] \in Session
  BY <1>0, <1>1, AtWork
<1>4. (p = <<>> \/ p \in Shapes(j)) /\ Carry(c, p)
  BY <1>0, <1>1, <1>2, <1>3, WordOf
<1>5. session' = [session EXCEPT ![c] = session[c]]
  BY DEF DbInv, DbOK
<1>6. mysql' \in [Used -> {"open", "NULL"}] /\ Working(c)
  BY DEF DbInv, DbOK
<1>7. cut' = cut \cup {j} /\ slipped' = slipped /\ UNCHANGED <<pipe, worker, pool, asked>> /\ table' = table \cup {}
  BY <1>0
<1>8. {} \in SUBSET Stmt /\ KeepsOthers(j, session[c].changes, session[c].changes, {})
  BY AllIsLost
<1>9. j \notin Trans \ (cut' \cup slipped') /\ cut \subseteq cut' /\ slipped \subseteq slipped'
  BY <1>7
<1> QED
  BY <1>0, <1>3, <1>4, <1>5, <1>6, <1>7, <1>8, <1>9, JobGoesOn

LEMMA LoseStep == ASSUME DbInv, NEW c \in Used, LoseConnection(c) PROVE DbInv'
<1> USE DEF LoseConnection
<1>0. PICK j : j = work[c].job
  OBVIOUS
<1>1. PICK q : q = work[c].sql
  OBVIOUS
<1>2. j \in Job /\ q \in Shapes(j) /\ session[c] \in Session
  BY <1>0, <1>1, AtWork
<1>3. PICK X : X \in {{}, Committed(session[c], Head(q))} /\ table' = table \cup X
  <2>1. CASE UNCHANGED table
    BY <2>1
  <2>2. CASE Executed(c)
    BY <2>2, <1>1 DEF Executed
  <2> QED
    BY <2>1, <2>2
<1>4. X \in SUBSET Stmt /\ KeepsOthers(j, session[c].changes, NewSession.changes, X)
  <2>1. Head(q) \in Words(j)
    BY <1>2, WordOf
  <2>2. /\ Committed(session[c], Head(q)) \in SUBSET Stmt
        /\ KeepsOthers(j, session[c].changes, SessionAfter(session[c], Head(q)).changes,
                       Committed(session[c], Head(q)))
    BY <1>2, <2>1, ServedOK
  <2>3. KeepsOthers(j, session[c].changes, {}, {})
    BY AllIsLost
  <2> QED
    BY <1>3, <2>2, <2>3, NewSessionOK DEF KeepsOthers
<1>5. PICK p : (p = <<>> \/ p \in Shapes(j)) /\ Carry(c, p)
  <2>1. CASE UNCHANGED <<mysql, work, ended>>
    <3>1. q # <<>>
      BY <1>2, WordOf
    <3>2. work' = [work EXCEPT ![c].sql = q]
      BY <2>1, <1>1 DEF DbInv, DbOK
    <3>3. Carry(c, q)
      BY <2>1, <3>1, <3>2 DEF Carry
    <3> QED
      BY <3>3, <1>2
  <2>2. CASE Carry(c, AfterFailure(work[c].job, work[c].sql))
    BY <2>2, <1>0, <1>1, <1>2, WordOf
  <2> QED
    BY <2>1, <2>2
<1>6. mysql' \in [Used -> {"open", "NULL"}]
  BY DEF DbInv, DbOK
<1>7. cut' = cut \cup {j} /\ slipped' = slipped /\ UNCHANGED <<pipe, worker, pool, asked>> /\ Working(c)
  BY <1>0
<1>8. /\ session' = [session EXCEPT ![c] = NewSession] /\ j \notin Trans \ (cut' \cup slipped')
      /\ cut \subseteq cut' /\ slipped \subseteq slipped'
  BY <1>7
<1> QED
  BY <1>0, <1>3, <1>4, <1>5, <1>6, <1>7, <1>8, NewSessionOK, JobGoesOn

-----------------------------------------------------------------------------
(* The pool                                                                 *)

\* A connection that does nothing takes a job that is in no other place.
LEMMA TakesOn ==
    ASSUME DbInv, NEW c \in Used, ~Working(c), NEW j \in Job, j \notin ended,
           work' = [work EXCEPT ![c] = [job |-> j, sql |-> HandleDBMsg(j)]],
           \A d \in Used : work[d].job # j,
           asked' \in SUBSET Job, j \in asked', asked \subseteq asked',
           UNCHANGED <<table, session, mysql, worker, ended, cut, slipped>>,
           pool' \in [nextAsync : Thread, nextSync : 0..(SyncConns - 1), closing : Int],
           pipe' \in [Thread -> Seq(Trans \cup Bind)], Piped'
    PROVE  DbInv'
<1>1. /\ DbOK /\ Shaped /\ Alone /\ Piped /\ Begun /\ AllOrNothing
  BY DEF DbInv
<1>2. HandleDBMsg(j) \in Shapes(j) /\ HandleDBMsg(j) \in AllSql
  BY JobSql, JobShapes
<1>3. work'[c].job = j /\ work'[c].sql = HandleDBMsg(j) /\ Working(c)'
  BY <1>1, NoneIsNoJob DEF DbOK, Working
<1>4. \A d \in Used : d # c => work'[d] = work[d] /\ (Working(d)' <=> Working(d))
  BY <1>1 DEF DbOK, Working
<1>6. DbOK'
  <2>1. [job |-> j, sql |-> HandleDBMsg(j)] \in [job : Job \cup {"none"}, sql : AllSql]
    BY <1>2
  <2>2. work' \in [Used -> [job : Job \cup {"none"}, sql : AllSql]]
    BY <2>1, <1>1 DEF DbOK
  <2>3. ended' \in SUBSET asked'
    BY <1>1 DEF DbOK
  <2> QED
    BY <2>2, <2>3, <1>1 DEF DbOK
<1>7. Shaped'
  BY <1>1, <1>2, <1>3, <1>4 DEF Shaped
<1>10. Alone'
  <2>1. \A d \in Used : Working(d)' => work'[d].job \in asked' \ ended'
    BY <1>1, <1>3, <1>4 DEF Alone
  <2>2. \A d, e \in Used : Working(d)' /\ work'[d].job = work'[e].job => d = e
    BY <1>1, <1>3, <1>4 DEF Alone
  <2> QED
    BY <2>1, <2>2 DEF Alone
<1>11. Begun'
  <2>1. \A d \in Used : work[d].job # "none" => d # c
    BY DEF Working
  <2>2. \A s \in table : s.job # "none"
    BY <1>1, NoneIsNoJob DEF DbOK, Stmt
  <2>3. \A s \in table : s.job \in ended \/ \E d \in Used : work'[d].job = s.job
    BY <2>1, <2>2, <1>1, <1>4 DEF Begun
  <2>4. ASSUME NEW d \in Used, NEW s \in session[d].changes
        PROVE  s.job \in ended \/ work'[d].job = s.job
    <3>1. s.job # "none" /\ (s.job \in ended \/ work[d].job = s.job)
      BY <1>1, NoneIsNoJob DEF DbOK, Session, Stmt, Begun
    <3> QED
      BY <2>1, <3>1, <1>4
  <2> QED
    BY <2>3, <2>4 DEF Begun
<1>12. ASSUME NEW k \in Trans \ (cut \cup slipped)
       PROVE  /\ k \in ended => /\ Effects(k) \in {{}, Both(k)}
                                /\ \A d \in Used : Of(session[d].changes, k) \in {{}, Both(k)}
              /\ \A d \in Used : work'[d].job = k =>
                    Stage(k, work'[d].sql, session[d].inTrans, Of(session[d].changes, k), Effects(k))
  <2>1. ASSUME NEW d \in Used, work'[d].job = k
        PROVE  Stage(k, work'[d].sql, session[d].inTrans, Of(session[d].changes, k), Effects(k))
    <3>1. CASE d = c
      <4>1. k = j /\ Effects(j) = {}
        BY <3>1, <2>1, <1>3, <1>1 DEF Begun, Effects
      <4>2. Of(session[c].changes, j) = {}
        BY <1>1 DEF Begun, Of
      <4>3. HandleDBMsg(j) = Sql6(j)
        BY <4>1, JobSql
      <4> QED
        BY <4>1, <4>2, <4>3, <3>1, <1>3 DEF Stage
    <3>2. CASE d # c
      BY <3>2, <2>1, <1>1, <1>4, <1>12 DEF AllOrNothing
    <3> QED
      BY <3>1, <3>2
  <2> QED
    BY <2>1, <1>1, <1>12 DEF AllOrNothing
<1>13. AllOrNothing'
  BY <1>12 DEF AllOrNothing, Effects
<1> QED
  BY <1>6, <1>7, <1>10, <1>11, <1>13 DEF DbInv

LEMMA DirectStep == ASSUME DbInv, NEW j \in Job, Direct(j) PROVE DbInv'
<1> USE DEF Direct
<1>1. DbOK /\ Piped /\ Alone
  BY DEF DbInv
<1>2. PICK i \in 0..(SyncConns - 1) : i = GetNext(pool.nextSync, SyncConns)
  BY <1>1, Turns, DatabaseAssumption DEF DbOK
<1>3. <<"sync", i>> \in Used /\ ~Working(<<"sync", i>>)
  <2>1. <<"sync", i>> \in Used /\ <<"sync", i>>[1] = "sync"
    BY <1>2 DEF Used
  <2> QED
    BY <2>1 DEF Waits
<1>4. j \notin asked /\ j \notin ended
  BY <1>1 DEF DbOK
<1>5. \A d \in Used : work[d].job # j
  BY <1>1, <1>4, NoneIsNoJob DEF Alone, Working
<1>6. pool' \in [nextAsync : Thread, nextSync : 0..(SyncConns - 1), closing : Int]
  BY <1>1, <1>2 DEF DbOK
<1>7. /\ work' = [work EXCEPT ![<<"sync", i>>] = [job |-> j, sql |-> HandleDBMsg(j)]]
      /\ asked' = asked \cup {j} /\ asked' \in SUBSET Job
  BY <1>1, <1>2 DEF DbOK
<1>8. Piped'
  <2>1. \A d \in Used : work'[d].job \in {work[d].job, j}
    BY <1>1, <1>3, <1>7 DEF DbOK
  <2>2. \A t \in Thread : \A n \in 1..Len(pipe[t]) :
            pipe[t][n] \in asked' \ ended' /\ \A d \in Used : work'[d].job # pipe[t][n]
    BY <1>1, <1>4, <1>7, <2>1 DEF Piped
  <2> QED
    BY <2>2, <1>1 DEF Piped
<1> QED
  BY <1>1, <1>3, <1>4, <1>5, <1>6, <1>7, <1>8, TakesOn DEF DbOK

LEMMA ReadStep == ASSUME DbInv, NEW t \in DOMAIN worker, ReadMsg(t) PROVE DbInv'
<1> USE DEF ReadMsg
<1>1. DbOK /\ Piped /\ Alone
  BY DEF DbInv
<1>2. t \in Thread /\ <<"async", t>> \in Used
  BY <1>1 DEF DbOK, Used, Thread
<1>3. /\ pipe[t] \in Seq(Trans \cup Bind) /\ pipe[t] # <<>> /\ 1 \in 1..Len(pipe[t])
      /\ Head(pipe[t]) = pipe[t][1] /\ Head(pipe[t]) \in Trans \cup Bind
  BY <1>1, <1>2 DEF DbOK
<1>4. PICK j : j = Head(pipe[t])
  OBVIOUS
<1>5. j \in Job /\ j \in asked /\ j \notin ended /\ \A d \in Used : work[d].job # j
  BY <1>1, <1>2, <1>3, <1>4 DEF Piped, Job
<1>6. /\ pipe' \in [Thread -> Seq(Trans \cup Bind)]
      /\ pipe'[t] = Tail(pipe[t]) /\ \A u \in Thread \ {t} : pipe'[u] = pipe[u]
  BY <1>1, <1>2, <1>3 DEF DbOK
<1>7. work' = [work EXCEPT ![<<"async", t>>] = [job |-> j, sql |-> HandleDBMsg(j)]]
  BY <1>4
<1>8. \A n \in 1..Len(pipe'[t]) : n + 1 \in 1..Len(pipe[t]) /\ pipe'[t][n] = pipe[t][n + 1]
  BY <1>3, <1>6
<1>9. Piped'
  <2>1. \A d \in Used : work'[d].job \in {work[d].job, j}
    BY <1>1, <1>2, <1>7 DEF DbOK
  <2>2. \A u \in Thread : \A n \in 1..Len(pipe'[u]) :
            \E m \in 1..Len(pipe[u]) : pipe'[u][n] = pipe[u][m] /\ ~(u = t /\ m = 1)
                                       /\ m = IF u = t THEN n + 1 ELSE n
    BY <1>6, <1>8, <1>1 DEF DbOK
  <2>3. \A u \in Thread : \A m \in 1..Len(pipe[u]) : ~(u = t /\ m = 1) => pipe[u][m] # j
    BY <1>1, <1>2, <1>3, <1>4 DEF Piped
  <2>4. \A u \in Thread : \A n \in 1..Len(pipe'[u]) :
            pipe'[u][n] \in asked \ ended /\ \A d \in Used : work'[d].job # pipe'[u][n]
    BY <2>1, <2>2, <2>3, <1>1 DEF Piped
  <2>5. ASSUME NEW u \in Thread, NEW v \in Thread, NEW n \in 1..Len(pipe'[u]),
               NEW k \in 1..Len(pipe'[v]), pipe'[u][n] = pipe'[v][k]
        PROVE  u = v /\ n = k
    <3>1. PICK m \in 1..Len(pipe[u]) : pipe'[u][n] = pipe[u][m] /\ m = IF u = t THEN n + 1 ELSE n
      BY <2>2
    <3>2. PICK l \in 1..Len(pipe[v]) : pipe'[v][k] = pipe[v][l] /\ l = IF v = t THEN k + 1 ELSE k
      BY <2>2
    <3>3. u = v /\ m = l
      BY <3>1, <3>2, <2>5, <1>1 DEF Piped
    <3>4. n \in Int /\ k \in Int
      OBVIOUS
    <3> QED
      BY <3>1, <3>2, <3>3, <3>4
  <2> QED
    BY <2>4, <2>5 DEF Piped
<1> QED
  BY <1>1, <1>2, <1>5, <1>6, <1>7, <1>9, TakesOn DEF DbOK

\* Nothing that the jobs need to know of changes.
LEMMA Aside ==
    ASSUME DbInv, DbOK', Piped', asked \subseteq asked',
           UNCHANGED <<table, session, mysql, work, ended, cut, slipped>>
    PROVE  DbInv'
<1>1. /\ DbOK /\ Shaped /\ Alone /\ Piped /\ Begun /\ AllOrNothing
  BY DEF DbInv
<1>2. Shaped'
  BY <1>1 DEF Shaped, Working
<1>3. Alone'
  BY <1>1 DEF Alone, Working
<1>4. Begun'
  BY <1>1 DEF Begun
<1>5. AllOrNothing'
  BY <1>1 DEF AllOrNothing, Effects
<1> QED
  BY <1>2, <1>3, <1>4, <1>5 DEF DbInv

LEMMA PushStep == ASSUME DbInv, NEW j \in Job, Push(j) PROVE DbInv'
<1> USE DEF Push
<1>1. DbOK /\ Piped /\ Alone
  BY DEF DbInv
<1>2. PICK t \in Thread : t = GetNext(pool.nextAsync, AsyncThreads)
  BY <1>1, Turns, DatabaseAssumption DEF DbOK, Thread
<1>3. j \in Trans \cup Bind /\ j \notin asked /\ asked' = asked \cup {j}
  OBVIOUS
<1>4. pipe' = [pipe EXCEPT ![t] = Append(@, j)] /\ pool' = [pool EXCEPT !.nextAsync = t]
  BY <1>2
<1>5. /\ pipe' \in [Thread -> Seq(Trans \cup Bind)]
      /\ pipe'[t] = Append(pipe[t], j) /\ \A u \in Thread \ {t} : pipe'[u] = pipe[u]
  BY <1>1, <1>3, <1>4 DEF DbOK
<1>6. DbOK'
  <2>1. pool' \in [nextAsync : Thread, nextSync : 0..(SyncConns - 1), closing : Int]
    BY <1>1, <1>4 DEF DbOK
  <2> QED
    BY <2>1, <1>1, <1>3, <1>5 DEF DbOK
<1>7. Piped'
  <2>1. pipe[t] \in Seq(Trans \cup Bind) /\ Len(pipe'[t]) = Len(pipe[t]) + 1
    BY <1>1, <1>5 DEF DbOK
  <2>2. \A u \in Thread : \A n \in 1..Len(pipe'[u]) :
            \/ n \in 1..Len(pipe[u]) /\ pipe'[u][n] = pipe[u][n]
            \/ u = t /\ n = Len(pipe[t]) + 1 /\ pipe'[u][n] = j
    BY <2>1, <1>5
  <2>3. \A u \in Thread : \A n \in 1..Len(pipe[u]) : pipe[u][n] # j
    BY <1>1, <1>3 DEF Piped
  <2>4. \A d \in Used : work[d].job # j
    BY <1>1, <1>3, NoneIsNoJob DEF Alone, Working
  <2>5. \A u \in Thread : \A n \in 1..Len(pipe'[u]) :
            pipe'[u][n] \in asked' \ ended' /\ \A d \in Used : work'[d].job # pipe'[u][n]
    BY <2>2, <2>4, <1>1, <1>3 DEF Piped, DbOK
  <2>6. \A u, v \in Thread : \A n \in 1..Len(pipe'[u]), k \in 1..Len(pipe'[v]) :
            pipe'[u][n] = pipe'[v][k] => u = v /\ n = k
    BY <2>2, <2>3, <1>1 DEF Piped
  <2> QED
    BY <2>5, <2>6 DEF Piped
<1> QED
  BY <1>3, <1>6, <1>7, Aside

LEMMA ClosingMoves ==
    ASSUME NEW A, NEW B, NEW C, NEW p \in [nextAsync : A, nextSync : B, closing : C], NEW v \in C
    PROVE  [p EXCEPT !.closing = v] \in [nextAsync : A, nextSync : B, closing : C]
OBVIOUS

LEMMA DbNext == DbInv /\ [DatabaseNext]_dbVars => DbInv'
<1> SUFFICES ASSUME DbInv, [DatabaseNext]_dbVars PROVE DbInv'
  OBVIOUS
<1>0. DbOK /\ Piped
  BY DEF DbInv
<1>1. ASSUME NEW j \in Job, Push(j) PROVE DbInv'
  BY <1>1, PushStep
<1>2. ASSUME NEW j \in Job, Direct(j) PROVE DbInv'
  BY <1>2, DirectStep
<1>3. ASSUME NEW c \in Used, ExecuteOk(c) PROVE DbInv'
  BY <1>3, OkStep
<1>4. ASSUME NEW c \in Used, ExecuteRefused(c) PROVE DbInv'
  BY <1>4, RefusedStep
<1>5. ASSUME NEW c \in Used, LoseConnection(c) PROVE DbInv'
  BY <1>5, LoseStep
<1>6. ASSUME NEW c \in Used, ExecuteWithoutHandle(c) PROVE DbInv'
  BY <1>6, NoHandleStep
<1>7. ASSUME NEW t \in DOMAIN worker, ReadMsg(t) PROVE DbInv'
  BY <1>7, ReadStep
<1>8. ASSUME NEW t \in DOMAIN worker, EndWorker(t) PROVE DbInv'
  <2>1. DbOK'
    BY <1>0, <1>8 DEF DbOK, EndWorker
  <2>2. Piped'
    BY <1>0, <1>8 DEF Piped, EndWorker
  <2> QED
    BY <2>1, <2>2, <1>8, Aside DEF EndWorker
<1>9. CASE BeginClose
  <2>1. DbOK'
    <3>1. worker' \in [Thread -> {"runs", "quit", "ended"}]
      BY <1>0, <1>9 DEF DbOK, BeginClose
    <3>2. pool' = [pool EXCEPT !.closing = 0] /\ 0 \in Int
      BY <1>9 DEF BeginClose
    <3>3. pool' \in [nextAsync : Thread, nextSync : 0..(SyncConns - 1), closing : Int]
      BY <3>2, <1>0, ClosingMoves DEF DbOK
    <3> QED
      BY <3>1, <3>3, <1>0, <1>9 DEF DbOK, BeginClose
  <2>2. Piped'
    BY <1>0, <1>9 DEF Piped, BeginClose
  <2> QED
    BY <2>1, <2>2, <1>9, Aside DEF BeginClose
<1>10. CASE JoinWorker
  <2>1. worker' \in [Thread -> {"runs", "quit", "ended"}]
    <3>1. DOMAIN worker = Thread /\ \A t \in Thread : worker[t] \in {"runs", "quit", "ended"}
      BY <1>0 DEF DbOK
    <3>2. worker' = [t \in Thread |-> IF t = pool.closing + 1 THEN "quit" ELSE worker[t]]
      BY <1>10, <3>1 DEF JoinWorker
    <3> QED
      BY <3>1, <3>2
  <2>2. pool' \in [nextAsync : Thread, nextSync : 0..(SyncConns - 1), closing : Int]
    <3>1. pool.closing + 1 \in Int
      BY <1>0 DEF DbOK
    <3>2. pool' = [pool EXCEPT !.closing = pool.closing + 1]
      BY <1>10 DEF JoinWorker
    <3> QED
      BY <3>1, <3>2, <1>0, ClosingMoves DEF DbOK
  <2>3. DbOK'
    BY <2>1, <2>2, <1>0, <1>10 DEF DbOK, JoinWorker
  <2>4. Piped'
    BY <1>0, <1>10 DEF Piped, JoinWorker
  <2> QED
    BY <2>3, <2>4, <1>10, Aside DEF JoinWorker
<1>11. CASE UNCHANGED dbVars
  <2>1. DbOK' /\ Piped'
    BY <1>0, <1>11 DEF DbOK, Piped, dbVars
  <2> QED
    BY <2>1, <1>11, Aside DEF dbVars
<1> QED
  BY <1>1, <1>2, <1>3, <1>4, <1>5, <1>6, <1>7, <1>8, <1>9, <1>10, <1>11 DEF DatabaseNext

\* A transaction that has run has changed both of its rows or none, whatever the server
\* refused and whichever thread ran it, unless its connection was lost or the server
\* refused to begin the transaction or to roll it back; one that has not come to its
\* commit shows nothing (DBWorkerThread::handleDBMsg,
\* MySQLConnection::executeTransaction).
THEOREM TransactionsAreAtomic == DatabaseSpec => []TransAtomic
<1>1. DatabaseInit => DbInv
  BY DbInit
<1>2. DbInv /\ [DatabaseNext]_dbVars => DbInv'
  BY DbNext
<1>3. DbInv => TransAtomic
  <2> SUFFICES ASSUME DbInv, NEW j \in Trans \ (cut \cup slipped)
               PROVE  /\ j \in ended => Cardinality(Effects(j)) \in {0, 2}
                      /\ (\E c \in Used : work[c].job = j /\ Len(work[c].sql) > 2)
                             => Effects(j) = {}
    BY DEF TransAtomic
  <2>1. Cardinality({}) = 0 /\ Cardinality(Both(j)) = 2
    <3>1. Change(j, 1) # Change(j, 2)
      <4>1. Change(j, 1).no = 1 /\ Change(j, 2).no = 2
        BY ZenonT(30), WordsDiffer
      <4> QED
        BY <4>1
    <3>2. IsFiniteSet({Change(j, 1)}) /\ Cardinality({Change(j, 1)}) = 1
      BY FS_Singleton
    <3>3. Both(j) = {Change(j, 1)} \cup {Change(j, 2)}
      BY DEF Both
    <3>4. Change(j, 2) \notin {Change(j, 1)}
      BY <3>1
    <3>5. Cardinality({Change(j, 1)} \cup {Change(j, 2)}) = Cardinality({Change(j, 1)}) + 1
      BY <3>2, <3>4, FS_AddElement
    <3> QED
      BY <3>2, <3>3, <3>5, FS_EmptySet
  <2>2. j \in ended => Effects(j) \in {{}, Both(j)}
    BY DEF DbInv, AllOrNothing
  <2>3. ASSUME NEW c \in Used, work[c].job = j, Len(work[c].sql) > 2 PROVE Effects(j) = {}
    <3>0. PICK q : q = work[c].sql
      OBVIOUS
    <3>1. /\ Stage(j, q, session[c].inTrans, Of(session[c].changes, j), Effects(j))
          /\ Len(q) > 2
      BY <3>0, <2>3 DEF DbInv, AllOrNothing
    <3>2. Len(Sql2) = 2 /\ Len(Undo) = 2 /\ Len(Sql1) = 1
      BY DEF Sql2, Undo, Sql1
    <3>3. q # Sql2 /\ q # Undo /\ q # Sql1
      <4>1. Len(q) > 2
        BY <3>1
      <4>2. ~(2 > 2) /\ ~(1 > 2)
        OBVIOUS
      <4> QED
        BY <4>1, <4>2, <3>2, Zenon
    <3> QED
      BY <3>1, <3>3 DEF Stage
  <2> QED
    BY <2>1, <2>2, <2>3
<1> QED
  BY <1>1, <1>2, <1>3, PTL DEF DatabaseSpec

-----------------------------------------------------------------------------
(* How far a client is                                                      *)

Functor == {"DestroySession", "connectDestroyed"}

ClientRecord ==
    [state : {"disconnected", "connecting", "connected"}, session : {"none", "on", "off"},
     sock : {"none", "progress", "ok", "refused", "self"}, timers : Seq(Nat),
     delay : Nat \ {0}, conn : {"none", "connected", "fin", "disconnected"},
     retry : BOOLEAN, queue : Seq(Functor), lost : BOOLEAN, stuck : BOOLEAN,
     failed : BOOLEAN]

\* The functor that the loop has still to run: there is never more than one.
PendingFunctor(k, r) ==
    IF k.queue # <<>> THEN Head(k.queue) ELSE IF r # <<>> THEN Head(r) ELSE "none"

Unstarted(k, p) ==
    /\ k.state = "disconnected" /\ k.session = "none" /\ k.timers = <<>>
    /\ k.conn = "none" /\ p = "none"

\* A session that is off is destroyed in its own round, which no delay ends in.
AwaitsRetry(k, p) ==
    /\ k.state = "disconnected" /\ k.conn = "none" /\ Len(k.timers) = 1
    /\ \/ k.session = "none" /\ p = "none"
       \/ k.session = "off" /\ p = "DestroySession" /\ k.timers[1] > 0

Attempting(k, p) ==
    /\ k.state = "connecting" /\ k.session = "on" /\ k.timers = <<>>
    /\ k.conn = "none" /\ k.sock # "none" /\ p = "none"

HasConnection(k, p) ==
    /\ k.state = "connected" /\ k.timers = <<>>
    /\ \/ /\ k.conn \in {"connected", "fin"}
          /\ \/ k.session = "none" /\ p = "none"
             \/ k.session = "off" /\ p = "DestroySession"
       \/ k.conn = "disconnected" /\ k.session = "none" /\ p = "connectDestroyed"

GaveUp(k, p) ==
    /\ k.state = "connected" /\ k.session = "none" /\ k.timers = <<>>
    /\ k.conn = "none" /\ p = "none" /\ k.lost /\ ~k.retry

LeadsOn(k, p) == AwaitsRetry(k, p) \/ Attempting(k, p) \/ HasConnection(k, p) \/ GaveUp(k, p)

RoundOK ==
    /\ hotel \in {"idle", "poll", "events", "functors", "ended", "destroyed"}
    /\ client.queue \in {<<>>} \cup {<<f>> : f \in Functor}
    /\ running \in {<<>>} \cup {<<f>> : f \in Functor}
    /\ client.queue # <<>> => hotel = "events"
    /\ running # <<>> => hotel = "functors"
    /\ reported \subseteq {"connector", "timer", "connection"}
    /\ reported # {} => hotel = "events"

\* What the poll reported of the attempt or the connection is still so.
ReportsHold ==
    /\ "connector" \in reported => Attempting(client, "none") /\ client.sock # "progress"
    /\ "connection" \in reported => client.conn = "fin" /\ client.session = "none"

Somewhere ==
    hotel \notin {"ended", "destroyed"} =>
        \/ hotel = "idle" /\ ~client.stuck /\ Unstarted(client, PendingFunctor(client, running))
        \/ hotel # "idle" /\ client.stuck /\ Unstarted(client, PendingFunctor(client, running))
        \/ hotel # "idle" /\ ~client.stuck /\ LeadsOn(client, PendingFunctor(client, running))

ClientInv ==
    client \in ClientRecord /\ ~client.failed /\ RoundOK /\ ReportsHold /\ Somewhere

-----------------------------------------------------------------------------
(* The operators, field by field                                            *)

Same(k, x) ==
    x.retry = k.retry /\ x.lost = k.lost /\ x.failed = k.failed /\ x.queue = k.queue

LEMMA OneTimer ==
    ASSUME NEW t \in Seq(Nat), Len(t) = 1, NEW i \in DOMAIN t
    PROVE  i = 1 /\ RemoveAt(t, i) = <<>>
BY DEF RemoveAt

LEMMA NoTimer ==
    ASSUME NEW t \in Seq(Nat)
    PROVE  DOMAIN t = 1 .. Len(t) /\ (t = <<>> <=> Len(t) = 0) /\ Len(t) \in Nat
           /\ \A d \in Nat : Len(<<d>>) = 1 /\ <<d>>[1] = d /\ <<d>> \in Seq(Nat)
OBVIOUS

LEMMA RetryGives ==
    ASSUME NEW k \in ClientRecord, k.timers = <<>>, NEW x, x = Retry(k)
    PROVE  /\ x \in ClientRecord /\ Same(k, x) /\ x.conn = k.conn /\ x.stuck = k.stuck
           /\ x.state = "disconnected" /\ x.session = k.session
           /\ Len(x.timers) = 1 /\ x.timers[1] > 0
<1>1. PICK d \in Nat \ {0} : d = k.delay
  BY DEF ClientRecord
<1>2. PICK e \in Nat \ {0} : e = IF 2 * d < MaxRetryDelay THEN 2 * d ELSE MaxRetryDelay
  BY <1>1, ClientAssumption
<1>3. Append(k.timers, d) = <<d>> /\ <<d>> \in Seq(Nat) /\ Len(<<d>>) = 1 /\ <<d>>[1] = d
  BY <1>1
<1>4. x = [k EXCEPT !.sock = "none", !.state = "disconnected", !.timers = <<d>>, !.delay = e]
  BY <1>1, <1>2, <1>3 DEF Retry
<1>5. /\ x.sock = "none" /\ x.state = "disconnected" /\ x.timers = <<d>> /\ x.delay = e
      /\ x.session = k.session /\ x.conn = k.conn /\ x.stuck = k.stuck /\ Same(k, x)
  BY <1>4 DEF ClientRecord, Same
<1>6. x \in ClientRecord
  BY <1>3, <1>4 DEF ClientRecord
<1> QED
  BY <1>1, <1>3, <1>5, <1>6

LEMMA StartGives ==
    ASSUME NEW k \in ClientRecord, k.state = "disconnected", k.timers = <<>>,
           NEW answer \in {"progress", "again", "fatal"}, NEW x, x = Start(k, answer)
    PROVE  /\ x \in ClientRecord /\ Same(k, x) /\ x.conn = k.conn
           /\ \/ /\ x.stuck = k.stuck /\ x.state = "disconnected" /\ x.session = k.session
                 /\ Len(x.timers) = 1 /\ x.timers[1] > 0
              \/ /\ x.stuck = k.stuck /\ x.state = "connecting" /\ x.session = "on"
                 /\ x.timers = <<>> /\ x.sock = "progress"
              \/ /\ x.stuck /\ x.state = "disconnected" /\ x.session = k.session
                 /\ x.timers = <<>>
<1>1. CASE answer = "progress"
  <2>1. x = [k EXCEPT !.state = "connecting", !.session = "on", !.sock = "progress"]
    BY <1>1 DEF Start, Connecting
  <2> QED
    BY <2>1 DEF ClientRecord, Same
<1>2. CASE answer = "again"
  <2>1. x = Retry(k)
    BY <1>2 DEF Start
  <2> QED
    BY <2>1, RetryGives
<1>3. CASE answer = "fatal"
  <2>1. x = [k EXCEPT !.stuck = TRUE]
    BY <1>3 DEF Start
  <2> QED
    BY <2>1 DEF ClientRecord, Same
<1> QED
  BY <1>1, <1>2, <1>3

\* The attempt that a poll reported has ended, and its session is taken away.
LEMMA EventGives ==
    ASSUME NEW k \in ClientRecord, Attempting(k, "none"), k.sock # "progress", k.queue = <<>>,
           NEW x, x = HandleEvent(k)
    PROVE  /\ x \in ClientRecord /\ x.queue = <<"DestroySession">> /\ x.session = "off"
           /\ x.retry = k.retry /\ x.lost = k.lost /\ x.failed = k.failed /\ x.stuck = k.stuck
           /\ \/ /\ x.state = "disconnected" /\ x.conn = "none"
                 /\ Len(x.timers) = 1 /\ x.timers[1] > 0
              \/ x.state = "connected" /\ x.timers = <<>> /\ x.conn = "connected"
<1>1. PICK r : r = RemoveAddResetSession(k)
  OBVIOUS
<1>2. <<"DestroySession">> \in Seq(Functor) /\ Append(k.queue, "DestroySession") = <<"DestroySession">>
  BY DEF Functor
<1>3. r = [k EXCEPT !.session = "off", !.queue = <<"DestroySession">>]
  BY <1>1, <1>2 DEF RemoveAddResetSession
<1>4. /\ r \in ClientRecord /\ r.timers = <<>> /\ r.session = "off" /\ r.sock = k.sock
      /\ r.queue = <<"DestroySession">> /\ r.conn = "none" /\ r.state = "connecting"
      /\ r.retry = k.retry /\ r.lost = k.lost /\ r.failed = k.failed /\ r.stuck = k.stuck
  BY <1>2, <1>3 DEF ClientRecord, Attempting
<1>5. k.sock \in {"ok", "refused", "self"} /\ k.state = "connecting"
  BY DEF Attempting, ClientRecord
<1>6. PICK y : y = Retry(r)
  OBVIOUS
<1>7. /\ y \in ClientRecord /\ y.state = "disconnected" /\ y.session = "off" /\ y.conn = "none"
      /\ Len(y.timers) = 1 /\ y.timers[1] > 0 /\ y.queue = <<"DestroySession">>
      /\ y.retry = k.retry /\ y.lost = k.lost /\ y.failed = k.failed /\ y.stuck = k.stuck
  BY <1>4, <1>6, RetryGives DEF Same
<1>8. CASE k.sock = "refused"
  <2>1. HandleError(k) = y
    BY <1>1, <1>5, <1>6 DEF HandleError
  <2>2. x = y
    BY <1>8, <2>1, <1>7 DEF HandleEvent, HandleWrite
  <2> QED
    BY <2>2, <1>7
<1>9. CASE k.sock = "self"
  <2>1. x = y
    BY <1>9, <1>1, <1>5, <1>6 DEF HandleEvent, HandleWrite
  <2> QED
    BY <2>1, <1>7
<1>10. CASE k.sock = "ok"
  <2>1. x = NewConnection([r EXCEPT !.state = "connected"])
    BY <1>10, <1>1, <1>5 DEF HandleEvent, HandleWrite
  <2>2. x = [r EXCEPT !.state = "connected", !.conn = "connected", !.sock = "none"]
    BY <2>1, <1>4 DEF NewConnection, ClientRecord
  <2>3. x \in ClientRecord
    BY <2>2, <1>4 DEF ClientRecord
  <2>4. /\ x.state = "connected" /\ x.conn = "connected" /\ x.timers = r.timers
        /\ x.session = r.session /\ x.queue = r.queue /\ x.retry = r.retry
        /\ x.lost = r.lost /\ x.failed = r.failed /\ x.stuck = r.stuck
    BY <2>2, <1>4 DEF ClientRecord
  <2> QED
    BY <2>3, <2>4, <1>4
<1> QED
  BY <1>5, <1>8, <1>9, <1>10

LEMMA RemovedGives ==
    ASSUME NEW k \in ClientRecord, HasConnection(k, "connectDestroyed"), k.queue = <<>>, ~k.stuck,
           NEW answer \in {"progress", "again", "fatal"}, NEW x, x = RemoveConnection(k, answer)
    PROVE  /\ x \in ClientRecord /\ x.queue = <<>> /\ x.failed = k.failed
           /\ \/ x.stuck /\ Unstarted(x, "none")
              \/ ~x.stuck /\ LeadsOn(x, "none")
<1>1. k.timers = <<>> /\ k.session = "none" /\ k.state = "connected" /\ k.conn = "disconnected"
  BY DEF HasConnection
<1>2. CASE ~k.retry
  <2>1. x = [k EXCEPT !.conn = "none", !.lost = TRUE]
    BY <1>2 DEF RemoveConnection
  <2>2. /\ x \in ClientRecord /\ x.queue = <<>> /\ x.failed = k.failed /\ x.stuck = k.stuck
        /\ x.state = "connected" /\ x.session = "none" /\ x.timers = <<>> /\ x.conn = "none"
        /\ x.lost /\ ~x.retry
    BY <2>1, <1>1, <1>2 DEF ClientRecord
  <2> QED
    BY <2>2 DEF LeadsOn, GaveUp
<1>3. CASE k.retry
  <2>1. PICK z : z = [k EXCEPT !.state = "disconnected", !.delay = InitRetryDelay]
    OBVIOUS
  <2>2. /\ z \in ClientRecord /\ z.state = "disconnected" /\ z.timers = <<>> /\ z.queue = <<>>
        /\ z.session = "none" /\ z.failed = k.failed /\ ~z.stuck /\ z.retry
    BY <2>1, <1>1, <1>3, ClientAssumption DEF ClientRecord
  <2>3. PICK y : y = Start(z, answer)
    OBVIOUS
  <2>4. /\ y \in ClientRecord /\ y.queue = <<>> /\ y.failed = k.failed
        /\ \/ ~y.stuck /\ y.state = "disconnected" /\ y.session = "none"
              /\ Len(y.timers) = 1 /\ y.timers[1] > 0
           \/ ~y.stuck /\ y.state = "connecting" /\ y.session = "on"
              /\ y.timers = <<>> /\ y.sock = "progress"
           \/ y.stuck /\ y.state = "disconnected" /\ y.session = "none" /\ y.timers = <<>>
    BY <2>2, <2>3, StartGives DEF Same
  <2>5. x = [y EXCEPT !.conn = "none", !.lost = TRUE]
    BY <1>3, <2>1, <2>3 DEF RemoveConnection, Restart
  <2>6. /\ x \in ClientRecord /\ x.queue = <<>> /\ x.failed = k.failed /\ x.stuck = y.stuck
        /\ x.state = y.state /\ x.session = y.session /\ x.timers = y.timers /\ x.sock = y.sock
        /\ x.conn = "none"
    <3>1. x \in ClientRecord
      BY <2>4, <2>5 DEF ClientRecord
    <3>2. x.queue = y.queue /\ x.failed = y.failed /\ x.stuck = y.stuck
      BY <2>4, <2>5 DEF ClientRecord
    <3>3. x.state = y.state /\ x.session = y.session /\ x.timers = y.timers
      BY <2>4, <2>5 DEF ClientRecord
    <3>4. x.sock = y.sock /\ x.conn = "none"
      BY <2>4, <2>5 DEF ClientRecord
    <3> QED
      BY <3>1, <3>2, <3>3, <3>4, <2>4
  <2> QED
    BY <2>4, <2>6 DEF LeadsOn, Unstarted, AwaitsRetry, Attempting
<1> QED
  BY <1>2, <1>3 DEF ClientRecord

-----------------------------------------------------------------------------
(* The steps                                                                *)

LEMMA AnswersAre == Answers \subseteq {"progress", "again", "fatal"}
BY DEF Answers

LEMMA FreshClient == ClientInit => ClientInv
<1> SUFFICES ASSUME ClientInit PROVE ClientInv
  OBVIOUS
<1>1. PICK retry \in BOOLEAN :
          client = [state |-> "disconnected", session |-> "none", sock |-> "none",
                    timers |-> <<>>, delay |-> InitRetryDelay, conn |-> "none",
                    retry |-> retry, queue |-> <<>>, lost |-> FALSE, stuck |-> FALSE,
                    failed |-> FALSE]
  BY DEF ClientInit
<1>2. hotel = "idle" /\ reported = {} /\ running = <<>>
  BY DEF ClientInit
<1>3. client \in ClientRecord
  BY <1>1, ClientAssumption DEF ClientRecord
<1>4. RoundOK /\ ReportsHold
  BY <1>1, <1>2 DEF RoundOK, ReportsHold
<1>5. Unstarted(client, PendingFunctor(client, running)) /\ ~client.stuck /\ ~client.failed
  BY <1>1, <1>2 DEF Unstarted, PendingFunctor
<1> QED
  BY <1>2, <1>3, <1>4, <1>5 DEF ClientInv, Somewhere

\* Something is queued only within a round.
LEMMA Quiet ==
    ASSUME RoundOK
    PROVE  /\ hotel \notin {"events", "functors"} => PendingFunctor(client, running) = "none"
           /\ hotel \notin {"events", "functors"} => client.queue = <<>> /\ running = <<>>
           /\ PendingFunctor(client, running) = "none" <=> client.queue = <<>> /\ running = <<>>
           /\ PendingFunctor(client, running) \in Functor \cup {"none"}
<1>1. \A f \in Functor : <<f>> # <<>> /\ Head(<<f>>) = f /\ f # "none"
  BY DEF Functor
<1>2. /\ client.queue = <<>> \/ \E f \in Functor : client.queue = <<f>>
      /\ running = <<>> \/ \E f \in Functor : running = <<f>>
  BY DEF RoundOK
<1> QED
  BY <1>1, <1>2 DEF RoundOK, PendingFunctor

LEMMA ConnectStep == ASSUME ClientInv, Connect PROVE ClientInv'
<1>1. PICK answer \in Answers : client' = Start(client, answer)
  BY DEF Connect
<1>2. hotel = "idle" /\ hotel' = "poll" /\ UNCHANGED <<reported, running>>
  BY DEF Connect
<1>3. PICK k : k = client
  OBVIOUS
<1>4. PICK x : x = client'
  OBVIOUS
<1>5. /\ k \in ClientRecord /\ k.queue = <<>> /\ running = <<>> /\ reported = {} /\ ~k.failed
      /\ ~k.stuck /\ k.state = "disconnected" /\ k.session = "none" /\ k.timers = <<>> /\ k.conn = "none"
  BY <1>2, <1>3, Quiet DEF ClientInv, Somewhere, Unstarted, RoundOK
<1>6. x = Start(k, answer) /\ answer \in {"progress", "again", "fatal"}
  BY <1>1, <1>3, <1>4, AnswersAre
<1>7. /\ x \in ClientRecord /\ x.queue = <<>> /\ ~x.failed /\ x.conn = "none"
      /\ \/ ~x.stuck /\ x.state = "disconnected" /\ x.session = "none"
            /\ Len(x.timers) = 1 /\ x.timers[1] > 0
         \/ ~x.stuck /\ x.state = "connecting" /\ x.session = "on"
            /\ x.timers = <<>> /\ x.sock = "progress"
         \/ x.stuck /\ x.state = "disconnected" /\ x.session = "none" /\ x.timers = <<>>
  BY <1>5, <1>6, StartGives DEF Same
<1>8. (x.stuck /\ Unstarted(x, "none")) \/ (~x.stuck /\ LeadsOn(x, "none"))
  BY <1>7 DEF LeadsOn, Unstarted, AwaitsRetry, Attempting
<1>9. PendingFunctor(x, running') = "none"
  BY <1>2, <1>5, <1>7 DEF PendingFunctor
<1>10. RoundOK' /\ ReportsHold'
  BY <1>2, <1>4, <1>5, <1>7 DEF RoundOK, ReportsHold
<1>11. Somewhere'
  BY <1>2, <1>4, <1>8, <1>9 DEF Somewhere
<1> QED
  BY <1>4, <1>7, <1>10, <1>11 DEF ClientInv

LEMMA ConnectorStep == ASSUME ClientInv, HandleConnector PROVE ClientInv'
<1>1. PICK k : k = client
  OBVIOUS
<1>2. PICK x : x = client'
  OBVIOUS
<1>3. /\ "connector" \in reported /\ reported' = reported \ {"connector"} /\ hotel = "events"
      /\ hotel' = hotel /\ running' = running /\ x = HandleEvent(k)
  BY <1>1, <1>2 DEF HandleConnector, ClientInv, RoundOK
<1>4. /\ k \in ClientRecord /\ Attempting(k, "none") /\ k.sock # "progress" /\ ~k.failed
      /\ "connection" \notin reported
  BY <1>1, <1>3 DEF ClientInv, ReportsHold, Attempting
<1>5. k.queue = <<>> /\ running = <<>> /\ ~k.stuck
  <2>1. Attempting(k, PendingFunctor(k, running)) /\ ~k.stuck
    BY <1>1, <1>3, <1>4
       DEF ClientInv, Somewhere, Attempting, Unstarted, LeadsOn, AwaitsRetry, HasConnection, GaveUp
  <2> QED
    BY <2>1, <1>1, Quiet DEF ClientInv, Attempting
<1>6. /\ x \in ClientRecord /\ x.queue = <<"DestroySession">> /\ x.session = "off"
      /\ ~x.failed /\ ~x.stuck
      /\ \/ /\ x.state = "disconnected" /\ x.conn = "none"
            /\ Len(x.timers) = 1 /\ x.timers[1] > 0
         \/ x.state = "connected" /\ x.timers = <<>> /\ x.conn = "connected"
  BY <1>3, <1>4, <1>5, EventGives
<1>7. PendingFunctor(x, running') = "DestroySession"
  BY <1>6 DEF PendingFunctor
<1>8. LeadsOn(x, "DestroySession")
  BY <1>6 DEF LeadsOn, AwaitsRetry, HasConnection
<1>9. RoundOK'
  <2>1. x.queue \in {<<>>} \cup {<<f>> : f \in Functor}
    BY <1>6 DEF Functor
  <2> QED
    BY <2>1, <1>2, <1>3, <1>5 DEF ClientInv, RoundOK
<1>10. ReportsHold'
  BY <1>3, <1>4 DEF ReportsHold
<1>11. Somewhere'
  BY <1>2, <1>3, <1>6, <1>7, <1>8 DEF Somewhere
<1> QED
  BY <1>2, <1>6, <1>9, <1>10, <1>11 DEF ClientInv

LEMMA TimerStep == ASSUME ClientInv, HandleTimer PROVE ClientInv'
<1>1. PICK k : k = client
  OBVIOUS
<1>2. PICK x : x = client'
  OBVIOUS
<1>3. /\ hotel = "events" /\ hotel' = hotel /\ running' = running /\ running = <<>>
      /\ reported' \subseteq reported
  BY DEF HandleTimer, ClientInv, RoundOK
<1>4. CASE UNCHANGED client
  <2>1. RoundOK' /\ ReportsHold' /\ Somewhere'
    BY <1>3, <1>4 DEF ClientInv, RoundOK, ReportsHold, Somewhere
  <2> QED
    BY <2>1, <1>4 DEF ClientInv
<1>5. CASE ~UNCHANGED client
  <2>1. PICK i \in DOMAIN k.timers, answer \in Answers :
            /\ k.timers[i] = 0 /\ x = Start([k EXCEPT !.timers = RemoveAt(k.timers, i)], answer)
    BY <1>1, <1>2, <1>5 DEF HandleTimer
  <2>2. k \in ClientRecord /\ k.timers \in Seq(Nat) /\ ~k.failed
    BY <1>1 DEF ClientInv, ClientRecord
  <2>3. k.timers # <<>>
    BY <2>1, <2>2
  <2>4. ~k.stuck /\ AwaitsRetry(k, PendingFunctor(k, running))
    BY <1>1, <1>3, <2>3 DEF ClientInv, Somewhere, Unstarted, LeadsOn, Attempting, HasConnection, GaveUp
  <2>5. i = 1 /\ RemoveAt(k.timers, i) = <<>>
    BY <2>1, <2>2, <2>4, OneTimer DEF AwaitsRetry
  <2>6. /\ k.session = "none" /\ PendingFunctor(k, running) = "none" /\ k.state = "disconnected"
        /\ k.conn = "none" /\ k.queue = <<>>
    <3>1. ~(k.timers[1] > 0)
      BY <2>1, <2>5
    <3>2. /\ k.session = "none" /\ PendingFunctor(k, running) = "none" /\ k.state = "disconnected"
          /\ k.conn = "none"
      BY <3>1, <2>4 DEF AwaitsRetry
    <3> QED
      BY <3>2, <1>1, Quiet DEF ClientInv
  <2>7. PICK y : y = [k EXCEPT !.timers = <<>>]
    OBVIOUS
  <2>8. /\ y \in ClientRecord /\ y.timers = <<>> /\ y.state = "disconnected" /\ y.session = "none"
        /\ y.conn = "none" /\ y.queue = <<>> /\ ~y.stuck /\ ~y.failed
    BY SMTT(30), <2>2, <2>4, <2>6, <2>7 DEF ClientRecord
  <2>9. x = Start(y, answer) /\ answer \in {"progress", "again", "fatal"}
    BY <2>1, <2>5, <2>7, AnswersAre
  <2>10. /\ x \in ClientRecord /\ x.queue = <<>> /\ ~x.failed /\ x.conn = "none"
         /\ \/ ~x.stuck /\ x.state = "disconnected" /\ x.session = "none"
               /\ Len(x.timers) = 1 /\ x.timers[1] > 0
            \/ ~x.stuck /\ x.state = "connecting" /\ x.session = "on"
               /\ x.timers = <<>> /\ x.sock = "progress"
            \/ x.stuck /\ x.state = "disconnected" /\ x.session = "none" /\ x.timers = <<>>
    BY <2>8, <2>9, StartGives DEF Same
  <2>11. (x.stuck /\ Unstarted(x, "none")) \/ (~x.stuck /\ LeadsOn(x, "none"))
    BY <2>10 DEF LeadsOn, Unstarted, AwaitsRetry, Attempting
  <2>12. PendingFunctor(x, running') = "none"
    BY <1>3, <2>10 DEF PendingFunctor
  <2>13. RoundOK'
    BY <1>2, <1>3, <2>10 DEF ClientInv, RoundOK
  <2>14. ReportsHold'
    <3>1. "connector" \notin reported /\ "connection" \notin reported
      BY <1>1, <2>6 DEF ClientInv, ReportsHold, Attempting
    <3> QED
      BY <3>1, <1>3 DEF ReportsHold
  <2>15. Somewhere'
    BY <1>2, <1>3, <2>11, <2>12 DEF Somewhere
  <2> QED
    BY <1>2, <2>10, <2>13, <2>14, <2>15 DEF ClientInv
<1> QED
  BY <1>4, <1>5

LEMMA ConnectionStep == ASSUME ClientInv, HandleConnection PROVE ClientInv'
<1>1. PICK k : k = client
  OBVIOUS
<1>2. PICK x : x = client'
  OBVIOUS
<1>3. /\ "connection" \in reported /\ reported' = reported \ {"connection"} /\ hotel = "events"
      /\ hotel' = hotel /\ running' = running /\ running = <<>>
      /\ x = [k EXCEPT !.conn = "disconnected", !.queue = Append(k.queue, "connectDestroyed")]
  BY <1>1, <1>2 DEF HandleConnection, ClientInv, RoundOK
<1>4. /\ k \in ClientRecord /\ ~k.failed /\ k.conn = "fin" /\ k.session = "none"
      /\ "connector" \notin reported
  BY <1>1, <1>3 DEF ClientInv, ReportsHold, Attempting
<1>5. ~k.stuck /\ HasConnection(k, PendingFunctor(k, running))
  BY <1>1, <1>3, <1>4
     DEF ClientInv, Somewhere, Unstarted, LeadsOn, AwaitsRetry, Attempting, GaveUp
<1>6. k.queue = <<>> /\ k.state = "connected" /\ k.timers = <<>>
  <2>1. PendingFunctor(k, running) = "none" /\ k.state = "connected" /\ k.timers = <<>>
    BY <1>4, <1>5 DEF HasConnection
  <2> QED
    BY <2>1, <1>1, Quiet DEF ClientInv
<1>7. <<"connectDestroyed">> \in Seq(Functor) /\ Append(k.queue, "connectDestroyed") = <<"connectDestroyed">>
  BY <1>6 DEF Functor
<1>8. x = [k EXCEPT !.conn = "disconnected", !.queue = <<"connectDestroyed">>]
  BY <1>3, <1>7
<1>9. /\ x \in ClientRecord /\ ~x.failed /\ ~x.stuck /\ x.queue = <<"connectDestroyed">>
      /\ x.conn = "disconnected" /\ x.session = "none" /\ x.state = "connected" /\ x.timers = <<>>
  BY <1>4, <1>5, <1>6, <1>7, <1>8 DEF ClientRecord
<1>10. PendingFunctor(x, running') = "connectDestroyed"
  BY <1>9 DEF PendingFunctor
<1>11. LeadsOn(x, "connectDestroyed")
  BY <1>9 DEF LeadsOn, HasConnection
<1>12. RoundOK'
  <2>1. x.queue \in {<<>>} \cup {<<f>> : f \in Functor}
    BY <1>9 DEF Functor
  <2> QED
    BY <2>1, <1>2, <1>3 DEF ClientInv, RoundOK
<1>13. ReportsHold'
  BY <1>3, <1>4 DEF ReportsHold
<1>14. Somewhere'
  BY <1>2, <1>3, <1>9, <1>10, <1>11 DEF Somewhere
<1> QED
  BY <1>2, <1>9, <1>12, <1>13, <1>14 DEF ClientInv

LEMMA SwapStep == ASSUME ClientInv, SwapFunctors PROVE ClientInv'
<1>1. PICK k : k = client
  OBVIOUS
<1>2. PICK x : x = client'
  OBVIOUS
<1>3. /\ hotel = "events" /\ hotel' = "functors" /\ reported = {} /\ reported' = {} /\ running = <<>>
      /\ running' = k.queue /\ x = [k EXCEPT !.queue = <<>>] /\ k \in ClientRecord /\ ~k.failed
      /\ k.queue \in {<<>>} \cup {<<f>> : f \in Functor}
  BY <1>1, <1>2 DEF SwapFunctors, ClientInv, RoundOK
<1>4. /\ x \in ClientRecord /\ ~x.failed /\ x.queue = <<>> /\ x.stuck = k.stuck /\ x.state = k.state
      /\ x.session = k.session /\ x.timers = k.timers /\ x.conn = k.conn /\ x.sock = k.sock
      /\ x.lost = k.lost /\ x.retry = k.retry
  <2>1. x = [k EXCEPT !.queue = <<>>] /\ k \in ClientRecord /\ ~k.failed /\ <<>> \in Seq(Functor)
    BY <1>3
  <2> QED
    BY <2>1 DEF ClientRecord
<1>5. PendingFunctor(x, running') = PendingFunctor(k, running)
  BY <1>3, <1>4 DEF PendingFunctor
<1>6. RoundOK'
  BY <1>2, <1>3, <1>4 DEF RoundOK
<1>7. ReportsHold'
  BY <1>3 DEF ReportsHold
<1>8. Somewhere'
  <2>1. \A p : (Unstarted(k, p) => Unstarted(x, p)) /\ (LeadsOn(k, p) => LeadsOn(x, p))
    BY <1>4 DEF Unstarted, LeadsOn, AwaitsRetry, Attempting, HasConnection, GaveUp
  <2> QED
    BY <2>1, <1>1, <1>2, <1>3, <1>4, <1>5 DEF ClientInv, Somewhere
<1> QED
  BY <1>2, <1>4, <1>6, <1>7, <1>8 DEF ClientInv

LEMMA FunctorStep == ASSUME ClientInv, RunFunctor PROVE ClientInv'
<1>1. PICK k : k = client
  OBVIOUS
<1>2. PICK x : x = client'
  OBVIOUS
<1>3. /\ hotel = "functors" /\ hotel' = hotel /\ reported = {} /\ reported' = {}
      /\ running # <<>> /\ running' = Tail(running) /\ k.queue = <<>> /\ k \in ClientRecord /\ ~k.failed
      /\ running \in {<<f>> : f \in Functor}
  BY <1>1 DEF RunFunctor, ClientInv, RoundOK
<1>4. running' = <<>> /\ Head(running) \in Functor /\ PendingFunctor(k, running) = Head(running)
  BY SMTT(30), <1>3 DEF PendingFunctor
<1>5. ~k.stuck /\ LeadsOn(k, PendingFunctor(k, running))
  BY <1>1, <1>3, <1>4 DEF ClientInv, Somewhere, Unstarted, Functor
<1>6. /\ x \in ClientRecord /\ x.queue = <<>> /\ ~x.failed
      /\ (x.stuck /\ Unstarted(x, "none")) \/ (~x.stuck /\ LeadsOn(x, "none"))
  <2>1. CASE Head(running) = "DestroySession" /\ client' = DestroySession(client)
    <3>1. x = [k EXCEPT !.session = "none"]
      BY <2>1, <1>1, <1>2 DEF DestroySession
    <3>2. /\ x \in ClientRecord /\ x.queue = <<>> /\ ~x.failed /\ ~x.stuck /\ x.session = "none"
          /\ x.state = k.state /\ x.timers = k.timers /\ x.conn = k.conn
      BY <3>1, <1>3, <1>5 DEF ClientRecord
    <3>3. \/ k.state = "disconnected" /\ k.conn = "none" /\ Len(k.timers) = 1
          \/ k.state = "connected" /\ k.timers = <<>> /\ k.conn \in {"connected", "fin"}
      BY <2>1, <1>4, <1>5 DEF LeadsOn, AwaitsRetry, Attempting, HasConnection, GaveUp
    <3> QED
      BY <3>2, <3>3 DEF LeadsOn, AwaitsRetry, HasConnection
  <2>2. CASE /\ Head(running) = "connectDestroyed"
             /\ \E answer \in Answers : client' = RemoveConnection(client, answer)
    <3>1. PICK answer \in {"progress", "again", "fatal"} : x = RemoveConnection(k, answer)
      BY <2>2, <1>1, <1>2, AnswersAre
    <3>2. HasConnection(k, "connectDestroyed")
      BY <2>2, <1>4, <1>5 DEF LeadsOn, AwaitsRetry, Attempting, HasConnection, GaveUp
    <3> QED
      BY <3>1, <3>2, <1>3, <1>5, RemovedGives
  <2> QED
    BY <2>1, <2>2 DEF RunFunctor
<1>7. PendingFunctor(x, running') = "none"
  BY <1>4, <1>6 DEF PendingFunctor
<1>8. RoundOK'
  BY <1>2, <1>3, <1>4, <1>6 DEF RoundOK
<1>9. ReportsHold'
  BY <1>3 DEF ReportsHold
<1>10. Somewhere'
  BY <1>2, <1>3, <1>6, <1>7 DEF Somewhere
<1> QED
  BY <1>2, <1>6, <1>8, <1>9, <1>10 DEF ClientInv

\* A step after which the client is where it was.
LEMMA Stays ==
    ASSUME ClientInv, client' \in ClientRecord, running' = running,
           hotel \notin {"ended", "destroyed"}, hotel' = hotel, reported' = reported,
           client'.state = client.state, client'.session = client.session,
           client'.queue = client.queue, client'.stuck = client.stuck,
           client'.failed = client.failed, client'.lost = client.lost,
           client'.retry = client.retry, Len(client'.timers) = Len(client.timers),
           PendingFunctor(client, running) = "none" \/ client'.timers = client.timers,
           client'.conn = client.conn \/ (client.conn = "connected" /\ client'.conn = "fin"),
           client'.sock = client.sock \/ (client.sock = "progress" /\ client'.sock # "none")
    PROVE  ClientInv'
<1>1. PICK x : x = client'
  OBVIOUS
<1>2. PICK p : p = PendingFunctor(client, running)
  OBVIOUS
<1>3. client \in ClientRecord /\ RoundOK /\ ReportsHold /\ Somewhere /\ ~client.failed
  BY DEF ClientInv
<1>4. client.timers \in Seq(Nat) /\ x.timers \in Seq(Nat)
  BY <1>1, <1>3 DEF ClientRecord
<1>5. client.timers = <<>> => x.timers = <<>>
  BY <1>1, <1>4
<1>6. PendingFunctor(x, running') = p
  BY <1>1, <1>2 DEF PendingFunctor
<1>7. Unstarted(client, p) => Unstarted(x, p)
  BY <1>1, <1>5 DEF Unstarted
<1>8. AwaitsRetry(client, p) => AwaitsRetry(x, p)
  BY <1>1, <1>2, <1>5 DEF AwaitsRetry
<1>9. /\ Attempting(client, p) => Attempting(x, p)
      /\ HasConnection(client, p) => HasConnection(x, p)
      /\ GaveUp(client, p) => GaveUp(x, p)
  <2>1. Attempting(client, p) => Attempting(x, p)
    BY <1>1, <1>5 DEF Attempting
  <2>2. HasConnection(client, p) => HasConnection(x, p)
    BY <1>1, <1>5 DEF HasConnection
  <2>3. GaveUp(client, p) => GaveUp(x, p)
    BY <1>1, <1>5 DEF GaveUp
  <2> QED
    BY <2>1, <2>2, <2>3
<1>10. LeadsOn(client, p) => LeadsOn(x, p)
  <2> SUFFICES ASSUME LeadsOn(client, p) PROVE LeadsOn(x, p)
    OBVIOUS
  <2>1. AwaitsRetry(client, p) \/ Attempting(client, p) \/ HasConnection(client, p) \/ GaveUp(client, p)
    BY DEF LeadsOn
  <2>2. CASE AwaitsRetry(client, p)
    BY <2>2, <1>8 DEF LeadsOn
  <2>3. CASE Attempting(client, p)
    BY <2>3, <1>9 DEF LeadsOn
  <2>4. CASE HasConnection(client, p)
    BY <2>4, <1>9 DEF LeadsOn
  <2>5. CASE GaveUp(client, p)
    BY <2>5, <1>9 DEF LeadsOn
  <2> QED
    BY <2>1, <2>2, <2>3, <2>4, <2>5
<1>11. RoundOK'
  BY <1>1, <1>3 DEF RoundOK
<1>12. ReportsHold'
  <2>1. Attempting(client, "none") => Attempting(x, "none")
    BY <1>1, <1>5 DEF Attempting
  <2>2. client.sock # "progress" => x.sock = client.sock
    BY <1>1
  <2>3. client.conn = "fin" => x.conn = "fin"
    BY <1>1
  <2> QED
    BY <2>1, <2>2, <2>3, <1>1, <1>3 DEF ReportsHold
<1>13. Somewhere'
  BY <1>1, <1>2, <1>3, <1>6, <1>7, <1>10 DEF Somewhere
<1> QED
  BY <1>3, <1>11, <1>12, <1>13 DEF ClientInv

LEMMA OutsideStep ==
    ASSUME ClientInv, FlipServer \/ Resolve \/ ServerCloses
    PROVE  ClientInv'
<1>1. PICK x : x = client'
  OBVIOUS
<1>2. client \in ClientRecord /\ hotel \notin {"ended", "destroyed"}
  BY DEF ClientInv, Alive, FlipServer, Resolve, ServerCloses
<1>3. UNCHANGED <<hotel, reported, running>>
  BY DEF FlipServer, Resolve, ServerCloses
<1>4. CASE FlipServer
  <2>1. x = client
    BY <1>1, <1>4 DEF FlipServer
  <2> QED
    BY <2>1, <1>1, <1>2, <1>3, Stays
<1>5. CASE Resolve
  <2>1. PICK how \in {"ok", "refused", "self"} : x = [client EXCEPT !.sock = how]
    BY <1>1, <1>5 DEF Resolve
  <2>2. client.sock = "progress"
    BY <1>5 DEF Resolve
  <2>3. /\ x \in ClientRecord /\ x.sock = how /\ x.state = client.state /\ x.session = client.session
        /\ x.queue = client.queue /\ x.timers = client.timers /\ x.stuck = client.stuck
        /\ x.failed = client.failed /\ x.lost = client.lost /\ x.retry = client.retry
        /\ x.conn = client.conn
    BY <2>1, <1>2 DEF ClientRecord
  <2> QED
    BY <2>2, <2>3, <1>1, <1>2, <1>3, Stays
<1>6. CASE ServerCloses
  <2>1. x = [client EXCEPT !.conn = "fin"] /\ client.conn = "connected"
    BY <1>1, <1>6 DEF ServerCloses
  <2>2. /\ x \in ClientRecord /\ x.sock = client.sock /\ x.state = client.state
        /\ x.session = client.session /\ x.queue = client.queue /\ x.timers = client.timers
        /\ x.stuck = client.stuck /\ x.failed = client.failed /\ x.lost = client.lost
        /\ x.retry = client.retry /\ x.conn = "fin"
    BY <2>1, <1>2 DEF ClientRecord
  <2> QED
    BY <2>1, <2>2, <1>1, <1>2, <1>3, Stays
<1> QED
  BY <1>4, <1>5, <1>6

\* Time passes between two rounds only.
LEMMA TickStep == ASSUME ClientInv, ~SlowHandlers, Tick PROVE ClientInv'
<1>1. PICK x : x = client'
  OBVIOUS
<1>2. /\ client \in ClientRecord /\ hotel = "poll" /\ UNCHANGED <<hotel, reported, running>>
      /\ x = [client EXCEPT !.timers =
                 [i \in DOMAIN client.timers |->
                      IF client.timers[i] > 0 THEN client.timers[i] - 1 ELSE 0]]
  BY <1>1 DEF Tick, ClientInv
<1>3. PICK s \in Seq(Nat) : s = client.timers
  BY <1>2 DEF ClientRecord
<1>4. PICK t : t = [i \in DOMAIN s |-> IF s[i] > 0 THEN s[i] - 1 ELSE 0]
  OBVIOUS
<1>5. t \in Seq(Nat) /\ Len(t) = Len(s)
  BY <1>4
<1>6. x = [client EXCEPT !.timers = t]
  BY <1>2, <1>3, <1>4
<1>7. /\ x \in ClientRecord /\ x.timers = t /\ x.sock = client.sock /\ x.state = client.state
      /\ x.session = client.session /\ x.queue = client.queue /\ x.conn = client.conn
      /\ x.stuck = client.stuck /\ x.failed = client.failed /\ x.lost = client.lost
      /\ x.retry = client.retry
  BY <1>2, <1>5, <1>6 DEF ClientRecord
<1>8. PendingFunctor(client, running) = "none"
  BY <1>2, Quiet DEF ClientInv
<1> QED
  BY <1>1, <1>2, <1>3, <1>5, <1>7, <1>8, Stays

LEMMA PollStep == ASSUME ClientInv, Poll PROVE ClientInv'
<1>1. /\ hotel = "poll" /\ hotel' = "events" /\ UNCHANGED <<client, running>>
      /\ client.queue = <<>> /\ running = <<>> /\ PendingFunctor(client, running) = "none"
  BY Quiet DEF Poll, ClientInv
<1>2. reported' \subseteq Ready \cup {"timer"}
  BY DEF Poll
<1>3. RoundOK'
  BY <1>1, <1>2 DEF RoundOK, ClientInv, Ready
<1>4. ReportsHold'
  <2>1. \/ Unstarted(client, "none") \/ LeadsOn(client, "none")
    BY <1>1 DEF ClientInv, Somewhere
  <2>2. ASSUME "connector" \in reported'
        PROVE  Attempting(client, "none") /\ client.sock # "progress"
    <3>1. client.session = "on" /\ client.sock \in {"ok", "self", "refused"}
      BY <2>2, <1>2 DEF Ready
    <3> QED
      BY <3>1, <2>1 DEF Unstarted, LeadsOn, AwaitsRetry, Attempting, HasConnection, GaveUp
  <2>3. ASSUME "connection" \in reported' PROVE client.conn = "fin" /\ client.session = "none"
    <3>1. client.conn = "fin"
      BY <2>3, <1>2 DEF Ready
    <3> QED
      BY <3>1, <2>1 DEF Unstarted, LeadsOn, AwaitsRetry, Attempting, HasConnection, GaveUp
  <2> QED
    BY <2>2, <2>3, <1>1 DEF ReportsHold
<1>5. Somewhere'
  BY <1>1 DEF ClientInv, Somewhere
<1> QED
  BY <1>1, <1>3, <1>4, <1>5 DEF ClientInv

LEMMA LoopEnds ==
    ASSUME ClientInv, EndRound \/ QuitLoop \/ DestroyClient
    PROVE  ClientInv'
<1>1. CASE EndRound
  <2>1. /\ hotel = "functors" /\ hotel' = "poll" /\ running = <<>> /\ reported = {}
        /\ UNCHANGED <<client, reported, running>> /\ client.queue = <<>>
    BY <1>1 DEF EndRound, ClientInv, RoundOK
  <2>2. RoundOK' /\ ReportsHold' /\ Somewhere'
    BY <2>1 DEF ClientInv, RoundOK, ReportsHold, Somewhere
  <2> QED
    BY <2>1, <2>2 DEF ClientInv
<1>2. CASE QuitLoop
  <2>1. RoundOK' /\ ReportsHold' /\ Somewhere' /\ UNCHANGED client
    BY <1>2 DEF QuitLoop, ClientInv, RoundOK, ReportsHold, Somewhere
  <2> QED
    BY <2>1 DEF ClientInv
<1>3. CASE DestroyClient
  <2>1. PICK x : x = client'
    OBVIOUS
  <2>2. /\ client \in ClientRecord /\ ~client.failed
        /\ x = [client EXCEPT !.conn = "none", !.session = "none"]
    BY <1>3, <2>1 DEF DestroyClient, ClientInv
  <2>3. x \in ClientRecord /\ ~x.failed /\ x.queue = client.queue
    BY <2>2 DEF ClientRecord
  <2>4. /\ hotel = "ended" /\ hotel' = "destroyed" /\ UNCHANGED <<reported, running>>
        /\ client.queue = <<>> /\ running = <<>> /\ reported = {}
    BY <1>3 DEF DestroyClient, ClientInv, RoundOK
  <2>5. RoundOK' /\ ReportsHold' /\ Somewhere'
    BY <2>1, <2>3, <2>4 DEF RoundOK, ReportsHold, Somewhere
  <2> QED
    BY <2>1, <2>3, <2>5 DEF ClientInv
<1> QED
  BY <1>1, <1>2, <1>3

LEMMA ClientStep == ClientInv /\ ~SlowHandlers /\ [ClientNext]_clientVars => ClientInv'
<1> SUFFICES ASSUME ClientInv, ~SlowHandlers, [ClientNext]_clientVars PROVE ClientInv'
  OBVIOUS
<1>1. CASE UNCHANGED clientVars
  <2>1. UNCHANGED <<client, hotel, reported, running>>
    BY <1>1 DEF clientVars
  <2>2. RoundOK' /\ ReportsHold' /\ Somewhere'
    BY <2>1 DEF ClientInv, RoundOK, ReportsHold, Somewhere
  <2> QED
    BY <2>1, <2>2 DEF ClientInv
<1>2. CASE ClientNext
  BY <1>2, ConnectStep, PollStep, ConnectorStep, TimerStep, ConnectionStep, SwapStep, FunctorStep,
     LoopEnds, OutsideStep, TickStep DEF ClientNext, LoopStep
<1> QED
  BY <1>1, <1>2

\* From connect on exactly one thing leads on, a timer, an attempt that is watched for or
\* a connection, and no assert of the Connector fails (Connector::handleWrite, handleError,
\* retry, TcpClient::removeConnection), if no round of the loop lasts as long as a delay.
THEOREM OneThingLeadsOn == ASSUME ~SlowHandlers PROVE ClientSpec => []OneAttempt
<1>1. ClientInit => ClientInv
  BY FreshClient
<1>2. ClientInv /\ [ClientNext]_clientVars => ClientInv'
  BY ClientStep
<1>3. ClientInv => OneAttempt
  <2> SUFFICES ASSUME ClientInv PROVE OneAttempt
    OBVIOUS
  <2>1. ~client.failed /\ client.timers \in Seq(Nat)
    BY DEF ClientInv, ClientRecord
  <2>2. ASSUME Alive, hotel # "idle", ~client.stuck
        PROVE  \/ \E a \in Attempts : Attempts = {a}
               \/ client.lost /\ ~client.retry /\ Attempts = {}
    <3>1. LeadsOn(client, PendingFunctor(client, running))
      BY <2>2 DEF ClientInv, Somewhere, Alive
    <3>2. CASE AwaitsRetry(client, PendingFunctor(client, running))
      <4>1. DOMAIN client.timers = {1}
        BY <2>1, <3>2 DEF AwaitsRetry
      <4>2. Attempts = {<<"timer", 1>>}
        BY <4>1, <3>2 DEF AwaitsRetry, Attempts
      <4> QED
        BY <4>2
    <3>3. CASE Attempting(client, PendingFunctor(client, running))
      <4>1. Attempts = {<<"session", 0>>}
        BY <3>3 DEF Attempting, Attempts
      <4> QED
        BY <4>1
    <3>4. CASE HasConnection(client, PendingFunctor(client, running))
      <4>1. Attempts = {<<"connection", 0>>}
        BY <3>4 DEF HasConnection, Attempts
      <4> QED
        BY <4>1
    <3>5. CASE GaveUp(client, PendingFunctor(client, running))
      BY <3>5 DEF GaveUp, Attempts
    <3> QED
      BY <3>1, <3>2, <3>3, <3>4, <3>5 DEF LeadsOn
  <2> QED
    BY <2>1, <2>2 DEF OneAttempt
<1> QED
  BY <1>1, <1>2, <1>3, PTL DEF ClientSpec

-----------------------------------------------------------------------------
(* The base tables                                                          *)

\* The place of a table in the order they are loaded in; a server that serves has
\* left them all behind.
PlaceOf(l) ==
    CASE l = "buf" -> 1 [] l = "item" -> 2 [] l = "pet" -> 3 [] l = "skill" -> 4
      [] OTHER -> 5

\* A number that is a short is read as it is.
LEMMA ShortIsKept == \A n \in Int : Short(n) \in Int /\ (InShort(n) => Short(n) = n)
  BY DEF Short, InShort

\* What an array holds of a row.
StoredRow(row) ==
    [id |-> row.id, num |-> ListRead(row.column).num, list |-> ListRead(row.column).list]

\* The array of a table has the rows that were fetched, in their order, and nothing yet
\* behind them.
HoldsRows(t) ==
    /\ bases[t].cur \in 0 .. Len(rowsOf[t])
    /\ bases[t].array = [i \in 1 .. BaseCapacity[t] |->
                           IF i <= bases[t].cur THEN StoredRow(rowsOf[t][i]) ELSE NullBase]

\* If the tables are in order nothing is written past an array, and the tables that
\* are behind are whole.
BasesLoad ==
    Orderly =>
        /\ loading \in BaseTable \cup {"served", "failed"}
        /\ bases = [t \in BaseTable |-> bases[t]]
        /\ \A t \in BaseTable : HoldsRows(t)
        /\ loading # "failed" =>
              \A t \in BaseTable : PlaceOf(t) < PlaceOf(loading) => bases[t].cur = Len(rowsOf[t])

BaseInv == rowsOf \in Contents /\ BasesLoad

LEMMA TableNames == BaseTable = {"buf", "item", "pet", "skill"}
  BY DEF BaseTable, LoadOrder

\* The rows of a table, the columns of a row.
LEMMA RowsAreRows ==
    ASSUME rowsOf \in Contents, NEW t \in BaseTable
    PROVE  /\ rowsOf[t] \in Seq([id : Int, column : Seq(Int)])
           /\ Len(rowsOf[t]) \in Nat /\ DOMAIN rowsOf[t] = 1 .. Len(rowsOf[t])
           /\ BaseCapacity[t] \in Nat /\ ListCapacity[t] \in Nat
           /\ \A i \in 1 .. Len(rowsOf[t]) :
                 rowsOf[t][i] \in [id : Int, column : Seq(Int)]
<1>1. rowsOf \in [BaseTable -> Seq([id : Int, column : Seq(Int)])]
  BY BaseAssumption
<1>2. rowsOf[t] \in Seq([id : Int, column : Seq(Int)])
  BY <1>1
<1>3. BaseCapacity[t] \in Nat /\ ListCapacity[t] \in Nat
  BY BaseAssumption
<1>4. \A i \in 1 .. Len(rowsOf[t]) : rowsOf[t][i] \in [id : Int, column : Seq(Int)]
  BY <1>2, ElementOfSeq
<1>5. Len(rowsOf[t]) \in Nat /\ DOMAIN rowsOf[t] = 1 .. Len(rowsOf[t])
  BY <1>2
<1> QED
  BY <1>2, <1>3, <1>4, <1>5

\* The length of a column.
LEMMA LengthIsNat == ASSUME NEW q \in Seq(Int) PROVE Len(q) \in Nat
OBVIOUS

\* A turn of the loop puts the next row behind those that are there.
LEMMA FetchKeeps ==
    ASSUME BaseInv, NEW t \in BaseTable, FetchRow(t)
    PROVE  BaseInv'
<1>1. rowsOf' = rowsOf /\ rowsOf' \in Contents
  BY DEF FetchRow, BaseInv
<1>2. SUFFICES ASSUME Orderly PROVE BasesLoad'
  BY <1>1 DEF BaseInv, BasesLoad, Orderly
<1>3. /\ loading = t /\ bases = [u \in BaseTable |-> bases[u]]
      /\ \A u \in BaseTable : HoldsRows(u)
      /\ \A u \in BaseTable : PlaceOf(u) < PlaceOf(t) => bases[u].cur = Len(rowsOf[u])
  <2>1. loading = t
    BY DEF FetchRow
  <2>2. t # "failed"
    BY TableNames
  <2> QED
    BY <1>2, <2>1, <2>2 DEF BaseInv, BasesLoad
<1>4. /\ rowsOf[t] \in Seq([id : Int, column : Seq(Int)])
      /\ Len(rowsOf[t]) \in Nat /\ DOMAIN rowsOf[t] = 1 .. Len(rowsOf[t])
      /\ BaseCapacity[t] \in Nat /\ ListCapacity[t] \in Nat
      /\ \A i \in 1 .. Len(rowsOf[t]) : rowsOf[t][i] \in [id : Int, column : Seq(Int)]
  BY RowsAreRows DEF BaseInv
<1> DEFINE n == bases[t].cur
           row == rowsOf[t][n + 1]
           one == [id |-> row.id, num |-> ListRead(row.column).num,
                   list |-> ListRead(row.column).list]
<1>5. n \in Nat /\ n < Len(rowsOf[t]) /\ n + 1 \in 1 .. Len(rowsOf[t])
  <2>1. n \in Nat
    <3>1. HoldsRows(t) /\ Len(rowsOf[t]) \in Nat
      BY <1>3, <1>4
    <3> QED
      BY <3>1 DEF HoldsRows
  <2>2. n < Len(rowsOf[t])
    BY DEF FetchRow
  <2> QED
    BY SMTT(30), <1>4, <2>1, <2>2
<1>6. n < BaseCapacity[t] /\ ListRead(row.column).num <= ListCapacity[t]
  <2>1. Len(rowsOf[t]) <= BaseCapacity[t] /\ row.column # <<>> /\ row.column[1] <= ListCapacity[t]
    BY <1>2, <1>4, <1>5 DEF Orderly
  <2>2. row.column \in Seq(Int)
    BY <1>4, <1>5
  <2>3. Len(row.column) >= 1
    BY <2>1, <2>2
  <2>4. GetShort(row.column, 1) = row.column[1]
    <3>1. 1 \in DOMAIN row.column /\ row.column[1] \in Int
      BY <2>2, <2>3
    <3>2. InShort(row.column[1])
      BY <1>2, <1>4, <1>5, <3>1 DEF Orderly
    <3>3. Short(row.column[1]) = row.column[1]
      BY <3>1, <3>2, ShortIsKept
    <3> QED
      BY <2>2, <2>3, <3>3 DEF GetShort
  <2> QED
    BY <1>4, <1>5, <2>1, <2>4 DEF ListRead
<1>7. /\ bases' = [bases EXCEPT ![t] = [cur |-> n + 1, array |-> [bases[t].array EXCEPT ![n + 1] = one]]]
      /\ loading' = t
  <2>1. ~(n >= BaseCapacity[t] \/ ListRead(row.column).num > ListCapacity[t])
    <3>1. ListRead(row.column).num \in Int
      <4>1. row.column \in Seq(Int)
        BY <1>4, <1>5
      <4>2. ASSUME NEW i \in 1 .. Len(row.column) PROVE Short(row.column[i]) \in Int
        <5>1. row.column[i] \in Int
          BY <4>1, <4>2, ElementOfSeq
        <5>2. Short(row.column[i]) \in Int
          BY <5>1, ShortIsKept
        <5> QED
          BY <5>2
      <4>3. Len(row.column) \in Nat
        BY <4>1, LengthIsNat
      <4>4. GetShort(row.column, 1) \in Int
        BY <4>2, <4>3 DEF GetShort
      <4> QED
        BY <4>4 DEF ListRead
    <3> QED
      BY <1>4, <1>5, <1>6, <3>1
  <2> QED
    BY <1>3, <2>1 DEF FetchRow
<1>8. /\ bases'[t] = [cur |-> n + 1, array |-> [bases[t].array EXCEPT ![n + 1] = one]]
      /\ \A u \in BaseTable \ {t} : bases'[u] = bases[u]
      /\ bases' = [u \in BaseTable |-> bases'[u]]
  BY <1>3, <1>7
<1>9. \A u \in BaseTable : HoldsRows(u)'
  <2>1. ASSUME NEW u \in BaseTable \ {t} PROVE HoldsRows(u)'
    BY <1>1, <1>3, <1>8, <2>1 DEF HoldsRows
  <2>2. HoldsRows(t)'
    <3>1. bases[t].array = [i \in 1 .. BaseCapacity[t] |->
                              IF i <= n THEN StoredRow(rowsOf[t][i]) ELSE NullBase]
      BY <1>3 DEF HoldsRows
    <3>2. one = StoredRow(row)
      BY DEF StoredRow
    <3>3. [bases[t].array EXCEPT ![n + 1] = one]
            = [i \in 1 .. BaseCapacity[t] |->
                 IF i <= n + 1 THEN StoredRow(rowsOf[t][i]) ELSE NullBase]
      <4>1. ASSUME NEW i \in 1 .. BaseCapacity[t]
            PROVE  [bases[t].array EXCEPT ![n + 1] = one][i]
                      = IF i <= n + 1 THEN StoredRow(rowsOf[t][i]) ELSE NullBase
        <5>1. CASE i = n + 1
          BY <1>4, <1>5, <3>1, <3>2, <5>1
        <5>2. CASE i # n + 1
          <6>1. i <= n + 1 <=> i <= n
            BY SMTT(30), <1>4, <1>5, <5>2
          <6> QED
            BY <3>1, <5>2, <6>1
        <5> QED
          BY <5>1, <5>2
      <4>2. DOMAIN [bases[t].array EXCEPT ![n + 1] = one] = 1 .. BaseCapacity[t]
        BY <3>1
      <4>3. [bases[t].array EXCEPT ![n + 1] = one]
              = [i \in 1 .. BaseCapacity[t] |-> [bases[t].array EXCEPT ![n + 1] = one][i]]
        BY <3>1
      <4> QED
        BY <4>1, <4>3
    <3>4. bases'[t].cur = n + 1 /\ n + 1 \in 0 .. Len(rowsOf[t])
      BY <1>4, <1>5, <1>8
    <3>5. bases'[t].array = [bases[t].array EXCEPT ![n + 1] = one]
      BY <1>8
    <3> QED
      BY <1>1, <3>3, <3>4, <3>5 DEF HoldsRows
  <2> QED
    BY <2>1, <2>2
<1>10. \A u \in BaseTable : PlaceOf(u) < PlaceOf(t) => bases'[u].cur = Len(rowsOf[u])
  <2>1. PlaceOf(t) \in Nat
    BY TableNames DEF PlaceOf
  <2>2. \A u \in BaseTable : PlaceOf(u) < PlaceOf(t) => u # t
    BY <2>1
  <2>3. \A u \in BaseTable : u # t => bases'[u] = bases[u]
    BY <1>8
  <2>4. \A u \in BaseTable : PlaceOf(u) < PlaceOf(t) => bases[u].cur = Len(rowsOf[u])
    BY <1>3
  <2>5. TAKE u \in BaseTable
  <2>6. HAVE PlaceOf(u) < PlaceOf(t)
  <2>7. u # t
    BY <2>2, <2>6
  <2> QED
    BY <2>3, <2>4, <2>6, <2>7
<1> QED
  BY <1>1, <1>7, <1>8, <1>9, <1>10, TableNames DEF BasesLoad

LEMMA NextTableKeeps ==
    ASSUME BaseInv, NEW t \in BaseTable, NextTable(t)
    PROVE  BaseInv'
<1>1. /\ rowsOf' = rowsOf /\ bases' = bases /\ rowsOf' \in Contents
      /\ loading = t /\ bases[t].cur = Len(rowsOf[t])
  BY DEF NextTable, BaseInv
<1>2. PICK i \in 1 .. 4 : /\ LoadOrder[i] = t
                          /\ loading' = IF i = 4 THEN "served" ELSE LoadOrder[i + 1]
  <2> DEFINE j == CHOOSE j \in DOMAIN LoadOrder : LoadOrder[j] = t
  <2>1. DOMAIN LoadOrder = 1 .. 4 /\ Len(LoadOrder) = 4
    BY DEF LoadOrder
  <2>2. j \in DOMAIN LoadOrder /\ LoadOrder[j] = t
    BY DEF BaseTable
  <2>3. loading' = IF j = Len(LoadOrder) THEN "served" ELSE LoadOrder[j + 1]
    BY DEF NextTable
  <2> HIDE DEF j
  <2> QED
    BY <2>1, <2>2, <2>3
<1>3. /\ loading' \in BaseTable \cup {"served"} /\ loading' # "failed"
      /\ PlaceOf(t) \in 1 .. 4 /\ PlaceOf(loading') = PlaceOf(t) + 1
  <2>1. /\ LoadOrder[1] = "buf" /\ LoadOrder[2] = "item"
        /\ LoadOrder[3] = "pet" /\ LoadOrder[4] = "skill"
    BY DEF LoadOrder
  <2>2. i = 1 \/ i = 2 \/ i = 3 \/ i = 4
    BY <1>2
  <2>3. \/ (t = "buf" /\ loading' = "item")  \/ (t = "item" /\ loading' = "pet")
        \/ (t = "pet" /\ loading' = "skill") \/ (t = "skill" /\ loading' = "served")
    <3>1. CASE i = 1
      <4>1. loading' = LoadOrder[2]
        BY <1>2, <3>1
      <4> QED
        BY <1>2, <2>1, <3>1, <4>1
    <3>2. CASE i = 2
      <4>1. loading' = LoadOrder[3]
        BY <1>2, <3>2
      <4> QED
        BY <1>2, <2>1, <3>2, <4>1
    <3>3. CASE i = 3
      <4>1. loading' = LoadOrder[4]
        BY <1>2, <3>3
      <4> QED
        BY <1>2, <2>1, <3>3, <4>1
    <3>4. CASE i = 4
      BY <1>2, <2>1, <3>4
    <3> QED
      BY <2>2, <3>1, <3>2, <3>3, <3>4
  <2> QED
    BY <2>3, TableNames DEF PlaceOf
<1>4. SUFFICES ASSUME Orderly PROVE BasesLoad'
  BY <1>1 DEF BaseInv, BasesLoad, Orderly
<1>5. /\ bases = [u \in BaseTable |-> bases[u]]
      /\ \A u \in BaseTable : HoldsRows(u)
      /\ \A u \in BaseTable : PlaceOf(u) < PlaceOf(t) => bases[u].cur = Len(rowsOf[u])
  <2>1. t # "failed"
    BY TableNames
  <2> QED
    BY <1>1, <1>4, <2>1 DEF BaseInv, BasesLoad
<1>6. \A u \in BaseTable : PlaceOf(u) < PlaceOf(loading') => bases'[u].cur = Len(rowsOf'[u])
  <2>1. TAKE u \in BaseTable
  <2>2. PlaceOf(u) = PlaceOf(t) => u = t
    BY TableNames DEF PlaceOf
  <2>3. PlaceOf(u) \in 1 .. 4
    BY TableNames DEF PlaceOf
  <2>4. PlaceOf(u) < PlaceOf(loading') => PlaceOf(u) < PlaceOf(t) \/ u = t
    BY <1>3, <2>2, <2>3
  <2> QED
    BY <1>1, <1>5, <2>4
<1>7. \A u \in BaseTable : HoldsRows(u)'
  BY <1>1, <1>5 DEF HoldsRows
<1> QED
  BY <1>1, <1>3, <1>5, <1>6, <1>7 DEF BasesLoad

LEMMA QueryFailsKeeps ==
    ASSUME BaseInv, NEW t \in BaseTable, QueryFails(t)
    PROVE  BaseInv'
<1>1. rowsOf' = rowsOf /\ bases' = bases /\ rowsOf' \in Contents /\ loading' = "failed"
  BY DEF QueryFails, BaseInv
<1> QED
  BY <1>1 DEF BaseInv, BasesLoad, Orderly, HoldsRows

LEMMA BaseInitOK == BaseInit => BaseInv
<1>1. SUFFICES ASSUME BaseInit PROVE BaseInv
  OBVIOUS
<1>2. rowsOf \in Contents /\ loading = "buf"
  BY <1>1 DEF BaseInit
<1>3. ASSUME NEW t \in BaseTable PROVE HoldsRows(t) /\ bases[t].cur = 0
  <2>1. bases[t] = [cur |-> 0, array |-> [i \in 1 .. BaseCapacity[t] |-> NullBase]]
    BY <1>1 DEF BaseInit
  <2>2. Len(rowsOf[t]) \in Nat /\ BaseCapacity[t] \in Nat
    BY <1>2, RowsAreRows
  <2>3. [i \in 1 .. BaseCapacity[t] |-> NullBase]
          = [i \in 1 .. BaseCapacity[t] |-> IF i <= 0 THEN StoredRow(rowsOf[t][i]) ELSE NullBase]
    BY <2>2
  <2> QED
    BY <2>1, <2>2, <2>3 DEF HoldsRows
<1>5. bases = [t \in BaseTable |-> bases[t]]
  BY <1>1 DEF BaseInit
<1>6. \A t \in BaseTable : ~(PlaceOf(t) < PlaceOf("buf"))
  BY TableNames DEF PlaceOf
<1> QED
  BY <1>2, <1>3, <1>5, <1>6, TableNames DEF BaseInv, BasesLoad

LEMMA BaseStep == BaseInv /\ [BaseNext]_baseVars => BaseInv'
<1>1. SUFFICES ASSUME BaseInv, [BaseNext]_baseVars PROVE BaseInv'
  OBVIOUS
<1>2. CASE UNCHANGED baseVars
  BY <1>1, <1>2 DEF baseVars, BaseInv, BasesLoad, Orderly, HoldsRows
<1>3. CASE FetchBuf \/ FetchItem \/ FetchPet \/ FetchSkill
  BY <1>1, <1>3, FetchKeeps, TableNames DEF FetchBuf, FetchItem, FetchPet, FetchSkill
<1>4. CASE \E t \in BaseTable : NextTable(t) \/ QueryFails(t)
  BY <1>1, <1>4, NextTableKeeps, QueryFailsKeeps
<1> QED
  BY <1>1, <1>2, <1>3, <1>4 DEF BaseNext

-----------------------------------------------------------------------------
\* What is stored of the row of an id is the list the database has for it.
LEMMA StoredIsInDb ==
    ASSUME rowsOf \in Contents, Orderly, NEW t \in BaseTable,
           NEW id \in 1 .. Len(rowsOf[t])
    PROVE  ListOf(StoredRow(rowsOf[t][id])) = ListInDb(t, id)
<1> DEFINE column == rowsOf[t][id].column
           rows == {i \in DOMAIN rowsOf[t] : rowsOf[t][i].id = id}
<1>1. /\ Len(rowsOf[t]) \in Nat /\ DOMAIN rowsOf[t] = 1 .. Len(rowsOf[t])
      /\ rowsOf[t][id] \in [id : Int, column : Seq(Int)]
  BY RowsAreRows
<1>2. rows = {id}
  BY <1>1 DEF Orderly
<1>3. ListInDb(t, id) = {column[i] : i \in 2 .. Len(column)}
  <2>1. (CHOOSE i \in rows : TRUE) = id /\ rows # {}
    BY <1>2
  <2> QED
    BY <2>1 DEF ListInDb
<1>4. /\ column \in Seq(Int) /\ Len(column) \in Nat /\ Len(column) >= 1
      /\ column[1] = Len(column) - 1
  <2>1. column \in Seq(Int)
    BY <1>1
  <2>2. column # <<>> /\ column[1] = Len(column) - 1
    BY <1>1 DEF Orderly
  <2> QED
    BY <2>1, <2>2
<1>9. \A i \in 1 .. Len(column) : Short(column[i]) = column[i]
  <2>1. ASSUME NEW i \in 1 .. Len(column) PROVE InShort(column[i]) /\ column[i] \in Int
    <3>1. i \in DOMAIN column /\ column[i] \in Int
      BY <1>4
    <3> QED
      BY <1>1, <3>1 DEF Orderly
  <2> QED
    BY <2>1, ShortIsKept
<1>5. GetShort(column, 1) = Len(column) - 1
  BY <1>4, <1>9 DEF GetShort
<1>6. \A i \in 1 .. Len(column) - 1 : GetShort(column, i + 1) = column[i + 1]
  <2>1. ASSUME NEW i \in 1 .. Len(column) - 1
        PROVE  i + 1 \in 1 .. Len(column) /\ ~(i + 1 > Len(column))
    BY <1>4
  <2> QED
    BY <1>9, <2>1 DEF GetShort
<1>7. ListOf(StoredRow(rowsOf[t][id]))
        = {GetShort(column, i + 1) : i \in 1 .. Len(column) - 1}
  <2>1. /\ StoredRow(rowsOf[t][id]).num = Len(column) - 1
        /\ StoredRow(rowsOf[t][id]).list
              = [i \in 1 .. Len(column) - 1 |-> GetShort(column, i + 1)]
    BY <1>5 DEF StoredRow, ListRead
  <2>2. \A i \in 1 .. Len(column) - 1 :
           StoredRow(rowsOf[t][id]).list[i] = GetShort(column, i + 1)
    BY <2>1
  <2>3. ListOf(StoredRow(rowsOf[t][id]))
          = {StoredRow(rowsOf[t][id]).list[i] : i \in 1 .. Len(column) - 1}
    BY <2>1, Zenon DEF ListOf
  <2> QED
    BY <2>2, <2>3, Zenon
<1>8. {column[i + 1] : i \in 1 .. Len(column) - 1} = {column[i] : i \in 2 .. Len(column)}
  <2>1. ASSUME NEW i \in 2 .. Len(column) PROVE i - 1 \in 1 .. Len(column) - 1 /\ (i - 1) + 1 = i
    BY <1>4
  <2>2. ASSUME NEW i \in 1 .. Len(column) - 1 PROVE i + 1 \in 2 .. Len(column)
    BY <1>4
  <2>3. {column[i] : i \in 2 .. Len(column)} \subseteq {column[i + 1] : i \in 1 .. Len(column) - 1}
    BY <2>1
  <2>4. {column[i + 1] : i \in 1 .. Len(column) - 1} \subseteq {column[i] : i \in 2 .. Len(column)}
    BY <2>2
  <2> QED
    BY <2>3, <2>4
<1> QED
  BY <1>3, <1>6, <1>7, <1>8

\* No row has an id that is not a place.
LEMMA NothingElseInDb ==
    ASSUME rowsOf \in Contents, Orderly, NEW t \in BaseTable,
           NEW id \in Int, id \notin 1 .. Len(rowsOf[t])
    PROVE  ListInDb(t, id) = {}
<1>1. Len(rowsOf[t]) \in Nat /\ DOMAIN rowsOf[t] = 1 .. Len(rowsOf[t])
  BY RowsAreRows
<1>2. {i \in DOMAIN rowsOf[t] : rowsOf[t][i].id = id} = {}
  BY <1>1 DEF Orderly
<1> QED
  BY <1>2 DEF ListInDb

LEMMA NullHasNoList == NullBase.num = 0 /\ ListOf(NullBase) = {}
  BY DEF NullBase, ListOf

\* A served table is the rows of the database, up to the last.
LEMMA ServedRows ==
    ASSUME BaseInv, Orderly, loading = "served", NEW t \in BaseTable
    PROVE  /\ bases[t].cur = Len(rowsOf[t]) /\ Len(rowsOf[t]) <= BaseCapacity[t]
           /\ Len(rowsOf[t]) \in Nat /\ BaseCapacity[t] \in Nat
           /\ \A id \in 1 .. Len(rowsOf[t]) : bases[t].array[id] = StoredRow(rowsOf[t][id])
<1>1. PlaceOf(t) < PlaceOf("served")
  BY TableNames DEF PlaceOf
<1>2. HoldsRows(t) /\ bases[t].cur = Len(rowsOf[t])
  BY <1>1 DEF BaseInv, BasesLoad
<1>3. Len(rowsOf[t]) \in Nat /\ BaseCapacity[t] \in Nat /\ Len(rowsOf[t]) <= BaseCapacity[t]
  BY RowsAreRows DEF BaseInv, Orderly
<1>4. ASSUME NEW id \in 1 .. Len(rowsOf[t])
      PROVE  bases[t].array[id] = StoredRow(rowsOf[t][id])
  <2>1. id \in 1 .. BaseCapacity[t] /\ id <= bases[t].cur
    BY <1>2, <1>3
  <2> QED
    BY <1>2, <2>1 DEF HoldsRows
<1> QED
  BY <1>2, <1>3, <1>4

\* What a lookup finds for an id of a row, and that it finds nothing for no id.
LEMMA BaseAtFinds ==
    ASSUME BaseInv, Orderly, loading = "served", NEW t \in BaseTable,
           NEW limit \in Nat, NEW id \in Int, id <= Len(rowsOf[t]), bases[t].cur <= limit
    PROVE  ListOf(BaseAt(t, limit, id)) = ListInDb(t, id)
<1>1. CASE id <= 0
  <2>1. ListInDb(t, id) = {}
    <3>1. id \notin 1 .. Len(rowsOf[t])
      BY <1>1
    <3> QED
      BY <3>1, NothingElseInDb DEF BaseInv
  <2>2. BaseAt(t, limit, id) = NullBase
    BY <1>1 DEF BaseAt
  <2> QED
    BY <2>1, <2>2, NullHasNoList
<1>2. CASE id > 0
  <2>1. id \in 1 .. Len(rowsOf[t]) /\ ~(id <= 0 \/ id > limit)
    BY <1>2, ServedRows
  <2>2. BaseAt(t, limit, id) = StoredRow(rowsOf[t][id])
    BY <2>1, ServedRows DEF BaseAt
  <2> QED
    BY <2>1, <2>2, StoredIsInDb DEF BaseInv
<1> QED
  BY <1>1, <1>2

LEMMA BasesAreFoundInv == BaseInv => BasesAreFound
<1>1. SUFFICES ASSUME BaseInv, Orderly PROVE
        /\ loading # "wild"
        /\ loading = "served" =>
               /\ \A id \in -1 .. MaxBaseId : ListOf(GetBufBaseInfo(id)) = ListInDb("buf", id)
               /\ \A id \in -1 .. MaxBaseId : CheckItemId(id) => ListOf(GetItemBaseInfo(id)) = ListInDb("item", id)
               /\ \A id \in -1 .. MaxBaseId : CheckSkillId(id) => ListOf(GetSkillBaseInfo(id)) = ListInDb("skill", id)
               /\ \A id \in -1 .. MaxBaseId, skill \in 0 .. MaxBaseId :
                      CheckPetId(id) => (HasSkillBase(id, skill) <=> skill \in ListInDb("pet", id))
  BY DEF BasesAreFound
<1>2. loading # "wild"
  BY <1>1, TableNames DEF BaseInv, BasesLoad
<1>3. SUFFICES ASSUME loading = "served" PROVE
               /\ \A id \in -1 .. MaxBaseId : ListOf(GetBufBaseInfo(id)) = ListInDb("buf", id)
               /\ \A id \in -1 .. MaxBaseId : CheckItemId(id) => ListOf(GetItemBaseInfo(id)) = ListInDb("item", id)
               /\ \A id \in -1 .. MaxBaseId : CheckSkillId(id) => ListOf(GetSkillBaseInfo(id)) = ListInDb("skill", id)
               /\ \A id \in -1 .. MaxBaseId, skill \in 0 .. MaxBaseId :
                      CheckPetId(id) => (HasSkillBase(id, skill) <=> skill \in ListInDb("pet", id))
  BY <1>2
<1>4. /\ "buf" \in BaseTable /\ "item" \in BaseTable /\ "pet" \in BaseTable
      /\ "skill" \in BaseTable /\ MaxBaseId \in Nat
  BY TableNames, BaseAssumption
<1>5. \A t \in BaseTable : /\ bases[t].cur = Len(rowsOf[t]) /\ Len(rowsOf[t]) \in Nat
                           /\ bases[t].cur <= BaseCapacity[t] /\ BaseCapacity[t] \in Nat
  BY <1>1, <1>3, ServedRows
<1>6. \A id \in -1 .. MaxBaseId : id \in Int
  BY <1>4
<1>7. ASSUME NEW id \in -1 .. MaxBaseId PROVE ListOf(GetBufBaseInfo(id)) = ListInDb("buf", id)
  <2>1. CASE id <= Len(rowsOf["buf"])
    BY <1>1, <1>3, <1>4, <1>5, <1>6, <2>1, BaseAtFinds DEF GetBufBaseInfo
  <2>2. CASE id > Len(rowsOf["buf"])
    <3>1. id \notin 1 .. Len(rowsOf["buf"])
      BY <1>4, <1>5, <1>6, <2>2
    <3>2. GetBufBaseInfo(id) = NullBase
      BY <1>4, <1>5, <1>6, <2>2 DEF GetBufBaseInfo, BaseAt
    <3> QED
      BY <1>1, <1>4, <1>6, <3>1, <3>2, NullHasNoList, NothingElseInDb DEF BaseInv
  <2> QED
    BY <1>4, <1>5, <1>6, <2>1, <2>2
<1>8. ASSUME NEW id \in -1 .. MaxBaseId, CheckItemId(id)
      PROVE  ListOf(GetItemBaseInfo(id)) = ListInDb("item", id)
  <2>1. id <= Len(rowsOf["item"])
    BY <1>4, <1>5, <1>8 DEF CheckItemId
  <2> QED
    BY <1>1, <1>3, <1>4, <1>5, <1>6, <2>1, BaseAtFinds DEF GetItemBaseInfo
<1>9. ASSUME NEW id \in -1 .. MaxBaseId, CheckSkillId(id)
      PROVE  ListOf(GetSkillBaseInfo(id)) = ListInDb("skill", id)
  <2>1. id <= Len(rowsOf["skill"])
    BY <1>4, <1>5, <1>9 DEF CheckSkillId
  <2> QED
    BY <1>1, <1>3, <1>4, <1>5, <1>6, <2>1, BaseAtFinds DEF GetSkillBaseInfo
<1>10. ASSUME NEW id \in -1 .. MaxBaseId, NEW skill \in 0 .. MaxBaseId, CheckPetId(id)
       PROVE  HasSkillBase(id, skill) <=> skill \in ListInDb("pet", id)
  <2>1. id <= Len(rowsOf["pet"])
    BY <1>4, <1>5, <1>6, <1>10 DEF CheckPetId
  <2>2. ListOf(GetPetBaseInfo(id)) = ListInDb("pet", id)
    BY <1>1, <1>3, <1>4, <1>5, <1>6, <2>1, BaseAtFinds DEF GetPetBaseInfo
  <2>3. HasSkillBase(id, skill) <=> skill \in ListOf(GetPetBaseInfo(id))
    BY DEF HasSkillBase, ListOf
  <2> QED
    BY <2>2, <2>3
<1> QED
  BY <1>7, <1>8, <1>9, <1>10

\* A server that serves finds what the database has, for every content of the tables
\* and every capacity of the arrays: init() and the lookups of base/.
THEOREM BasesHoldTheDatabase == BaseSpec => []BasesAreFound
<1>1. BaseSpec => []BaseInv
  BY BaseInitOK, BaseStep, PTL DEF BaseSpec
<1> QED
  BY <1>1, BasesAreFoundInv, PTL

-----------------------------------------------------------------------------
(* The messages that lua scripts handle: what a delete takes with it         *)

Heap == {"none", "live", "freed", "twice"}

LuaOK ==
    /\ heap \in [Msg -> Heap]
    /\ whole \in [Msg -> Msg \cup {NoMsg}] /\ part1 \in [Msg -> Msg \cup {NoMsg}]
    /\ requests \in Seq([msg : Msg, kind : {"table", "script"}])
    /\ functors \in Seq(Msg \cup {NoMsg})
    /\ ud \in [Ud -> [msg : Msg \cup {NoMsg}, isDelete : BOOLEAN, held : BOOLEAN]]
    /\ deleted \in SUBSET Msg

\* A part is there as long as its whole, and only then.
PartsGoAlong ==
    \A y \in Msg : whole[y] # NoMsg => heap[y] = heap[whole[y]] /\ heap[y] # "none"

\* Roots that somebody is to delete.
Wanted(m) == heap[m] = "live" /\ m \notin lost /\ whole[m] = NoMsg

InRequests(list, m) == \E i \in 1 .. Len(list) : list[i].msg = m
InFunctors(list, m) == \E i \in 1 .. Len(list) : list[i] = m
InUserdata(d, m) == \E u \in Ud : d[u].isDelete /\ d[u].msg = m
Owned(m) == InRequests(requests, m) \/ InFunctors(functors, m) \/ InUserdata(ud, m)

OnceRequested(list) ==
    \A i, j \in 1 .. Len(list) : i # j => list[i].msg # list[j].msg
OnceReplied(list) ==
    \A i, j \in 1 .. Len(list) : i # j /\ list[i] # NoMsg => list[i] # list[j]
OnceHeld(d) ==
    \A u, v \in Ud : u # v /\ d[u].isDelete /\ d[v].isDelete /\ d[u].msg # NoMsg
                     => d[u].msg # d[v].msg

\* Nobody else does what one of them does.
OneOwner ==
    /\ OnceRequested(requests) /\ OnceReplied(functors) /\ OnceHeld(ud)
    /\ \A m \in Msg : /\ ~(InRequests(requests, m) /\ InFunctors(functors, m))
                      /\ ~(InRequests(requests, m) /\ InUserdata(ud, m))
                      /\ ~(InFunctors(functors, m) /\ InUserdata(ud, m))

LostStay == \A m \in Msg : m \in lost => whole[m] = NoMsg /\ heap[m] # "none"

\* What a script has deleted is gone with its parts, and no thread has it any more; the
\* rest is not deleted twice.
DeletedStay ==
    /\ \A m \in Msg : /\ m \in deleted => heap[m] \in {"freed", "twice"}
                      /\ m \in deleted => ~InRequests(requests, m) /\ ~InFunctors(functors, m)
                      /\ heap[m] = "twice" => m \in deleted
    /\ \A y \in Msg : whole[y] # NoMsg => (y \in deleted <=> whole[y] \in deleted)

\* Lua deletes what is no part; only parts, and what a script has deleted, can be used
\* when they are gone.
PartsBorrowed ==
    /\ \A u \in Ud : ud[u].msg # NoMsg =>
          heap[ud[u].msg] # "none" /\ (ud[u].isDelete <=> whole[ud[u].msg] = NoMsg)
    /\ \A p \in Msg : part1[p] # NoMsg => whole[part1[p]] # NoMsg
    /\ \A m \in wild : m = NoMsg \/ (m \in Msg /\ (m \in deleted \/ whole[m] # NoMsg))

OwnedRight == \A m \in Msg : m \notin deleted => (Owned(m) <=> Wanted(m))

LuaInv ==
    /\ LuaOK /\ PartsGoAlong /\ OneOwner /\ LostStay /\ OwnedRight
    /\ DeletedStay /\ PartsBorrowed

LEMMA MsgIsNat == Msg \in SUBSET Nat /\ NoMsg \notin Msg
BY LuaAssumption DEF Msg, NoMsg

\* A message is among what goes with it, and so is the whole of each other part that goes.
LEMMA BelowIs ==
    ASSUME NEW m \in Msg, whole \in [Msg -> Msg \cup {NoMsg}]
    PROVE  /\ m \in Below(m) /\ Below(m) \subseteq Msg
           /\ \A y \in Msg : whole[y] \in Below(m) => y \in Below(m)
           /\ \A y \in Below(m) : y # m => whole[y] \in Below(m)
<1>1. m \in Below(m) /\ Below(m) \subseteq Msg
  BY DEF Below
<1>2. ASSUME NEW y \in Msg, whole[y] \in Below(m)
      PROVE  y \in Below(m)
  <2>1. SUFFICES ASSUME NEW S \in SUBSET Msg, m \in S, \A z \in S : Parts(z) \subseteq S
                 PROVE  y \in S
    BY DEF Below
  <2>2. whole[y] \in S
    BY <1>2, <2>1 DEF Below
  <2> QED
    BY <2>1, <2>2 DEF Parts
<1>3. ASSUME NEW y \in Below(m), y # m
      PROVE  whole[y] \in Below(m)
  <2> DEFINE S == {m} \cup {x \in Below(m) : whole[x] \in Below(m)}
  <2>1. S \in SUBSET Msg /\ m \in S /\ S \subseteq Below(m)
    BY <1>1
  <2>2. ASSUME NEW z \in S, NEW x \in Parts(z)
        PROVE  x \in S
    <3>1. x \in Msg /\ whole[x] = z /\ z \in Below(m)
      BY <2>1, <2>2 DEF Parts
    <3>2. x \in Below(m)
      BY <1>2, <3>1
    <3> QED
      BY <3>1, <3>2
  <2>3. Below(m) \subseteq S
    <3> HIDE DEF S
    <3> QED
      BY <2>1, <2>2 DEF Below
  <2> QED
    BY <1>3, <2>3
<1> QED
  BY <1>1, <1>2, <1>3

\* All that goes with a message is in the state it is in.
LEMMA BelowAlike ==
    ASSUME NEW m \in Msg, LuaOK, PartsGoAlong
    PROVE  \A y \in Below(m) : heap[y] = heap[m]
<1> DEFINE S == {x \in Msg : heap[x] = heap[m]}
<1>1. S \in SUBSET Msg /\ m \in S
  OBVIOUS
<1>2. ASSUME NEW z \in S, NEW x \in Parts(z)
      PROVE  x \in S
  <2>1. x \in Msg /\ whole[x] = z /\ z \in Msg /\ heap[z] = heap[m]
    BY <1>2 DEF Parts
  <2>2. whole[x] # NoMsg
    BY <2>1, MsgIsNat
  <2> QED
    BY <2>1, <2>2 DEF PartsGoAlong
<1>3. Below(m) \subseteq S
  <2> HIDE DEF S
  <2> QED
    BY <1>1, <1>2 DEF Below
<1> QED
  BY <1>3

\* What is left of the invariant's part about the heap when a root is deleted.
LEMMA FreedRight ==
    ASSUME LuaOK, PartsGoAlong, NEW m \in Msg, whole[m] = NoMsg,
           NEW s, s = IF heap[m] = "live" THEN "freed" ELSE "twice"
    PROVE  /\ Freed(m) \in [Msg -> Heap]
           /\ \A x \in Msg : Freed(m)[x] = IF x \in Below(m) THEN s ELSE heap[x]
           /\ \A x \in Below(m) : heap[x] = heap[m]
           /\ \A y \in Msg : whole[y] # NoMsg =>
                 Freed(m)[y] = Freed(m)[whole[y]] /\ Freed(m)[y] # "none"
           /\ Freed(m)[m] = s
           /\ \A x \in Msg : whole[x] = NoMsg /\ x # m => Freed(m)[x] = heap[x]
<1>1. whole \in [Msg -> Msg \cup {NoMsg}] /\ heap \in [Msg -> Heap]
  BY DEF LuaOK
<1>2. PICK B : B = Below(m)
  OBVIOUS
<1>3. /\ m \in B /\ B \subseteq Msg
      /\ \A y \in Msg : whole[y] \in B => y \in B
      /\ \A y \in B : y # m => whole[y] \in B
  BY <1>1, <1>2, BelowIs
<1>4. \A y \in B : heap[y] = heap[m]
  BY <1>2, BelowAlike
<1>5. PICK h : h = Freed(m)
  OBVIOUS
<1>6. h = [x \in Msg |-> IF x \in B THEN s ELSE heap[x]]
  BY <1>2, <1>4, <1>5 DEF Freed
<1>7. h \in [Msg -> Heap] /\ h[m] = s /\ \A x \in Msg : h[x] = IF x \in B THEN s ELSE heap[x]
  BY <1>1, <1>3, <1>6 DEF Heap
<1>8. ASSUME NEW y \in Msg, whole[y] # NoMsg
      PROVE  h[y] = h[whole[y]] /\ h[y] # "none"
  <2>1. heap[y] = heap[whole[y]] /\ heap[y] # "none" /\ whole[y] \in Msg /\ y # m
    BY <1>1, <1>8 DEF PartsGoAlong
  <2>2. y \in B <=> whole[y] \in B
    BY <1>3, <2>1
  <2> QED
    BY <1>6, <2>1, <2>2
<1>9. \A x \in Msg : whole[x] = NoMsg /\ x # m => h[x] = heap[x]
  BY <1>3, <1>6, MsgIsNat
<1> QED
  BY <1>2, <1>4, <1>5, <1>7, <1>8, <1>9

-----------------------------------------------------------------------------
(* Owners that come and go                                                   *)

Req == [msg : Msg, kind : {"table", "script"}]
Userdata == [msg : Msg \cup {NoMsg}, isDelete : BOOLEAN, held : BOOLEAN]

LEMMA RequestJoins ==
    ASSUME NEW list \in Seq(Req), NEW r \in Req, OnceRequested(list), ~InRequests(list, r.msg)
    PROVE  /\ Append(list, r) \in Seq(Req) /\ OnceRequested(Append(list, r))
           /\ \A m \in Msg : InRequests(Append(list, r), m) <=> InRequests(list, m) \/ m = r.msg
<1>1. PICK q : q = Append(list, r)
  OBVIOUS
<1>2. /\ q \in Seq(Req) /\ Len(list) \in Nat /\ Len(q) = Len(list) + 1 /\ q[Len(q)] = r
      /\ \A i \in 1 .. Len(list) : q[i] = list[i]
  BY <1>1
<1>3. \A i \in 1 .. Len(q) : i \in 1 .. Len(list) \/ i = Len(q)
  BY <1>2
<1>4. OnceRequested(q)
  <2>1. \A i \in 1 .. Len(list) : list[i].msg # r.msg
    BY DEF InRequests
  <2> QED
    BY <1>2, <1>3, <2>1 DEF OnceRequested
<1>5. \A m \in Msg : InRequests(q, m) <=> InRequests(list, m) \/ m = r.msg
  <2>1. Len(q) \in 1 .. Len(q) /\ \A i \in 1 .. Len(list) : i \in 1 .. Len(q)
    BY <1>2
  <2> QED
    BY <1>2, <1>3, <2>1 DEF InRequests
<1> QED
  BY <1>1, <1>2, <1>4, <1>5

LEMMA RequestGoes ==
    ASSUME NEW list \in Seq(Req), list # <<>>, OnceRequested(list)
    PROVE  /\ Tail(list) \in Seq(Req) /\ OnceRequested(Tail(list))
           /\ Head(list) \in Req /\ InRequests(list, Head(list).msg)
           /\ \A m \in Msg : InRequests(Tail(list), m) <=> InRequests(list, m) /\ m # Head(list).msg
<1>1. PICK q : q = Tail(list)
  OBVIOUS
<1>2. /\ q \in Seq(Req) /\ Len(list) \in Nat /\ Len(list) > 0 /\ Len(q) = Len(list) - 1
      /\ Head(list) = list[1] /\ \A i \in 1 .. Len(q) : q[i] = list[i + 1]
  BY <1>1
<1>3. 1 \in 1 .. Len(list) /\ \A i \in 1 .. Len(q) : i + 1 \in 1 .. Len(list) /\ i + 1 # 1
  BY <1>2
<1>4. \A i \in 1 .. Len(list) : i = 1 \/ \E j \in 1 .. Len(q) : i = j + 1
  <2>1. ASSUME NEW i \in 1 .. Len(list), i # 1
        PROVE  i - 1 \in 1 .. Len(q) /\ i = (i - 1) + 1
    BY <1>2, <2>1
  <2> QED
    BY <2>1
<1>5. OnceRequested(q)
  <2>1. ASSUME NEW i \in 1 .. Len(q), NEW j \in 1 .. Len(q), i # j
        PROVE  q[i].msg # q[j].msg
    <3>1. i + 1 # j + 1
      BY <2>1
    <3> QED
      BY <1>2, <1>3, <3>1 DEF OnceRequested
  <2> QED
    BY <2>1 DEF OnceRequested
<1>6. \A m \in Msg : InRequests(q, m) <=> InRequests(list, m) /\ m # Head(list).msg
  <2>1. ASSUME NEW m \in Msg, InRequests(q, m) PROVE InRequests(list, m) /\ m # Head(list).msg
    <3>1. PICK i \in 1 .. Len(q) : q[i].msg = m
      BY <2>1 DEF InRequests
    <3>2. list[i + 1].msg = m /\ i + 1 \in 1 .. Len(list) /\ i + 1 # 1
      BY <1>2, <1>3, <3>1
    <3> QED
      BY <1>2, <1>3, <3>2 DEF InRequests, OnceRequested
  <2>2. ASSUME NEW m \in Msg, InRequests(list, m), m # Head(list).msg PROVE InRequests(q, m)
    <3>1. PICK i \in 1 .. Len(list) : list[i].msg = m
      BY <2>2 DEF InRequests
    <3>2. PICK j \in 1 .. Len(q) : i = j + 1
      BY <1>2, <1>4, <2>2, <3>1
    <3> QED
      BY <1>2, <3>1, <3>2 DEF InRequests
  <2> QED
    BY <2>1, <2>2
<1>7. Head(list) \in Req /\ InRequests(list, Head(list).msg)
  BY <1>2, <1>3 DEF InRequests
<1> QED
  BY <1>1, <1>2, <1>5, <1>6, <1>7

LEMMA ReplyJoins ==
    ASSUME NEW list \in Seq(Msg \cup {NoMsg}), NEW r \in Msg \cup {NoMsg}, OnceReplied(list),
           r # NoMsg => ~InFunctors(list, r)
    PROVE  /\ Append(list, r) \in Seq(Msg \cup {NoMsg}) /\ OnceReplied(Append(list, r))
           /\ \A m \in Msg : InFunctors(Append(list, r), m) <=> InFunctors(list, m) \/ m = r
<1>1. PICK q : q = Append(list, r)
  OBVIOUS
<1>2. /\ q \in Seq(Msg \cup {NoMsg}) /\ Len(list) \in Nat /\ Len(q) = Len(list) + 1
      /\ q[Len(q)] = r /\ \A i \in 1 .. Len(list) : q[i] = list[i]
  BY <1>1
<1>3. \A i \in 1 .. Len(q) : i \in 1 .. Len(list) \/ i = Len(q)
  BY <1>2
<1>4. OnceReplied(q)
  <2>1. r # NoMsg => \A i \in 1 .. Len(list) : list[i] # r
    BY DEF InFunctors
  <2> QED
    BY <1>2, <1>3, <2>1 DEF OnceReplied
<1>5. \A m \in Msg : InFunctors(q, m) <=> InFunctors(list, m) \/ m = r
  <2>1. Len(q) \in 1 .. Len(q) /\ \A i \in 1 .. Len(list) : i \in 1 .. Len(q)
    BY <1>2
  <2> QED
    BY <1>2, <1>3, <2>1 DEF InFunctors
<1> QED
  BY <1>1, <1>2, <1>4, <1>5

LEMMA ReplyGoes ==
    ASSUME NEW list \in Seq(Msg \cup {NoMsg}), list # <<>>, OnceReplied(list)
    PROVE  /\ Tail(list) \in Seq(Msg \cup {NoMsg}) /\ OnceReplied(Tail(list))
           /\ Head(list) \in Msg \cup {NoMsg} /\ InFunctors(list, Head(list))
           /\ \A m \in Msg : InFunctors(Tail(list), m) <=> InFunctors(list, m) /\ m # Head(list)
<1>1. PICK q : q = Tail(list)
  OBVIOUS
<1>2. /\ q \in Seq(Msg \cup {NoMsg}) /\ Len(list) \in Nat /\ Len(list) > 0
      /\ Len(q) = Len(list) - 1 /\ Head(list) = list[1]
      /\ \A i \in 1 .. Len(q) : q[i] = list[i + 1]
  BY <1>1
<1>3. 1 \in 1 .. Len(list) /\ \A i \in 1 .. Len(q) : i + 1 \in 1 .. Len(list) /\ i + 1 # 1
  BY <1>2
<1>4. \A i \in 1 .. Len(list) : i = 1 \/ \E j \in 1 .. Len(q) : i = j + 1
  <2>1. ASSUME NEW i \in 1 .. Len(list), i # 1
        PROVE  i - 1 \in 1 .. Len(q) /\ i = (i - 1) + 1
    BY <1>2, <2>1
  <2> QED
    BY <2>1
<1>5. OnceReplied(q)
  <2>1. ASSUME NEW i \in 1 .. Len(q), NEW j \in 1 .. Len(q), i # j, q[i] # NoMsg
        PROVE  q[i] # q[j]
    <3>1. i + 1 # j + 1
      BY <2>1
    <3> QED
      BY <1>2, <1>3, <2>1, <3>1 DEF OnceReplied
  <2> QED
    BY <2>1 DEF OnceReplied
<1>6. \A m \in Msg : InFunctors(q, m) <=> InFunctors(list, m) /\ m # Head(list)
  <2>1. ASSUME NEW m \in Msg, InFunctors(q, m) PROVE InFunctors(list, m) /\ m # Head(list)
    <3>1. PICK i \in 1 .. Len(q) : q[i] = m
      BY <2>1 DEF InFunctors
    <3>2. list[i + 1] = m /\ i + 1 \in 1 .. Len(list) /\ i + 1 # 1
      BY <1>2, <1>3, <3>1
    <3> QED
      BY <1>2, <1>3, <3>2, MsgIsNat DEF InFunctors, OnceReplied
  <2>2. ASSUME NEW m \in Msg, InFunctors(list, m), m # Head(list) PROVE InFunctors(q, m)
    <3>1. PICK i \in 1 .. Len(list) : list[i] = m
      BY <2>2 DEF InFunctors
    <3>2. PICK j \in 1 .. Len(q) : i = j + 1
      BY <1>2, <1>4, <2>2, <3>1
    <3> QED
      BY <1>2, <3>1, <3>2 DEF InFunctors
  <2> QED
    BY <2>1, <2>2
<1>7. Head(list) \in Msg \cup {NoMsg} /\ InFunctors(list, Head(list))
  BY <1>2, <1>3 DEF InFunctors
<1> QED
  BY <1>1, <1>2, <1>5, <1>6, <1>7

LEMMA UserdataComes ==
    ASSUME ud \in [Ud -> Userdata], OnceHeld(ud), NEW u \in Ud, NEW m \in Msg \cup {NoMsg},
           NEW del \in BOOLEAN, PushUserdata(u, m, del), del /\ m # NoMsg => ~InUserdata(ud, m)
    PROVE  /\ ud' \in [Ud -> Userdata] /\ OnceHeld(ud')
           /\ \A x \in Msg : InUserdata(ud', x) <=> InUserdata(ud, x) \/ (del /\ x = m)
<1>1. PICK k : k = [msg |-> m, isDelete |-> del, held |-> TRUE]
  OBVIOUS
<1>2. k \in Userdata /\ k.msg = m /\ k.isDelete = del
  BY <1>1 DEF Userdata
<1>3. PICK d : d = ud'
  OBVIOUS
<1>4. d = [ud EXCEPT ![u] = k] /\ ud[u] = NoUd
  BY <1>1, <1>3 DEF PushUserdata, Unused
<1>5. d \in [Ud -> Userdata] /\ d[u] = k /\ \A v \in Ud \ {u} : d[v] = ud[v]
  BY <1>2, <1>4
<1>6. ud[u].isDelete = FALSE
  BY <1>4 DEF NoUd
<1>7. \A x \in Msg : InUserdata(d, x) <=> InUserdata(ud, x) \/ (del /\ x = m)
  BY <1>2, <1>5, <1>6 DEF InUserdata
<1>8. OnceHeld(d)
  <2>1. ASSUME NEW v \in Ud \ {u}, d[v].isDelete, del, m # NoMsg
        PROVE  d[v].msg # m
    BY <1>5, <2>1 DEF InUserdata
  <2> QED
    BY <1>2, <1>5, <2>1 DEF OnceHeld
<1> QED
  BY <1>3, <1>5, <1>7, <1>8

LEMMA UserdataGoes ==
    ASSUME ud \in [Ud -> Userdata], OnceHeld(ud), NEW u \in Ud, ud' = [ud EXCEPT ![u] = NoUd]
    PROVE  /\ ud' \in [Ud -> Userdata] /\ OnceHeld(ud')
           /\ \A x \in Msg : InUserdata(ud', x) <=>
                  InUserdata(ud, x) /\ ~(ud[u].isDelete /\ x = ud[u].msg)
<1>1. NoUd \in Userdata /\ NoUd.isDelete = FALSE
  BY DEF NoUd, Userdata
<1>2. PICK d : d = ud'
  OBVIOUS
<1>3. d \in [Ud -> Userdata] /\ d[u].isDelete = FALSE /\ \A v \in Ud \ {u} : d[v] = ud[v]
  BY <1>1, <1>2
<1>4. OnceHeld(d)
  BY <1>3 DEF OnceHeld
<1>5. ASSUME NEW x \in Msg
      PROVE  InUserdata(d, x) <=> InUserdata(ud, x) /\ ~(ud[u].isDelete /\ x = ud[u].msg)
  <2>1. x # NoMsg
    BY MsgIsNat
  <2> QED
    BY <1>3, <2>1 DEF InUserdata, OnceHeld
<1> QED
  BY <1>2, <1>3, <1>4, <1>5

\* Only whether a script holds them has changed.
LEMMA UserdataStays ==
    ASSUME OnceHeld(ud), \A u \in Ud : ud'[u].isDelete = ud[u].isDelete /\ ud'[u].msg = ud[u].msg
    PROVE  OnceHeld(ud') /\ \A x \in Msg : InUserdata(ud', x) <=> InUserdata(ud, x)
BY DEF OnceHeld, InUserdata

-----------------------------------------------------------------------------
(* Messages that are made                                                    *)

LEMMA FreshIs ==
    ASSUME LuaInv, NEW m \in Fresh
    PROVE  /\ m \in Msg /\ heap[m] = "none" /\ m \notin lost /\ whole[m] = NoMsg
           /\ ~Owned(m) /\ m # NoMsg
           /\ \A y \in Msg : whole[y] # m
<1>1. m \in Msg /\ heap[m] = "none" /\ m # NoMsg
  BY MsgIsNat DEF Fresh
<1>2. whole[m] = NoMsg /\ \A y \in Msg : whole[y] # m
  BY <1>1 DEF LuaInv, PartsGoAlong
<1> QED
  BY <1>1, <1>2 DEF LuaInv, LostStay, DeletedStay, OwnedRight, Wanted

\* A message of its own.
LEMMA RootMade ==
    ASSUME LuaInv, NEW m \in Fresh, heap' = [heap EXCEPT ![m] = "live"],
           UNCHANGED <<whole, lost, deleted, wild>>
    PROVE  /\ heap' \in [Msg -> Heap] /\ PartsGoAlong' /\ LostStay'
           /\ \A x \in Msg : Wanted(x)' <=> Wanted(x) \/ x = m
<1>1. /\ m \in Msg /\ heap[m] = "none" /\ m \notin lost /\ whole[m] = NoMsg
      /\ \A y \in Msg : whole[y] # m
  BY FreshIs
<1>2. PICK h : h = heap'
  OBVIOUS
<1>3. /\ h \in [Msg -> Heap] /\ h[m] = "live"
      /\ \A x \in Msg \ {m} : h[x] = heap[x]
  BY <1>1, <1>2 DEF LuaInv, LuaOK, Heap
<1>4. ASSUME NEW y \in Msg, whole[y] # NoMsg
      PROVE  h[y] = h[whole[y]] /\ h[y] # "none"
  <2>1. heap[y] = heap[whole[y]] /\ heap[y] # "none" /\ whole[y] \in Msg
    BY <1>4 DEF LuaInv, LuaOK, PartsGoAlong
  <2>2. y # m /\ whole[y] # m
    BY <1>1, <1>4
  <2> QED
    BY <1>3, <2>1, <2>2
<1>5. \A x \in Msg : x \in lost => whole[x] = NoMsg /\ h[x] # "none"
  BY <1>1, <1>3 DEF LuaInv, LostStay
<1>6. \A x \in Msg : h[x] = "live" /\ x \notin lost /\ whole[x] = NoMsg <=> Wanted(x) \/ x = m
  BY <1>1, <1>3 DEF Wanted
<1> QED
  BY <1>2, <1>3, <1>4, <1>5, <1>6 DEF PartsGoAlong, LostStay, Wanted

\* A part of a message that is there.
LEMMA PartMade ==
    ASSUME LuaInv, NEW m \in Fresh, NEW p \in Msg, heap[p] = "live",
           heap' = [heap EXCEPT ![m] = "live"], whole' = [whole EXCEPT ![m] = p],
           UNCHANGED lost
    PROVE  /\ heap' \in [Msg -> Heap]
           /\ whole' \in [Msg -> Msg \cup {NoMsg}] /\ PartsGoAlong' /\ LostStay'
           /\ \A x \in Msg : Wanted(x)' <=> Wanted(x)
<1>1. /\ m \in Msg /\ heap[m] = "none" /\ m \notin lost /\ whole[m] = NoMsg
      /\ \A y \in Msg : whole[y] # m
  BY FreshIs
<1>2. PICK h : h = heap'
  OBVIOUS
<1>3. PICK w : w = whole'
  OBVIOUS
<1>4. /\ h \in [Msg -> Heap] /\ h[m] = "live"
      /\ \A x \in Msg \ {m} : h[x] = heap[x]
  BY <1>1, <1>2 DEF LuaInv, LuaOK, Heap
<1>5. /\ w \in [Msg -> Msg \cup {NoMsg}] /\ w[m] = p
      /\ \A x \in Msg \ {m} : w[x] = whole[x]
  BY <1>1, <1>3 DEF LuaInv, LuaOK
<1>6. p # m /\ h[p] = "live" /\ p # NoMsg
  BY <1>1, <1>4, MsgIsNat
<1>7. ASSUME NEW y \in Msg, w[y] # NoMsg
      PROVE  h[y] = h[w[y]] /\ h[y] # "none"
  <2>1. CASE y = m
    BY <1>4, <1>5, <1>6, <2>1
  <2>2. CASE y # m
    <3>1. w[y] = whole[y] /\ h[y] = heap[y]
      BY <1>4, <1>5, <2>2
    <3>2. heap[y] = heap[whole[y]] /\ heap[y] # "none" /\ whole[y] \in Msg /\ whole[y] # m
      BY <1>1, <1>7, <3>1 DEF LuaInv, LuaOK, PartsGoAlong
    <3> QED
      BY <1>4, <3>1, <3>2
  <2> QED
    BY <2>1, <2>2
<1>8. \A x \in Msg : x \in lost => w[x] = NoMsg /\ h[x] # "none"
  BY <1>1, <1>4, <1>5 DEF LuaInv, LostStay
<1>9. \A x \in Msg : h[x] = "live" /\ x \notin lost /\ w[x] = NoMsg <=> Wanted(x)
  BY <1>1, <1>4, <1>5, <1>6 DEF Wanted
<1> QED
  BY <1>2, <1>3, <1>4, <1>5, <1>7, <1>8, <1>9 DEF PartsGoAlong, LostStay, Wanted

\* What a step may make of the heap, but for the deletes of a script: something is made,
\* or what is there is freed.
HeapGoesOn(h, g) ==
    \A x \in Msg : \/ g[x] = h[x]
                   \/ h[x] = "none" /\ g[x] = "live"
                   \/ h[x] = "live" /\ g[x] = "freed"

\* An owned message is deleted.
LEMMA RootFreed ==
    ASSUME LuaInv, NEW m \in Msg, Wanted(m), heap' = Freed(m), UNCHANGED <<whole, lost>>
    PROVE  /\ heap' \in [Msg -> Heap] /\ PartsGoAlong' /\ LostStay'
           /\ \A x \in Msg : Wanted(x)' <=> Wanted(x) /\ x # m
           /\ HeapGoesOn(heap, heap')
<1>1. PICK h : h = Freed(m)
  OBVIOUS
<1>2. /\ h \in [Msg -> Heap] /\ HeapGoesOn(heap, h)
      /\ \A y \in Msg : whole[y] # NoMsg => h[y] = h[whole[y]] /\ h[y] # "none"
      /\ h[m] = "freed"
      /\ \A x \in Msg : whole[x] = NoMsg /\ x # m => h[x] = heap[x]
  BY <1>1, FreedRight DEF LuaInv, Wanted, HeapGoesOn
<1>3. \A x \in Msg : x \in lost => whole[x] = NoMsg /\ h[x] # "none"
  BY <1>2 DEF LuaInv, LostStay
<1>4. \A x \in Msg : h[x] = "live" /\ x \notin lost /\ whole[x] = NoMsg <=> Wanted(x) /\ x # m
  BY <1>2 DEF Wanted
<1> QED
  BY <1>1, <1>2, <1>3, <1>4 DEF PartsGoAlong, LostStay, Wanted

\* What a script has deleted stays so, in the steps that are not a delete of a script.
LEMMA DeletedGoOn ==
    ASSUME LuaInv, LuaOK', UNCHANGED deleted, HeapGoesOn(heap, heap'),
           \A x \in Msg : InRequests(requests', x) => InRequests(requests, x) \/ heap[x] = "none",
           \A x \in Msg : InFunctors(functors', x) => InFunctors(functors, x) \/ heap[x] = "none",
           \A x \in Msg : \/ whole'[x] = whole[x]
                          \/ heap[x] = "none" /\ whole'[x] \in Msg /\ heap[whole'[x]] = "live"
    PROVE  DeletedStay'
<1>1. \A x \in deleted : x \in Msg /\ heap[x] \in {"freed", "twice"} /\ heap'[x] = heap[x]
  BY DEF LuaInv, LuaOK, DeletedStay, HeapGoesOn
<1>2. \A x \in Msg : heap'[x] = "twice" => x \in deleted
  BY DEF LuaInv, DeletedStay, HeapGoesOn
<1>3. \A x \in Msg : x \in deleted => ~InRequests(requests', x) /\ ~InFunctors(functors', x)
  BY <1>1 DEF LuaInv, DeletedStay
<1>4. \A y \in Msg : whole'[y] # NoMsg => (y \in deleted <=> whole'[y] \in deleted)
  BY <1>1 DEF LuaInv, DeletedStay
<1> QED
  BY <1>1, <1>2, <1>3, <1>4 DEF DeletedStay

\* What is a part stays one.
LEMMA BorrowedGoOn ==
    ASSUME LuaInv, deleted \subseteq deleted',
           \A x \in Msg : heap[x] # "none" => whole'[x] = whole[x] /\ heap'[x] # "none",
           \A m \in wild' \ wild : m = NoMsg \/ (m \in Msg /\ (m \in deleted \/ whole[m] # NoMsg)),
           \A p \in Msg : part1'[p] = part1[p] \/ whole'[part1'[p]] # NoMsg,
           \A u \in Ud : \/ ud'[u].msg = ud[u].msg /\ ud'[u].isDelete = ud[u].isDelete
                         \/ ud'[u].msg = NoMsg
                         \/ /\ heap'[ud'[u].msg] # "none"
                            /\ ud'[u].isDelete <=> whole'[ud'[u].msg] = NoMsg
    PROVE  PartsBorrowed'
<1>1. \A u \in Ud : ud[u].msg \in Msg \cup {NoMsg}
  BY DEF LuaInv, LuaOK
<1>2. \A u \in Ud : ud'[u].msg # NoMsg =>
         heap'[ud'[u].msg] # "none" /\ (ud'[u].isDelete <=> whole'[ud'[u].msg] = NoMsg)
  BY <1>1 DEF LuaInv, PartsBorrowed
<1>3. \A m \in Msg : whole[m] # NoMsg => heap[m] # "none"
  BY DEF LuaInv, PartsGoAlong
<1>4. \A m \in wild' : m = NoMsg \/ (m \in Msg /\ (m \in deleted' \/ whole'[m] # NoMsg))
  BY <1>3 DEF LuaInv, PartsBorrowed
<1>5. \A p \in Msg : part1'[p] # NoMsg => whole'[part1'[p]] # NoMsg
  <2>1. part1 \in [Msg -> Msg \cup {NoMsg}]
    BY DEF LuaInv, LuaOK
  <2> QED
    BY <1>3, <2>1 DEF LuaInv, PartsBorrowed
<1> QED
  BY <1>2, <1>4, <1>5 DEF PartsBorrowed

-----------------------------------------------------------------------------
(* The steps                                                                 *)

\* What the invariant says for those that follow.
LEMMA LuaFacts ==
    ASSUME LuaInv
    PROVE  /\ requests \in Seq(Req) /\ OnceRequested(requests)
           /\ functors \in Seq(Msg \cup {NoMsg}) /\ OnceReplied(functors)
           /\ ud \in [Ud -> Userdata] /\ OnceHeld(ud)
BY DEF LuaInv, LuaOK, OneOwner, Req, Userdata

LEMMA LuaStarts == LuaInit => LuaInv
<1> SUFFICES ASSUME LuaInit PROVE LuaInv
  OBVIOUS
<1>1. NoUd \in Userdata /\ ~NoUd.isDelete
  BY DEF NoUd, Userdata
<1>2. ud \in [Ud -> Userdata] /\ \A u \in Ud : ~ud[u].isDelete
  BY <1>1 DEF LuaInit
<1>3. LuaOK
  BY <1>2 DEF LuaInit, LuaOK, Userdata, Heap
<1>4. PartsGoAlong /\ LostStay
  BY DEF LuaInit, PartsGoAlong, LostStay
<1>5. Len(requests) = 0 /\ Len(functors) = 0 /\ 1 .. 0 = {}
  BY DEF LuaInit
<1>6. \A m \in Msg : /\ ~InRequests(requests, m) /\ ~InFunctors(functors, m)
                     /\ ~InUserdata(ud, m) /\ ~Wanted(m)
  BY <1>2, <1>5 DEF InRequests, InFunctors, InUserdata, Wanted, LuaInit
<1>7. OnceRequested(requests) /\ OnceReplied(functors) /\ OnceHeld(ud)
  BY <1>2, <1>5 DEF OnceRequested, OnceReplied, OnceHeld
<1>8. DeletedStay
  BY DEF LuaInit, DeletedStay
<1>9. PartsBorrowed
  <2>1. \A u \in Ud : ud[u].msg = NoMsg
    BY DEF LuaInit, NoUd
  <2> QED
    BY <2>1 DEF LuaInit, PartsBorrowed
<1> QED
  BY <1>3, <1>4, <1>6, <1>7, <1>8, <1>9 DEF LuaInv, OneOwner, OwnedRight, Owned

LEMMA RequestKeeps ==
    ASSUME LuaInv, NEW m \in Msg, NEW kind \in {"table", "script"}, Request(m, kind)
    PROVE  LuaInv'
<1>1. /\ m \in Fresh /\ heap' = [heap EXCEPT ![m] = "live"]
      /\ requests' = Append(requests, [msg |-> m, kind |-> kind])
      /\ UNCHANGED <<whole, part1, ud, functors, lost, deleted, wild>>
  BY DEF Request
<1>2. PICK r : r = [msg |-> m, kind |-> kind]
  OBVIOUS
<1>9. r \in Req /\ r.msg = m
  BY <1>2 DEF Req
<1>3. ~Owned(m)
  BY <1>1, FreshIs
<1>4. /\ requests' \in Seq(Req) /\ OnceRequested(requests')
      /\ \A x \in Msg : InRequests(requests', x) <=> InRequests(requests, x) \/ x = m
  BY <1>1, <1>2, <1>3, <1>9, LuaFacts, RequestJoins DEF Owned
<1>5. /\ heap' \in [Msg -> Heap] /\ PartsGoAlong' /\ LostStay'
      /\ \A x \in Msg : Wanted(x)' <=> Wanted(x) \/ x = m
  BY <1>1, RootMade
<1>6. heap[m] = "none" /\ m \in Msg
  BY <1>1, FreshIs
<1>7. LuaOK'
  BY <1>1, <1>4, <1>5 DEF LuaInv, LuaOK, Req
<1>8. OneOwner' /\ OwnedRight'
  BY <1>1, <1>3, <1>4, <1>5 DEF LuaInv, OneOwner, OwnedRight, Owned
<1>10. HeapGoesOn(heap, heap')
  BY <1>1, <1>6 DEF LuaInv, LuaOK, HeapGoesOn
<1>11. DeletedStay'
  BY <1>1, <1>4, <1>6, <1>7, <1>10, DeletedGoOn
<1>12. PartsBorrowed'
  <2>1. \A x \in Msg : heap[x] # "none" => heap'[x] # "none"
    BY <1>10 DEF HeapGoesOn
  <2> QED
    BY <1>1, <2>1, BorrowedGoOn
<1> QED
  BY <1>5, <1>7, <1>8, <1>11, <1>12 DEF LuaInv

LEMMA OnCommandKeeps ==
    ASSUME LuaInv, NEW r \in Msg, OnCommand(r)
    PROVE  LuaInv'
<1>1. PICK m : m = Head(requests).msg
  OBVIOUS
<1>2. /\ r \in Fresh /\ requests # <<>> /\ heap' = [Freed(m) EXCEPT ![r] = "live"]
      /\ functors' = Append(functors, r) /\ requests' = Tail(requests)
      /\ UNCHANGED <<whole, part1, ud, lost, deleted, wild>>
  BY <1>1 DEF OnCommand, TakesNext
<1>3. /\ m \in Msg /\ requests' \in Seq(Req) /\ OnceRequested(requests')
      /\ InRequests(requests, m)
      /\ \A x \in Msg : InRequests(requests', x) <=> InRequests(requests, x) /\ x # m
  BY <1>1, <1>2, LuaFacts, RequestGoes DEF Req
<1>4. heap[r] = "none" /\ r \notin lost /\ whole[r] = NoMsg /\ ~Owned(r)
      /\ \A y \in Msg : whole[y] # r
  BY <1>2, FreshIs
<1>5. /\ functors' \in Seq(Msg \cup {NoMsg}) /\ OnceReplied(functors')
      /\ \A x \in Msg : InFunctors(functors', x) <=> InFunctors(functors, x) \/ x = r
  BY <1>2, <1>4, LuaFacts, ReplyJoins DEF Owned
<1>6. Wanted(m) /\ m # r /\ m \notin deleted
  BY <1>3, <1>4 DEF LuaInv, DeletedStay, OwnedRight, Owned
<1>7. PICK h : h = Freed(m)
  OBVIOUS
<1>8. /\ h \in [Msg -> Heap]
      /\ \A x \in Msg : h[x] # heap[x] => heap[x] = "live" /\ h[x] = "freed"
      /\ \A y \in Msg : whole[y] # NoMsg => h[y] = h[whole[y]] /\ h[y] # "none"
      /\ h[m] = "freed"
      /\ \A x \in Msg : whole[x] = NoMsg /\ x # m => h[x] = heap[x]
  BY <1>3, <1>6, <1>7, FreedRight DEF LuaInv, Wanted
<1>9. PICK g : g = heap'
  OBVIOUS
<1>10. g \in [Msg -> Heap] /\ g[r] = "live" /\ \A x \in Msg \ {r} : g[x] = h[x]
  BY <1>2, <1>7, <1>8, <1>9 DEF Heap
<1>11. \A y \in Msg : whole[y] # NoMsg => g[y] = g[whole[y]] /\ g[y] # "none"
  <2>1. whole \in [Msg -> Msg \cup {NoMsg}]
    BY DEF LuaInv, LuaOK
  <2> QED
    BY <1>4, <1>8, <1>10, <2>1
<1>12. \A x \in Msg : x \in lost => whole[x] = NoMsg /\ g[x] # "none"
  BY <1>4, <1>8, <1>10 DEF LuaInv, LostStay
<1>13. \A x \in Msg : g[x] = "live" /\ x \notin lost /\ whole[x] = NoMsg
                      <=> (Wanted(x) /\ x # m) \/ x = r
  BY <1>4, <1>8, <1>10 DEF Wanted
<1>14. PartsGoAlong' /\ LostStay' /\ \A x \in Msg : Wanted(x)' <=> (Wanted(x) /\ x # m) \/ x = r
  BY <1>2, <1>9, <1>11, <1>12, <1>13 DEF PartsGoAlong, LostStay, Wanted
<1>15. LuaOK'
  BY <1>2, <1>3, <1>5, <1>9, <1>10 DEF LuaInv, LuaOK, Req
<1>16. OneOwner' /\ OwnedRight'
  BY <1>2, <1>3, <1>4, <1>5, <1>6, <1>14 DEF LuaInv, OneOwner, OwnedRight, Owned
<1>17. HeapGoesOn(heap, g)
  BY <1>4, <1>8, <1>10 DEF HeapGoesOn
<1>18. DeletedStay'
  BY <1>2, <1>3, <1>4, <1>5, <1>9, <1>15, <1>17, DeletedGoOn
<1>19. PartsBorrowed'
  <2>1. \A x \in Msg : heap[x] # "none" => heap'[x] # "none"
    BY <1>9, <1>17 DEF HeapGoesOn
  <2> QED
    BY <1>2, <2>1, BorrowedGoOn
<1> QED
  BY <1>14, <1>15, <1>16, <1>18, <1>19 DEF LuaInv

LEMMA OnLuaMessageKeeps ==
    ASSUME LuaInv, NEW u \in Ud, NEW defined \in BOOLEAN, OnLuaMessage(u, defined)
    PROVE  LuaInv'
<1>1. PICK m : m = Head(requests).msg
  OBVIOUS
<1>2. /\ requests # <<>> /\ requests' = Tail(requests)
      /\ IF defined THEN PushUserdata(u, m, TRUE) /\ UNCHANGED lost
                    ELSE lost' = lost \cup {m} /\ UNCHANGED ud
      /\ UNCHANGED <<heap, whole, part1, functors, deleted, wild>>
  BY <1>1 DEF OnLuaMessage, TakesNext
<1>3. /\ m \in Msg /\ requests' \in Seq(Req) /\ OnceRequested(requests')
      /\ InRequests(requests, m)
      /\ \A x \in Msg : InRequests(requests', x) <=> InRequests(requests, x) /\ x # m
  BY <1>1, <1>2, LuaFacts, RequestGoes DEF Req
<1>4. Wanted(m) /\ ~InUserdata(ud, m) /\ ~InFunctors(functors, m)
  BY <1>3 DEF LuaInv, DeletedStay, OwnedRight, Owned, OneOwner
<1>5. PartsGoAlong'
  BY <1>2 DEF LuaInv, PartsGoAlong
<1>8. HeapGoesOn(heap, heap')
  BY <1>2 DEF HeapGoesOn
<1>6. CASE defined
  <2>1. /\ ud' \in [Ud -> Userdata] /\ OnceHeld(ud')
        /\ \A x \in Msg : InUserdata(ud', x) <=> InUserdata(ud, x) \/ x = m
    BY <1>2, <1>3, <1>4, <1>6, LuaFacts, UserdataComes
  <2>2. lost' = lost
    BY <1>2, <1>6
  <2>3. LuaOK' /\ LostStay'
    BY <1>2, <1>3, <2>1, <2>2 DEF LuaInv, LuaOK, LostStay, Req, Userdata
  <2>4. \A x \in Msg : Wanted(x)' <=> Wanted(x)
    BY <1>2, <2>2 DEF Wanted
  <2>5. OneOwner' /\ OwnedRight'
    BY <1>2, <1>3, <1>4, <2>1, <2>4 DEF LuaInv, OneOwner, OwnedRight, Owned
  <2>6. DeletedStay'
    BY <1>2, <1>3, <1>8, <2>3, DeletedGoOn
  <2>7. PartsBorrowed'
    <3>1. \A v \in Ud : ud'[v] = ud[v] \/ (ud'[v].isDelete /\ ud'[v].msg = m)
      BY <1>2, <1>6, LuaFacts DEF PushUserdata
    <3>2. heap[m] # "none" /\ whole[m] = NoMsg
      BY <1>4 DEF Wanted
    <3> QED
      BY <1>2, <3>1, <3>2, BorrowedGoOn
  <2> QED
    BY <1>5, <2>3, <2>5, <2>6, <2>7 DEF LuaInv
<1>7. CASE ~defined
  <2>1. lost' = lost \cup {m} /\ ud' = ud
    BY <1>2, <1>7
  <2>2. LuaOK' /\ LostStay'
    BY <1>2, <1>3, <1>4, <2>1 DEF LuaInv, LuaOK, LostStay, Req, Wanted
  <2>3. \A x \in Msg : Wanted(x)' <=> Wanted(x) /\ x # m
    BY <1>2, <2>1 DEF Wanted
  <2>4. OneOwner' /\ OwnedRight'
    BY <1>2, <1>3, <1>4, <2>1, <2>3 DEF LuaInv, OneOwner, OwnedRight, Owned
  <2>5. DeletedStay'
    BY <1>2, <1>3, <1>8, <2>2, DeletedGoOn
  <2>6. PartsBorrowed'
    BY <1>2, <2>1, BorrowedGoOn
  <2> QED
    BY <1>5, <2>2, <2>4, <2>5, <2>6 DEF LuaInv
<1> QED
  BY <1>6, <1>7

LEMMA RunReplyKeeps ==
    ASSUME LuaInv, RunReply
    PROVE  LuaInv'
<1>1. PICK m : m = Head(functors)
  OBVIOUS
<1>2. /\ functors # <<>> /\ functors' = Tail(functors)
      /\ heap' = (IF Live(m) THEN Freed(m) ELSE heap)
      /\ UNCHANGED <<whole, part1, requests, ud, lost, deleted, wild>>
  BY <1>1 DEF RunReply
<1>3. /\ m \in Msg \cup {NoMsg} /\ functors' \in Seq(Msg \cup {NoMsg}) /\ OnceReplied(functors')
      /\ InFunctors(functors, m)
      /\ \A x \in Msg : InFunctors(functors', x) <=> InFunctors(functors, x) /\ x # m
  BY <1>1, <1>2, LuaFacts, ReplyGoes
<1>4. m \in Msg => Wanted(m)
  BY <1>3 DEF LuaInv, DeletedStay, OwnedRight, Owned
<1>5. /\ heap' \in [Msg -> Heap] /\ PartsGoAlong' /\ LostStay' /\ HeapGoesOn(heap, heap')
      /\ \A x \in Msg : Wanted(x)' <=> Wanted(x) /\ x # m
  <2>1. CASE m \in Msg
    <3>1. heap' = Freed(m)
      BY <1>2, <1>4, <2>1 DEF Live, Wanted
    <3> QED
      BY <1>2, <1>4, <2>1, <3>1, RootFreed
  <2>2. CASE m = NoMsg
    <3>1. heap' = heap /\ \A x \in Msg : x # m
      BY <1>2, <2>2, MsgIsNat DEF Live
    <3> QED
      BY <1>2, <3>1 DEF LuaInv, LuaOK, PartsGoAlong, LostStay, Wanted, HeapGoesOn
  <2> QED
    BY <1>3, <2>1, <2>2
<1>6. LuaOK'
  BY <1>2, <1>3, <1>5 DEF LuaInv, LuaOK
<1>7. OneOwner' /\ OwnedRight'
  BY <1>2, <1>3, <1>5 DEF LuaInv, OneOwner, OwnedRight, Owned
<1>8. DeletedStay'
  BY <1>2, <1>3, <1>5, <1>6, DeletedGoOn
<1>9. PartsBorrowed'
  <2>1. \A x \in Msg : heap[x] # "none" => heap'[x] # "none"
    BY <1>5 DEF HeapGoesOn
  <2> QED
    BY <1>2, <2>1, BorrowedGoOn
<1> QED
  BY <1>5, <1>6, <1>7, <1>8, <1>9 DEF LuaInv

LEMMA PbNewKeeps ==
    ASSUME LuaInv, NEW u \in Ud, NEW m \in Msg \cup {NoMsg}, PbNew(u, m)
    PROVE  LuaInv'
<1>1. /\ PushUserdata(u, m, TRUE) /\ m \in Fresh \cup {NoMsg}
      /\ heap' = IF m = NoMsg THEN heap ELSE [heap EXCEPT ![m] = "live"]
      /\ UNCHANGED <<whole, part1, requests, functors, lost, deleted, wild>>
  BY DEF PbNew
<1>2. m # NoMsg => m \in Fresh /\ ~Owned(m)
  BY <1>1, FreshIs
<1>3. /\ ud' \in [Ud -> Userdata] /\ OnceHeld(ud')
      /\ \A x \in Msg : InUserdata(ud', x) <=> InUserdata(ud, x) \/ x = m
  <2>1. m # NoMsg => ~InUserdata(ud, m)
    BY <1>2 DEF Owned
  <2> QED
    BY <1>1, <2>1, LuaFacts, UserdataComes
<1>4. /\ heap' \in [Msg -> Heap] /\ PartsGoAlong' /\ LostStay' /\ HeapGoesOn(heap, heap')
      /\ \A x \in Msg : Wanted(x)' <=> Wanted(x) \/ x = m
  <2>1. CASE m # NoMsg
    <3>1. m \in Msg /\ heap[m] = "none" /\ heap' = [heap EXCEPT ![m] = "live"]
      BY <1>1, <1>2, <2>1, FreshIs
    <3>2. HeapGoesOn(heap, heap')
      BY <3>1 DEF LuaInv, LuaOK, HeapGoesOn
    <3> QED
      BY <1>1, <1>2, <2>1, <3>1, <3>2, RootMade
  <2>2. CASE m = NoMsg
    <3>1. heap' = heap /\ \A x \in Msg : x # m
      BY <1>1, <2>2, MsgIsNat
    <3> QED
      BY <1>1, <3>1 DEF LuaInv, LuaOK, PartsGoAlong, LostStay, Wanted, HeapGoesOn
  <2> QED
    BY <2>1, <2>2
<1>5. LuaOK'
  BY <1>1, <1>3, <1>4 DEF LuaInv, LuaOK, Userdata
<1>6. OneOwner' /\ OwnedRight'
  <2>1. \A x \in Msg : x = m => ~Owned(x)
    BY <1>2, MsgIsNat
  <2> QED
    BY <1>1, <1>3, <1>4, <2>1 DEF LuaInv, OneOwner, OwnedRight, Owned
<1>7. DeletedStay'
  BY <1>1, <1>4, <1>5, DeletedGoOn
<1>8. PartsBorrowed'
  <2>1. \A v \in Ud : ud'[v] = ud[v] \/ (ud'[v].isDelete /\ ud'[v].msg = m)
    BY <1>1, LuaFacts DEF PushUserdata
  <2>2. \A x \in Msg : heap[x] # "none" => heap'[x] # "none"
    BY <1>4 DEF HeapGoesOn
  <2>3. m # NoMsg => heap'[m] # "none" /\ whole[m] = NoMsg
    BY <1>2, <1>4, FreshIs DEF Wanted
  <2> QED
    BY <1>1, <2>1, <2>2, <2>3, BorrowedGoOn
<1> QED
  BY <1>4, <1>5, <1>6, <1>7, <1>8 DEF LuaInv

\* A userdata that does not delete what it points to, with or without a new part there.
LEMMA PartKeeps ==
    ASSUME LuaInv, NEW v \in Ud, NEW m \in Msg, PushUserdata(v, m, FALSE),
           part1' \in [Msg -> Msg \cup {NoMsg}],
           \A p \in Msg : part1'[p] \in {part1[p], m}, UNCHANGED <<requests, functors, lost, deleted, wild>>,
           \/ whole[m] # NoMsg /\ UNCHANGED <<heap, whole>>
           \/ \E p \in Msg : /\ heap[p] = "live" /\ m \in Fresh
                             /\ heap' = [heap EXCEPT ![m] = "live"]
                             /\ whole' = [whole EXCEPT ![m] = p]
    PROVE  LuaInv'
<1>1. /\ ud' \in [Ud -> Userdata] /\ OnceHeld(ud')
      /\ \A x \in Msg : InUserdata(ud', x) <=> InUserdata(ud, x)
  BY LuaFacts, UserdataComes
<1>2. /\ heap' \in [Msg -> Heap]
      /\ whole' \in [Msg -> Msg \cup {NoMsg}] /\ PartsGoAlong' /\ LostStay'
      /\ HeapGoesOn(heap, heap') /\ whole'[m] # NoMsg
      /\ \A x \in Msg : \/ whole'[x] = whole[x]
                        \/ heap[x] = "none" /\ whole'[x] \in Msg /\ heap[whole'[x]] = "live"
      /\ heap'[m] # "none"
      /\ \A x \in Msg : heap[x] # "none" => whole'[x] = whole[x] /\ heap'[x] # "none"
      /\ \A x \in Msg : Wanted(x)' <=> Wanted(x)
  <2>1. CASE whole[m] # NoMsg /\ UNCHANGED <<heap, whole>>
    <3>1. /\ heap \in [Msg -> Heap] /\ whole \in [Msg -> Msg \cup {NoMsg}]
          /\ PartsGoAlong /\ LostStay /\ heap[m] # "none" /\ HeapGoesOn(heap, heap)
      BY <2>1 DEF LuaInv, LuaOK, PartsGoAlong, HeapGoesOn
    <3>2. heap' = heap /\ whole' = whole /\ lost' = lost
      BY <2>1
    <3>3. HeapGoesOn(heap, heap') /\ PartsGoAlong' /\ LostStay'
      BY <3>1, <3>2 DEF PartsGoAlong, LostStay
    <3>4. \A x \in Msg : Wanted(x)' <=> Wanted(x)
      BY <3>2 DEF Wanted
    <3>5. /\ heap' \in [Msg -> Heap] /\ whole' \in [Msg -> Msg \cup {NoMsg}]
          /\ whole'[m] # NoMsg /\ heap'[m] # "none"
      BY <2>1, <3>1, <3>2
    <3>6. /\ \A x \in Msg : whole'[x] = whole[x]
          /\ \A x \in Msg : heap[x] # "none" => whole'[x] = whole[x] /\ heap'[x] # "none"
      BY <3>2
    <3> QED
      BY <3>3, <3>4, <3>5, <3>6
  <2>2. CASE \E p \in Msg : /\ heap[p] = "live" /\ m \in Fresh
                             /\ heap' = [heap EXCEPT ![m] = "live"]
                             /\ whole' = [whole EXCEPT ![m] = p]
    <3>0. PICK p \in Msg : /\ heap[p] = "live" /\ m \in Fresh
                           /\ heap' = [heap EXCEPT ![m] = "live"]
                           /\ whole' = [whole EXCEPT ![m] = p]
      BY <2>2
    <3>1. /\ heap[m] = "none" /\ whole[m] = NoMsg /\ p # NoMsg
          /\ heap \in [Msg -> Heap] /\ whole \in [Msg -> Msg \cup {NoMsg}]
      BY <3>0, FreshIs, MsgIsNat DEF LuaInv, LuaOK
    <3>2. /\ HeapGoesOn(heap, heap') /\ whole'[m] = p /\ heap'[m] = "live"
          /\ \A x \in Msg : x # m => whole'[x] = whole[x]
      BY <3>0, <3>1 DEF HeapGoesOn
    <3>3. \A x \in Msg : heap[x] # "none" => heap'[x] # "none"
      BY <3>2 DEF HeapGoesOn
    <3>4. /\ heap' \in [Msg -> Heap] /\ whole' \in [Msg -> Msg \cup {NoMsg}] /\ PartsGoAlong' /\ LostStay'
          /\ \A x \in Msg : Wanted(x)' <=> Wanted(x)
      BY <3>0, PartMade
    <3>5. ASSUME NEW x \in Msg
          PROVE  /\ \/ whole'[x] = whole[x]
                    \/ heap[x] = "none" /\ whole'[x] \in Msg /\ heap[whole'[x]] = "live"
                 /\ heap[x] # "none" => whole'[x] = whole[x] /\ heap'[x] # "none"
      <4>1. CASE x = m
        BY <3>0, <3>1, <3>2, <4>1
      <4>2. CASE x # m
        BY <3>2, <3>3, <4>2
      <4> QED
        BY <4>1, <4>2
    <3>6. whole'[m] # NoMsg /\ heap'[m] # "none"
      BY <3>1, <3>2
    <3> QED
      BY <3>2, <3>4, <3>5, <3>6
  <2> QED
    BY <2>1, <2>2
<1>3. LuaOK'
  BY <1>1, <1>2 DEF LuaInv, LuaOK, Userdata
<1>4. OneOwner' /\ OwnedRight'
  BY <1>1, <1>2 DEF LuaInv, OneOwner, OwnedRight, Owned
<1>5. DeletedStay'
  BY <1>2, <1>3, DeletedGoOn
<1>6. PartsBorrowed'
  <2>1. \A u \in Ud : ud'[u] = ud[u] \/ (ud'[u].msg = m /\ ~ud'[u].isDelete)
    BY LuaFacts DEF PushUserdata
  <2> QED
    BY <1>2, <2>1, BorrowedGoOn
<1> QED
  BY <1>2, <1>3, <1>4, <1>5, <1>6 DEF LuaInv

\* The owners are who they were.
LEMMA OwnersRemain ==
    ASSUME LuaInv, UNCHANGED <<heap, whole, part1, requests, lost, deleted>>,
           functors' = functors \/ functors' = Append(functors, NoMsg),
           ud' \in [Ud -> Userdata],
           \A m \in wild' \ wild : m = NoMsg \/ (m \in Msg /\ (m \in deleted \/ whole[m] # NoMsg)),
           \A u \in Ud : ud'[u].isDelete = ud[u].isDelete /\ ud'[u].msg = ud[u].msg
    PROVE  LuaInv'
<1>1. OnceHeld(ud') /\ \A x \in Msg : InUserdata(ud', x) <=> InUserdata(ud, x)
  BY LuaFacts, UserdataStays
<1>2. /\ functors' \in Seq(Msg \cup {NoMsg}) /\ OnceReplied(functors')
      /\ \A x \in Msg : InFunctors(functors', x) <=> InFunctors(functors, x)
  <2>1. CASE functors' = functors
    BY <2>1, LuaFacts
  <2>2. CASE functors' = Append(functors, NoMsg)
    <3>1. /\ Append(functors, NoMsg) \in Seq(Msg \cup {NoMsg})
          /\ OnceReplied(Append(functors, NoMsg))
          /\ \A x \in Msg : InFunctors(Append(functors, NoMsg), x)
                              <=> InFunctors(functors, x) \/ x = NoMsg
      BY LuaFacts, ReplyJoins
    <3> QED
      BY <2>2, <3>1, MsgIsNat
  <2> QED
    BY <2>1, <2>2
<1>3. LuaOK'
  BY <1>2 DEF LuaInv, LuaOK, Userdata
<1>4. PartsGoAlong' /\ LostStay' /\ \A x \in Msg : Wanted(x)' <=> Wanted(x)
  BY DEF LuaInv, PartsGoAlong, LostStay, Wanted
<1>5. OneOwner' /\ OwnedRight'
  BY <1>1, <1>2, <1>4 DEF LuaInv, OneOwner, OwnedRight, Owned
<1>6. DeletedStay'
  <2>1. HeapGoesOn(heap, heap')
    BY DEF HeapGoesOn
  <2> QED
    BY <1>2, <1>3, <2>1, DeletedGoOn
<1>7. PartsBorrowed'
  BY BorrowedGoOn
<1> QED
  BY <1>3, <1>4, <1>5, <1>6, <1>7 DEF LuaInv

\* A userdata that lua deletes is the owner of its message, or its script has deleted that.
LEMMA OwnerIs ==
    ASSUME LuaInv, NEW u \in Ud, ud[u].isDelete, ud[u].msg # NoMsg, NEW m, m = ud[u].msg
    PROVE  /\ m \in Msg /\ whole[m] = NoMsg /\ InUserdata(ud, m)
           /\ m \in deleted \/ Wanted(m)
           /\ m \in deleted => heap[m] # "live"
           /\ ~InRequests(requests, m) /\ ~InFunctors(functors, m)
<1>1. m \in Msg /\ whole[m] = NoMsg
  BY DEF LuaInv, LuaOK, PartsBorrowed
<1>2. InUserdata(ud, m)
  BY DEF InUserdata
<1> QED
  BY <1>1, <1>2 DEF LuaInv, OneOwner, OwnedRight, Owned, DeletedStay

\* What a script has deleted, and what goes with it, is deleted together.
LEMMA DeletedBelow ==
    ASSUME LuaInv, NEW m \in Msg, m \in deleted
    PROVE  Below(m) \subseteq deleted
<1> DEFINE S == Msg \cap deleted
<1>1. S \in SUBSET Msg /\ m \in S
  OBVIOUS
<1>2. ASSUME NEW z \in S, NEW x \in Parts(z)
      PROVE  x \in S
  <2>1. x \in Msg /\ whole[x] = z /\ z \in Msg /\ z # NoMsg
    BY <1>2, MsgIsNat DEF Parts
  <2> QED
    BY <2>1 DEF LuaInv, DeletedStay
<1>3. Below(m) \subseteq S
  <2> HIDE DEF S
  <2> QED
    BY <1>1, <1>2 DEF Below
<1> QED
  BY <1>3

\* A delete of what a script has deleted, by the script or by the collector.
LEMMA FreedAgain ==
    ASSUME LuaInv, NEW m \in Msg, m \in deleted, whole[m] = NoMsg, heap[m] # "live",
           heap' = Freed(m), UNCHANGED <<whole, lost>>
    PROVE  /\ heap' \in [Msg -> Heap] /\ PartsGoAlong' /\ LostStay'
           /\ \A x \in Msg : Wanted(x)' <=> Wanted(x)
           /\ \A x \in Msg : heap'[x] = IF x \in Below(m) THEN "twice" ELSE heap[x]
           /\ Below(m) \subseteq deleted
<1>1. PICK h : h = Freed(m)
  OBVIOUS
<1>2. /\ h \in [Msg -> Heap]
      /\ \A x \in Msg : h[x] = IF x \in Below(m) THEN "twice" ELSE heap[x]
      /\ \A x \in Below(m) : heap[x] = heap[m]
      /\ \A y \in Msg : whole[y] # NoMsg => h[y] = h[whole[y]] /\ h[y] # "none"
  BY <1>1, FreedRight DEF LuaInv
<1>3. \A x \in Msg : x \in lost => whole[x] = NoMsg /\ h[x] # "none"
  BY <1>2 DEF LuaInv, LostStay
<1>4. \A x \in Msg : h[x] = "live" /\ x \notin lost /\ whole[x] = NoMsg <=> Wanted(x)
  BY <1>2 DEF Wanted
<1> QED
  BY <1>1, <1>2, <1>3, <1>4, DeletedBelow DEF PartsGoAlong, LostStay, Wanted

LEMMA PbGcKeeps ==
    ASSUME LuaInv, NEW u \in Ud, PbGc(u)
    PROVE  LuaInv'
<1>1. PICK m : m = ud[u].msg
  OBVIOUS
<1>2. /\ heap' = (IF ud[u].isDelete /\ m # NoMsg THEN Freed(m) ELSE heap)
      /\ ud' = [ud EXCEPT ![u] = NoUd]
      /\ UNCHANGED <<whole, part1, requests, functors, lost, deleted, wild>>
  BY <1>1 DEF PbGc
<1>3. /\ ud' \in [Ud -> Userdata] /\ OnceHeld(ud')
      /\ \A x \in Msg : InUserdata(ud', x) <=> InUserdata(ud, x) /\ ~(ud[u].isDelete /\ x = m)
  BY <1>1, <1>2, LuaFacts, UserdataGoes
<1>4. \A v \in Ud : ud'[v] = ud[v] \/ ud'[v].msg = NoMsg
  BY <1>2, LuaFacts DEF NoUd
<1>5. /\ heap' \in [Msg -> Heap] /\ PartsGoAlong' /\ LostStay' /\ DeletedStay'
      /\ \A x \in Msg \ deleted : Wanted(x)' <=> Wanted(x) /\ ~(ud[u].isDelete /\ x = m)
      /\ \A x \in Msg : heap[x] # "none" => heap'[x] # "none"
  <2>1. CASE ud[u].isDelete /\ m # NoMsg /\ m \notin deleted
    <3>1. m \in Msg /\ Wanted(m) /\ heap' = Freed(m)
      BY <1>1, <1>2, <2>1, OwnerIs
    <3>2. /\ heap' \in [Msg -> Heap] /\ PartsGoAlong' /\ LostStay' /\ HeapGoesOn(heap, heap')
          /\ \A x \in Msg : Wanted(x)' <=> Wanted(x) /\ x # m
      BY <1>2, <3>1, RootFreed
    <3>3. LuaOK'
      BY <1>2, <1>3, <3>2 DEF LuaInv, LuaOK, Userdata
    <3>4. DeletedStay'
      BY <1>2, <3>2, <3>3, DeletedGoOn
    <3> QED
      BY <2>1, <3>2, <3>4 DEF HeapGoesOn
  <2>2. CASE ud[u].isDelete /\ m # NoMsg /\ m \in deleted
    <3>1. m \in Msg /\ whole[m] = NoMsg /\ heap[m] # "live" /\ heap' = Freed(m)
      BY <1>1, <1>2, <2>2, OwnerIs
    <3>2. /\ heap' \in [Msg -> Heap] /\ PartsGoAlong' /\ LostStay'
          /\ \A x \in Msg : Wanted(x)' <=> Wanted(x)
          /\ \A x \in Msg : heap'[x] = IF x \in Below(m) THEN "twice" ELSE heap[x]
          /\ Below(m) \subseteq deleted
      BY <1>2, <2>2, <3>1, FreedAgain
    <3>3. DeletedStay'
      BY <1>2, <3>2 DEF LuaInv, DeletedStay
    <3> QED
      BY <2>2, <3>2, <3>3
  <2>3. CASE ~(ud[u].isDelete /\ m # NoMsg)
    <3>1. heap' = heap /\ \A x \in Msg : ~(ud[u].isDelete /\ x = m)
      BY <1>2, <2>3, MsgIsNat
    <3> QED
      BY <1>2, <3>1 DEF LuaInv, LuaOK, PartsGoAlong, LostStay, DeletedStay, Wanted
  <2> QED
    BY <2>1, <2>2, <2>3
<1>6. LuaOK'
  BY <1>2, <1>3, <1>5 DEF LuaInv, LuaOK, Userdata
<1>7. OneOwner'
  BY <1>2, <1>3 DEF LuaInv, OneOwner
<1>8. OwnedRight'
  <2>1. ASSUME NEW x \in Msg, x \notin deleted
        PROVE  Owned(x)' <=> Wanted(x)'
    <3>1. (Owned(x) <=> Wanted(x)) /\ (Wanted(x)' <=> Wanted(x) /\ ~(ud[u].isDelete /\ x = m))
      BY <1>5, <2>1 DEF LuaInv, OwnedRight
    <3>2. ud[u].isDelete /\ x = m => ~InRequests(requests, x) /\ ~InFunctors(functors, x)
      BY <1>1, MsgIsNat, OwnerIs
    <3>3. Owned(x)' <=> InRequests(requests, x) \/ InFunctors(functors, x) \/ InUserdata(ud', x)
      BY <1>2 DEF Owned
    <3> QED
      BY <1>3, <3>1, <3>2, <3>3 DEF Owned
  <2> QED
    BY <1>2, <2>1 DEF OwnedRight
<1>9. PartsBorrowed'
  BY <1>2, <1>4, <1>5, BorrowedGoOn
<1> QED
  BY <1>5, <1>6, <1>7, <1>8, <1>9 DEF LuaInv

LEMMA PbDeleteKeeps ==
    ASSUME LuaInv, NEW u \in Ud, PbDelete(u)
    PROVE  LuaInv'
<1>1. PICK m : m = ud[u].msg
  OBVIOUS
<1>2. /\ ud[u].isDelete /\ m # NoMsg /\ heap' = Freed(m) /\ deleted' = deleted \cup Below(m)
      /\ UNCHANGED <<whole, part1, requests, ud, functors, lost, wild>>
  BY <1>1 DEF PbDelete
<1>3. /\ m \in Msg /\ whole[m] = NoMsg /\ InUserdata(ud, m)
      /\ m \in deleted \/ Wanted(m)
      /\ m \in deleted => heap[m] # "live"
      /\ ~InRequests(requests, m) /\ ~InFunctors(functors, m)
  BY <1>1, <1>2, OwnerIs
<1>4. PICK B : B = Below(m)
  OBVIOUS
<1>5. /\ m \in B /\ B \subseteq Msg
      /\ \A y \in Msg : whole[y] \in B => y \in B
      /\ \A y \in B : y # m => whole[y] \in B
  BY <1>3, <1>4, BelowIs DEF LuaInv, LuaOK
<1>6. PICK s : s = IF heap[m] = "live" THEN "freed" ELSE "twice"
  OBVIOUS
<1>7. PICK h : h = heap'
  OBVIOUS
<1>8. /\ h \in [Msg -> Heap] /\ \A x \in Msg : h[x] = IF x \in B THEN s ELSE heap[x]
      /\ \A x \in B : heap[x] = heap[m]
      /\ \A y \in Msg : whole[y] # NoMsg => h[y] = h[whole[y]] /\ h[y] # "none"
  BY <1>2, <1>3, <1>4, <1>6, <1>7, FreedRight DEF LuaInv
<1>9. \A x \in B : x # m => whole[x] # NoMsg /\ ~Wanted(x)
  BY <1>5, MsgIsNat DEF Wanted
<1>10. \A x \in B : ~InRequests(requests, x) /\ ~InFunctors(functors, x)
  <2>1. ASSUME NEW x \in B, x # m
        PROVE  ~InRequests(requests, x) /\ ~InFunctors(functors, x)
    <3>1. CASE x \in deleted
      BY <1>5, <3>1 DEF LuaInv, DeletedStay
    <3>2. CASE x \notin deleted
      BY <1>5, <1>9, <2>1, <3>2 DEF LuaInv, OwnedRight, Owned
    <3> QED
      BY <3>1, <3>2
  <2> QED
    BY <1>3, <2>1
<1>11. LuaOK' /\ OneOwner'
  BY <1>2, <1>4, <1>5, <1>7, <1>8 DEF LuaInv, LuaOK, OneOwner
<1>12. PartsGoAlong' /\ LostStay'
  <2>1. s # "none"
    BY <1>6
  <2> QED
    BY <1>2, <1>7, <1>8, <2>1 DEF LuaInv, PartsGoAlong, LostStay
<1>13. DeletedStay'
  <2>1. s \in {"freed", "twice"}
    BY <1>6
  <2>2. \A x \in Msg : x \in deleted \cup B => h[x] \in {"freed", "twice"}
    BY <1>8, <2>1 DEF LuaInv, DeletedStay
  <2>3. \A x \in Msg : h[x] = "twice" => x \in deleted \cup B
    BY <1>8 DEF LuaInv, DeletedStay
  <2>4. \A x \in Msg : x \in deleted \cup B => ~InRequests(requests, x) /\ ~InFunctors(functors, x)
    BY <1>10 DEF LuaInv, DeletedStay
  <2>5. ASSUME NEW y \in Msg, whole[y] # NoMsg
        PROVE  y \in deleted \cup B <=> whole[y] \in deleted \cup B
    <3>1. y \in B <=> whole[y] \in B
      BY <1>3, <1>5, <2>5
    <3> QED
      BY <2>5, <3>1 DEF LuaInv, DeletedStay
  <2> QED
    BY <1>2, <1>4, <1>7, <2>2, <2>3, <2>4, <2>5 DEF DeletedStay
<1>14. OwnedRight'
  <2>1. ASSUME NEW x \in Msg, x \notin deleted \cup B
        PROVE  Owned(x)' <=> Wanted(x)'
    <3>1. h[x] = heap[x]
      BY <1>8, <2>1
    <3> QED
      BY <1>2, <1>7, <2>1, <3>1 DEF LuaInv, OwnedRight, Owned, Wanted
  <2> QED
    BY <1>2, <1>4, <2>1 DEF OwnedRight
<1>15. PartsBorrowed'
  <2>1. \A x \in Msg : heap[x] # "none" => h[x] # "none"
    BY <1>6, <1>8
  <2> QED
    BY <1>2, <1>7, <2>1, BorrowedGoOn
<1> QED
  BY <1>11, <1>12, <1>13, <1>14, <1>15 DEF LuaInv

\* What a script uses: there, or a part, or deleted by a script.
LEMMA PbUseKeeps ==
    ASSUME LuaInv, NEW u \in Ud, PbUse(u)
    PROVE  LuaInv'
<1>1. PICK m : m = ud[u].msg
  OBVIOUS
<1>2. /\ wild' = IF Live(m) THEN wild ELSE wild \cup {m}
      /\ UNCHANGED <<heap, whole, part1, requests, ud, functors, lost, deleted>>
  BY <1>1 DEF PbUse
<1>3. ~Live(m) => m = NoMsg \/ (m \in Msg /\ (m \in deleted \/ whole[m] # NoMsg))
  <2>1. m \in Msg \cup {NoMsg}
    BY <1>1 DEF LuaInv, LuaOK
  <2>2. CASE m # NoMsg /\ ud[u].isDelete
    BY <1>1, <2>1, <2>2, OwnerIs DEF Wanted, Live
  <2>3. CASE m # NoMsg /\ ~ud[u].isDelete
    BY <1>1, <2>1, <2>3 DEF LuaInv, PartsBorrowed
  <2> QED
    BY <2>1, <2>2, <2>3
<1> QED
  BY <1>2, <1>3, LuaFacts, OwnersRemain

LEMMA LuaStep == LuaInv /\ [LuaNext]_luaVars => LuaInv'
<1> SUFFICES ASSUME LuaInv, [LuaNext]_luaVars PROVE LuaInv'
  OBVIOUS
<1>1. \A u \in Ud : Usable(u) => ud[u].msg \in Msg /\ heap[ud[u].msg] = "live"
  BY DEF Usable, Live
<1>2. /\ ud \in [Ud -> Userdata]
      /\ part1 \in [Msg -> Msg \cup {NoMsg}]
  BY DEF LuaInv, LuaOK, Userdata
<1>3. ASSUME NEW u \in Ud, NEW v \in Ud, NEW m \in Msg, PbGetMessage(u, v, m)
      PROVE  LuaInv'
  <2>1. PICK p \in Msg : p = ud[u].msg /\ heap[p] = "live"
    BY <1>1, <1>3 DEF PbGetMessage
  <2>2. PushUserdata(v, m, FALSE) /\ UNCHANGED <<requests, functors, lost, deleted, wild>>
    BY <1>3 DEF PbGetMessage
  <2>3. \/ m = part1[p] /\ UNCHANGED <<heap, whole, part1>>
        \/ /\ m \in Fresh /\ heap' = [heap EXCEPT ![m] = "live"]
           /\ whole' = [whole EXCEPT ![m] = p] /\ part1' = [part1 EXCEPT ![p] = m]
    BY <1>3, <2>1 DEF PbGetMessage
  <2>4. part1' \in [Msg -> Msg \cup {NoMsg}] /\ \A x \in Msg : part1'[x] \in {part1[x], m}
    BY <1>2, <2>3
  <2>6. part1[p] = m => whole[m] # NoMsg
    BY MsgIsNat DEF LuaInv, PartsBorrowed
  <2> QED
    BY <2>1, <2>2, <2>3, <2>4, <2>6, PartKeeps
<1>4. ASSUME NEW u \in Ud, NEW v \in Ud, NEW m \in Msg, PbRepeatedAdd(u, v, m)
      PROVE  LuaInv'
  <2>1. PICK p \in Msg : p = ud[u].msg /\ heap[p] = "live"
    BY <1>1, <1>4 DEF PbRepeatedAdd
  <2>2. /\ PushUserdata(v, m, FALSE) /\ UNCHANGED <<requests, functors, lost, deleted, wild, part1>>
        /\ m \in Fresh /\ heap' = [heap EXCEPT ![m] = "live"] /\ whole' = [whole EXCEPT ![m] = p]
    BY <1>4, <2>1 DEF PbRepeatedAdd
  <2>3. \A x \in Msg : part1'[x] \in {part1[x], m}
    BY <2>2
  <2> QED
    BY <1>2, <2>1, <2>2, <2>3, PartKeeps
<1>5. ASSUME NEW u \in Ud, NEW v \in Ud, NEW m \in Msg, PbRepeatedGet(u, v, m)
      PROVE  LuaInv'
  <2>1. whole[m] \in Msg /\ whole[m] # NoMsg
    BY <1>1, <1>5, MsgIsNat DEF PbRepeatedGet, Parts
  <2> QED
    BY <1>2, <1>5, <2>1, PartKeeps DEF PbRepeatedGet
<1>6. ASSUME NEW u \in Ud, PbUse(u) PROVE LuaInv'
  BY <1>6, PbUseKeeps
<1>7. ASSUME NEW u \in Ud, PbDelete(u) PROVE LuaInv'
  BY <1>7, PbDeleteKeeps
<1>8. ASSUME NEW u \in Ud, WkSend(u)
      PROVE  LuaInv'
  BY <1>2, <1>8, OwnersRemain DEF WkSend
<1>9. ASSUME NEW u \in Ud, LetGo(u)
      PROVE  LuaInv'
  <2>1. PICK d : d = ud'
    OBVIOUS
  <2>2. /\ d \in [Ud -> Userdata]
        /\ \A v \in Ud : d[v].isDelete = ud[v].isDelete /\ d[v].msg = ud[v].msg
    <3>1. PICK k : k = [ud[u] EXCEPT !.held = FALSE]
      OBVIOUS
    <3>2. k \in Userdata /\ k.isDelete = ud[u].isDelete /\ k.msg = ud[u].msg
      BY <1>2, <3>1 DEF Userdata
    <3>3. d = [ud EXCEPT ![u] = k]
      BY <1>9, <2>1, <3>1 DEF LetGo
    <3> QED
      BY <1>2, <3>2, <3>3
  <2> QED
    BY <1>2, <1>9, <2>1, <2>2, OwnersRemain DEF LetGo
<1>10. ASSUME NEW kept \in SUBSET Ud, LuaReturns(kept)
       PROVE  LuaInv'
  <2>1. PICK d : d = ud'
    OBVIOUS
  <2>2. ASSUME NEW k \in Userdata, NEW b \in BOOLEAN
        PROVE  LET new == [k EXCEPT !.held = b]
               IN  new \in Userdata /\ new.isDelete = k.isDelete /\ new.msg = k.msg
    BY DEF Userdata
  <2>3. \A v \in Ud : d[v] = [ud[v] EXCEPT !.held = v \in kept]
    BY <1>10, <2>1, Zenon DEF LuaReturns
  <2>4. /\ d \in [Ud -> Userdata]
        /\ \A v \in Ud : d[v].isDelete = ud[v].isDelete /\ d[v].msg = ud[v].msg
    <3>1. ASSUME NEW v \in Ud
          PROVE  d[v] \in Userdata /\ d[v].isDelete = ud[v].isDelete /\ d[v].msg = ud[v].msg
      <4>1. (v \in kept) \in BOOLEAN /\ ud[v] \in Userdata
        BY <1>2
      <4>2. d[v] = [ud[v] EXCEPT !.held = v \in kept]
        BY <2>3
      <4> QED
        BY <2>2, <4>1, <4>2, Zenon
    <3>2. d = [v \in Ud |-> d[v]]
      BY <1>10, <2>1, Zenon DEF LuaReturns
    <3> QED
      BY <3>1, <3>2
  <2> QED
    BY <1>2, <1>10, <2>1, <2>4, OwnersRemain DEF LuaReturns
<1>11. CASE UNCHANGED luaVars
  BY <1>2, <1>11, OwnersRemain DEF luaVars
<1>12. ASSUME NEW m \in Msg, NEW kind \in {"table", "script"}, Request(m, kind) PROVE LuaInv'
  BY <1>12, RequestKeeps
<1>13. ASSUME NEW r \in Msg, OnCommand(r) PROVE LuaInv'
  BY <1>13, OnCommandKeeps
<1>14. ASSUME NEW u \in Ud, NEW defined \in BOOLEAN, OnLuaMessage(u, defined) PROVE LuaInv'
  BY <1>14, OnLuaMessageKeeps
<1>15. ASSUME NEW u \in Ud, NEW m \in Msg \cup {NoMsg}, PbNew(u, m) PROVE LuaInv'
  BY <1>15, PbNewKeeps
<1>16. ASSUME NEW u \in Ud, PbGc(u) PROVE LuaInv'
  BY <1>16, PbGcKeeps
<1> QED
  BY <1>3, <1>4, <1>5, <1>6, <1>7, <1>8, <1>9, <1>10, <1>11, <1>12, <1>13, <1>14, <1>15, <1>16,
     RunReplyKeeps DEF LuaNext

-----------------------------------------------------------------------------
(* What holds of them                                                        *)

\* As many places of a list as there are: none or one.
LEMMA CountRequests ==
    ASSUME NEW list \in Seq(Req), OnceRequested(list), NEW m \in Msg
    PROVE  Cardinality({i \in DOMAIN list : list[i].msg = m}) = IF InRequests(list, m) THEN 1 ELSE 0
<1> DEFINE S == {i \in DOMAIN list : list[i].msg = m}
<1>1. DOMAIN list = 1 .. Len(list)
  OBVIOUS
<1>2. CASE InRequests(list, m)
  <2>1. PICK i \in 1 .. Len(list) : list[i].msg = m
    BY <1>2 DEF InRequests
  <2>2. S = {i}
    BY <1>1, <2>1 DEF OnceRequested
  <2> QED
    BY <1>2, <2>2, FS_Singleton
<1>3. CASE ~InRequests(list, m)
  <2>1. S = {}
    BY <1>1, <1>3 DEF InRequests
  <2> QED
    BY <1>3, <2>1, FS_EmptySet
<1> QED
  BY <1>2, <1>3

LEMMA CountFunctors ==
    ASSUME NEW list \in Seq(Msg \cup {NoMsg}), OnceReplied(list), NEW m \in Msg
    PROVE  Cardinality({i \in DOMAIN list : list[i] = m}) = IF InFunctors(list, m) THEN 1 ELSE 0
<1> DEFINE S == {i \in DOMAIN list : list[i] = m}
<1>1. DOMAIN list = 1 .. Len(list) /\ m # NoMsg
  BY MsgIsNat
<1>2. CASE InFunctors(list, m)
  <2>1. PICK i \in 1 .. Len(list) : list[i] = m
    BY <1>2 DEF InFunctors
  <2>2. S = {i}
    BY <1>1, <2>1 DEF OnceReplied
  <2> QED
    BY <1>2, <2>2, FS_Singleton
<1>3. CASE ~InFunctors(list, m)
  <2>1. S = {}
    BY <1>1, <1>3 DEF InFunctors
  <2> QED
    BY <1>3, <2>1, FS_EmptySet
<1> QED
  BY <1>2, <1>3

LEMMA CountUserdata ==
    ASSUME ud \in [Ud -> Userdata], OnceHeld(ud), NEW m \in Msg
    PROVE  Cardinality({u \in Ud : ud[u].msg = m /\ ud[u].isDelete})
               = IF InUserdata(ud, m) THEN 1 ELSE 0
<1> DEFINE S == {u \in Ud : ud[u].msg = m /\ ud[u].isDelete}
<1>1. m # NoMsg
  BY MsgIsNat
<1>2. CASE InUserdata(ud, m)
  <2>1. PICK u \in Ud : ud[u].isDelete /\ ud[u].msg = m
    BY <1>2 DEF InUserdata
  <2>2. S = {u}
    BY <1>1, <2>1 DEF OnceHeld
  <2> QED
    BY <1>2, <2>2, FS_Singleton
<1>3. CASE ~InUserdata(ud, m)
  <2>1. S = {}
    BY <1>3 DEF InUserdata
  <2> QED
    BY <1>3, <2>1, FS_EmptySet
<1> QED
  BY <1>2, <1>3

LEMMA InvScriptsAreSafe == LuaInv => ScriptsAreSafe
<1> SUFFICES ASSUME LuaInv PROVE ScriptsAreSafe
  OBVIOUS
<1>1. /\ \A m \in Msg : whole[m] # NoMsg => heap[m] = heap[whole[m]]
      /\ \A m \in wild : m = NoMsg \/ m \in deleted \/ whole[m] # NoMsg
  BY DEF LuaInv, PartsGoAlong, PartsBorrowed
<1>2. ASSUME NEW m \in Msg \ deleted
      PROVE  heap[m] # "twice" /\ OwnersOf(m) = IF heap[m] = "live" /\ m \notin lost THEN 1 ELSE 0
  <2>1. heap[m] # "twice" /\ whole[m] \in Msg \cup {NoMsg}
    BY DEF LuaInv, LuaOK, DeletedStay
  <2>2. PICK q : q = Cardinality({i \in DOMAIN requests : requests[i].msg = m})
    OBVIOUS
  <2>3. PICK f : f = Cardinality({i \in DOMAIN functors : functors[i] = m})
    OBVIOUS
  <2>4. PICK d : d = Cardinality({u \in Ud : ud[u].msg = m /\ ud[u].isDelete})
    OBVIOUS
  <2>5. PICK w : w = Cardinality({x \in {whole[m]} : Live(x)})
    OBVIOUS
  <2>6. /\ q = IF InRequests(requests, m) THEN 1 ELSE 0
        /\ f = IF InFunctors(functors, m) THEN 1 ELSE 0
        /\ d = IF InUserdata(ud, m) THEN 1 ELSE 0
    BY <2>2, <2>3, <2>4, LuaFacts, CountRequests, CountFunctors, CountUserdata
  <2>7. w = IF Live(whole[m]) THEN 1 ELSE 0
    <3>1. CASE Live(whole[m])
      <4>1. {x \in {whole[m]} : Live(x)} = {whole[m]}
        BY <3>1
      <4> QED
        BY <2>5, <3>1, <4>1, FS_Singleton
    <3>2. CASE ~Live(whole[m])
      <4>1. {x \in {whole[m]} : Live(x)} = {}
        BY <3>2
      <4> QED
        BY <2>5, <3>2, <4>1, FS_EmptySet
    <3> QED
      BY <3>1, <3>2
  <2>8. OwnersOf(m) = q + f + d + w
    BY <2>2, <2>3, <2>4, <2>5 DEF OwnersOf
  <2>9. q + f + d = IF Wanted(m) THEN 1 ELSE 0
    BY <2>6 DEF LuaInv, OneOwner, OwnedRight, Owned
  <2>10. Live(whole[m]) <=> heap[m] = "live" /\ whole[m] # NoMsg
    BY <2>1, MsgIsNat DEF LuaInv, PartsGoAlong, Live
  <2>11. m \in lost => whole[m] = NoMsg
    BY DEF LuaInv, LostStay
  <2>12. q + f + d + w = IF heap[m] = "live" /\ m \notin lost THEN 1 ELSE 0
    BY <2>6, <2>7, <2>9, <2>10, <2>11 DEF Wanted
  <2> QED
    BY <2>1, <2>8, <2>12
<1> QED
  BY <1>1, <1>2 DEF ScriptsAreSafe

\* However scripts hold wholes and parts of messages, however handlers fail, and in
\* whatever order lua collects: a message of dbsrv that exists has one owner that deletes
\* it, or was dropped for want of a handler; its parts live as long as it; and only what a
\* script has deleted by pb.delete is deleted again, only that and parts are used when
\* they are gone (or the nothing that is made of an unknown type).
THEOREM MessagesHaveOneOwner == LuaSpec => []ScriptsAreSafe
<1>1. LuaInv /\ [LuaNext]_luaVars => LuaInv'
  BY LuaStep
<1> QED
  BY <1>1, LuaStarts, InvScriptsAreSafe, PTL DEF LuaSpec

-----------------------------------------------------------------------------
(* The files of the log                                                      *)

Last1 == MaxSeconds + 1

LineRecord == [kind : LogKind, n : Nat] \cup {StopLine}

LogTypes ==
    /\ logQueue \in Seq(LineRecord)
    /\ plusFile \in [LogKind -> Seq(Nat)]
    /\ archive \in [LogKind -> [0 .. MaxSeconds -> Seq(Nat)]]
    /\ took \in [LogKind -> Seq(Nat)] /\ replaced \in [LogKind -> Seq(Nat)]
    /\ second \in 0 .. MaxSeconds /\ nlogged \in Nat

\* Lines wait in the order of logging, and those that were written were logged before.
WaitInOrder(queue, count) ==
    /\ \A i \in 1 .. Len(queue) : queue[i].n <= count
    /\ \A i, j \in 1 .. Len(queue) :
          i < j /\ queue[i] # StopLine /\ queue[j] # StopLine => queue[i].n < queue[j].n

TookBefore(queue, count, lines) ==
    \A k \in LogKind : \A x \in ToSet(lines[k]) :
        x <= count /\ \A i \in 1 .. Len(queue) : queue[i] # StopLine => x < queue[i].n

\* No file has the name of a second that is still to come.
NoneLater == \A k \in LogKind, s \in 0 .. MaxSeconds : s > second => archive[k][s] = <<>>

\* What was replaced had been written.
ReplacedWereKept == \A k \in LogKind : ToSet(replaced[k]) \subseteq ToSet(took[k])

LogInv ==
    /\ LogTypes /\ WaitInOrder(logQueue, nlogged) /\ TookBefore(logQueue, nlogged, took)
    /\ NoneLater /\ ReplacedWereKept /\ LinesAreKept

\* What is in a file of the log, by its places.
LEMMA LineElements ==
    ASSUME NEW l \in Seq(Nat)
    PROVE  \A x : x \in ToSet(l) <=> \E i \in 1 .. Len(l) : l[i] = x
BY DEF ToSet

\* Two files, one behind the other.
LEMMA Joined ==
    ASSUME NEW l \in Seq(Nat), NEW m \in Seq(Nat)
    PROVE  l \o m \in Seq(Nat) /\ ToSet(l \o m) = ToSet(l) \cup ToSet(m)
<1>1. PICK q : q = l \o m
  OBVIOUS
<1>2. /\ q \in Seq(Nat) /\ Len(l) \in Nat /\ Len(m) \in Nat /\ Len(q) = Len(l) + Len(m)
      /\ \A i \in 1 .. Len(l) + Len(m) : q[i] = IF i <= Len(l) THEN l[i] ELSE m[i - Len(l)]
  BY <1>1, ConcatProperties
<1>3. ASSUME NEW x \in ToSet(q) PROVE x \in ToSet(l) \cup ToSet(m)
  <2>1. PICK i \in 1 .. Len(q) : q[i] = x
    BY <1>2, LineElements
  <2>2. CASE i <= Len(l)
    <3>1. i \in 1 .. Len(l) /\ l[i] = x
      BY <1>2, <2>1, <2>2
    <3> QED
      BY <3>1, LineElements
  <2>3. CASE ~(i <= Len(l))
    <3>1. i - Len(l) \in 1 .. Len(m) /\ m[i - Len(l)] = x
      BY <1>2, <2>1, <2>3
    <3> QED
      BY <3>1, LineElements
  <2> QED
    BY <2>2, <2>3
<1>4. ASSUME NEW x \in ToSet(l) PROVE x \in ToSet(q)
  <2>1. PICK i \in 1 .. Len(l) : l[i] = x
    BY LineElements
  <2>2. i \in 1 .. Len(q) /\ q[i] = x
    BY <1>2, <2>1
  <2> QED
    BY <1>2, <2>2, LineElements
<1>5. ASSUME NEW x \in ToSet(m) PROVE x \in ToSet(q)
  <2>1. PICK i \in 1 .. Len(m) : m[i] = x
    BY LineElements
  <2>2. Len(l) + i \in 1 .. Len(q) /\ ~(Len(l) + i <= Len(l)) /\ (Len(l) + i) - Len(l) = i
    BY SMTT(30), <1>2, <2>1
  <2>3. q[Len(l) + i] = x
    BY <1>2, <2>1, <2>2
  <2> QED
    BY <1>2, <2>2, <2>3, LineElements
<1> QED
  BY <1>1, <1>2, <1>3, <1>4, <1>5

\* A line is somewhere in a file.
Holds(l, x) == \E i \in 1 .. Len(l) : l[i] = x

\* The lines of all files, and their order, by their places.
LEMMA LinesAre ==
    ASSUME NEW f \in [0 .. Last1 -> Seq(Nat)]
    PROVE  /\ \A x : x \in LinesIn(f) <=> \E s \in 0 .. Last1 : Holds(f[s], x)
           /\ InOrderOfLogging(f) <=>
                 \A s, t \in 0 .. Last1 : \A i \in 1 .. Len(f[s]), j \in 1 .. Len(f[t]) :
                     s < t \/ (s = t /\ i < j) => f[s][i] < f[t][j]
<1>1. \A s \in 0 .. Last1 : f[s] \in Seq(Nat) /\ DOMAIN f[s] = 1 .. Len(f[s])
  OBVIOUS
<1>2. \A x : x \in LinesIn(f) <=> \E s \in 0 .. Last1 : x \in ToSet(f[s])
  BY DEF LinesIn
<1>3. \A x : x \in LinesIn(f) <=> \E s \in 0 .. Last1 : Holds(f[s], x)
  BY <1>1, <1>2, LineElements DEF Holds
<1>4. InOrderOfLogging(f) <=>
          \A s, t \in 0 .. Last1 : \A i \in DOMAIN f[s], j \in DOMAIN f[t] :
              s < t \/ (s = t /\ i < j) => f[s][i] < f[t][j]
  BY DEF InOrderOfLogging
<1> QED
  BY <1>1, <1>3, <1>4

\* A line more.
LEMMA LineAdded ==
    ASSUME NEW l \in Seq(Nat), NEW n \in Nat
    PROVE  /\ Append(l, n) \in Seq(Nat) /\ Len(Append(l, n)) = Len(l) + 1
           /\ Append(l, n)[Len(l) + 1] = n
           /\ \A i \in 1 .. Len(l) : Append(l, n)[i] = l[i]
           /\ ToSet(Append(l, n)) = ToSet(l) \cup {n}
<1>1. PICK q : q = Append(l, n)
  OBVIOUS
<1>2. /\ q \in Seq(Nat) /\ Len(l) \in Nat /\ Len(q) = Len(l) + 1 /\ q[Len(l) + 1] = n
      /\ \A i \in 1 .. Len(l) : q[i] = l[i]
  BY <1>1
<1>3. \A i \in 1 .. Len(q) : i \in 1 .. Len(l) \/ i = Len(l) + 1
  BY <1>2
<1>4. \A x : x \in ToSet(q) <=> x \in ToSet(l) \cup {n}
  <2>1. Len(l) + 1 \in 1 .. Len(q) /\ \A i \in 1 .. Len(l) : i \in 1 .. Len(q)
    BY <1>2
  <2> QED
    BY SMTT(30), <1>2, <1>3, <2>1, LineElements
<1> QED
  BY <1>1, <1>2, <1>4

\* A line after all the others, at the end of the last file.
LEMMA LineWritten ==
    ASSUME NEW f \in [0 .. Last1 -> Seq(Nat)], InOrderOfLogging(f),
           NEW n \in Nat, \A x \in LinesIn(f) : x < n,
           NEW g \in [0 .. Last1 -> Seq(Nat)], g[Last1] = Append(f[Last1], n),
           \A s \in 0 .. MaxSeconds : g[s] = f[s]
    PROVE  InOrderOfLogging(g) /\ LinesIn(g) = LinesIn(f) \cup {n}
<1>20. /\ \A x : x \in LinesIn(f) <=> \E s \in 0 .. Last1 : Holds(f[s], x)
       /\ \A x : x \in LinesIn(g) <=> \E s \in 0 .. Last1 : Holds(g[s], x)
       /\ \A s, t \in 0 .. Last1 : \A i \in 1 .. Len(f[s]), j \in 1 .. Len(f[t]) :
             s < t \/ (s = t /\ i < j) => f[s][i] < f[t][j]
  BY LinesAre
<1>21. \A s \in 0 .. Last1 : \A i \in 1 .. Len(f[s]) : f[s][i] \in Nat /\ f[s][i] \in LinesIn(f)
  BY <1>20 DEF Holds
<1>1. Last1 \in Nat /\ MaxSeconds \in Nat /\ Last1 = MaxSeconds + 1
  BY LogAssumption DEF Last1
<1>2. PICK l \in Seq(Nat) : l = f[Last1]
  BY <1>1
<1>3. PICK m \in Nat : m = Len(l)
  BY <1>2
<1>4. /\ Len(g[Last1]) = m + 1 /\ g[Last1][m + 1] = n
      /\ \A i \in 1 .. m : g[Last1][i] = f[Last1][i]
  BY <1>2, <1>3, LineAdded
<1>5. /\ \A s \in 0 .. MaxSeconds : s \in 0 .. Last1 /\ s < Last1
      /\ \A s \in 0 .. Last1 : s \in 0 .. MaxSeconds \/ s = Last1
      /\ Last1 \in 0 .. Last1
  BY <1>1
<1>6. ASSUME NEW s \in 0 .. Last1, NEW i \in 1 .. Len(g[s])
      PROVE  \/ i \in 1 .. Len(f[s]) /\ g[s][i] = f[s][i] /\ g[s][i] \in LinesIn(f)
             \/ s = Last1 /\ i = m + 1 /\ g[s][i] = n
  <2>1. CASE s = Last1
    <3>1. i \in 1 .. m \/ i = m + 1
      BY SMTT(30), <1>3, <1>4, <2>1
    <3> QED
      BY <1>2, <1>3, <1>4, <1>5, <2>1, <3>1, <1>20, <1>21 DEF Holds
  <2>2. CASE s \in 0 .. MaxSeconds
    BY <1>5, <2>2, <1>20, <1>21 DEF Holds
  <2> QED
    BY <1>5, <2>1, <2>2
<1>7. ASSUME NEW s \in 0 .. Last1, NEW i \in 1 .. Len(f[s])
      PROVE  i \in 1 .. Len(g[s]) /\ g[s][i] = f[s][i]
  <2>1. CASE s = Last1
    <3>1. i \in 1 .. m
      BY <1>2, <1>3, <2>1
    <3>2. i \in 1 .. m + 1
      BY <1>3, <3>1
    <3> QED
      BY <1>4, <2>1, <3>1, <3>2
  <2>2. CASE s \in 0 .. MaxSeconds
    BY <2>2
  <2> QED
    BY <1>5, <2>1, <2>2
<1>8. ASSUME NEW s \in 0 .. Last1, NEW t \in 0 .. Last1, NEW i \in 1 .. Len(g[s]),
             NEW j \in 1 .. Len(g[t]), s < t \/ (s = t /\ i < j)
      PROVE  g[s][i] < g[t][j]
  <2>1. CASE i \in 1 .. Len(f[s]) /\ g[s][i] = f[s][i] /\ g[s][i] \in LinesIn(f)
    <3>1. CASE j \in 1 .. Len(f[t]) /\ g[t][j] = f[t][j]
      BY <1>8, <2>1, <3>1, <1>21, <1>20
    <3>2. CASE g[t][j] = n
      BY <2>1, <3>2
    <3> QED
      BY <1>6, <3>1, <3>2
  <2>2. CASE s = Last1 /\ i = m + 1
    <3>1. t = Last1 /\ j > m + 1
      BY <1>1, <1>3, <1>8, <2>2
    <3> QED
      BY <1>3, <1>4, <3>1
  <2> QED
    BY <1>6, <2>1, <2>2
<1>9. InOrderOfLogging(g)
  BY <1>8, LinesAre
<1>10. \A x : x \in LinesIn(g) <=> x \in LinesIn(f) \cup {n}
  <2>1. n \in LinesIn(g)
    <3>1. m + 1 \in 1 .. Len(g[Last1])
      BY <1>3, <1>4
    <3> QED
      BY <1>4, <1>5, <3>1, <1>20, <1>21 DEF Holds
  <2>2. ASSUME NEW x \in LinesIn(f) PROVE x \in LinesIn(g)
    <3>1. PICK s \in 0 .. Last1 : \E i \in 1 .. Len(f[s]) : f[s][i] = x
      BY <1>20 DEF Holds
    <3> QED
      BY <1>7, <3>1, <1>20, <1>21 DEF Holds
  <2>3. ASSUME NEW x \in LinesIn(g) PROVE x \in LinesIn(f) \cup {n}
    <3>1. PICK s \in 0 .. Last1 : \E i \in 1 .. Len(g[s]) : g[s][i] = x
      BY <1>20 DEF Holds
    <3> QED
      BY <1>6, <3>1
  <2> QED
    BY <2>1, <2>2, <2>3
<1> QED
  BY <1>9, <1>10

\* The last file takes the name of a second that no file has a later name than.
Renamed(f, now, g) ==
    /\ now \in 0 .. MaxSeconds /\ \A s \in 0 .. MaxSeconds : s > now => f[s] = <<>>
    /\ g[now] = f[Last1] /\ g[Last1] = <<>>
    /\ \A s \in 0 .. MaxSeconds : s # now => g[s] = f[s]

\* Its lines keep their places before and behind the others; those of the name go.
LEMMA FileRenamed ==
    ASSUME NEW f \in [0 .. Last1 -> Seq(Nat)], InOrderOfLogging(f),
           NEW g \in [0 .. Last1 -> Seq(Nat)], NEW now, Renamed(f, now, g)
    PROVE  InOrderOfLogging(g) /\ LinesIn(g) = LinesIn(f) \ ToSet(f[now])
<1> USE DEF Renamed
<1>20. /\ \A x : x \in LinesIn(f) <=> \E s \in 0 .. Last1 : Holds(f[s], x)
       /\ \A x : x \in LinesIn(g) <=> \E s \in 0 .. Last1 : Holds(g[s], x)
       /\ \A s, t \in 0 .. Last1 : \A i \in 1 .. Len(f[s]), j \in 1 .. Len(f[t]) :
             s < t \/ (s = t /\ i < j) => f[s][i] < f[t][j]
  BY LinesAre
<1>21. \A s \in 0 .. Last1 : \A i \in 1 .. Len(f[s]) : f[s][i] \in Nat /\ f[s][i] \in LinesIn(f)
  BY <1>20 DEF Holds
<1>1. Last1 \in Nat /\ MaxSeconds \in Nat /\ Last1 = MaxSeconds + 1
  BY LogAssumption DEF Last1
<1>2. /\ \A s \in 0 .. MaxSeconds : s \in 0 .. Last1 /\ s < Last1
      /\ \A s \in 0 .. Last1 : s \in 0 .. MaxSeconds \/ s = Last1
      /\ Last1 \in 0 .. Last1 /\ now \in 0 .. Last1 /\ now < Last1 /\ now \in Nat
  BY <1>1
<1> DEFINE From(s) == IF s = now THEN Last1 ELSE s
<1>3. ASSUME NEW s \in 0 .. Last1, NEW i \in 1 .. Len(g[s])
      PROVE  /\ s <= now /\ From(s) \in 0 .. Last1 /\ From(s) # now
             /\ i \in 1 .. Len(f[From(s)]) /\ g[s][i] = f[From(s)][i]
  <2>1. CASE s = now
    BY <1>2, <2>1
  <2>2. CASE s \in 0 .. MaxSeconds /\ s # now
    <3>1. g[s] = f[s] /\ ~(s > now)
      <4>1. ASSUME s > now PROVE FALSE
        BY <2>2, <4>1
      <4> QED
        BY <2>2, <4>1
    <3> QED
      BY <1>2, <2>2, <3>1
  <2>3. CASE s = Last1
    BY <2>3
  <2> QED
    BY <1>2, <2>1, <2>2, <2>3
<1>4. \A s, t \in 0 .. Last1 : s < t /\ t <= now => From(s) < From(t)
  BY SMTT(30), <1>1, <1>2
<1> HIDE DEF From
<1>5. ASSUME NEW s \in 0 .. Last1, NEW t \in 0 .. Last1, NEW i \in 1 .. Len(g[s]),
             NEW j \in 1 .. Len(g[t]), s < t \/ (s = t /\ i < j)
      PROVE  g[s][i] < g[t][j]
  <2>1. From(s) < From(t) \/ (From(s) = From(t) /\ i < j)
    BY <1>3, <1>4, <1>5
  <2>2. f[From(s)][i] < f[From(t)][j]
    BY <1>3, <2>1, <1>21, <1>20
  <2> QED
    BY <1>3, <2>2
<1>6. InOrderOfLogging(g)
  BY <1>5, LinesAre
<1>7. \A x : x \in ToSet(f[now]) <=> \E i \in 1 .. Len(f[now]) : f[now][i] = x
  BY <1>2, LineElements
<1>8. ASSUME NEW x \in LinesIn(g) PROVE x \in LinesIn(f) \ ToSet(f[now])
  <2>1. PICK s \in 0 .. Last1 : \E i \in 1 .. Len(g[s]) : g[s][i] = x
    BY <1>20 DEF Holds
  <2>2. PICK i \in 1 .. Len(g[s]) : g[s][i] = x
    BY <2>1
  <2>3. PICK t \in 0 .. Last1 : t = From(s) /\ t # now /\ i \in 1 .. Len(f[t]) /\ f[t][i] = x
    BY <1>3, <2>2
  <2>4. x \in LinesIn(f)
    BY <2>3, <1>20, <1>21 DEF Holds
  <2>5. ASSUME NEW j \in 1 .. Len(f[now]), f[now][j] = x PROVE FALSE
    <3>1. t < now \/ now < t
      BY <1>2, <2>3
    <3>2. f[t][i] < f[now][j] \/ f[now][j] < f[t][i]
      BY <1>2, <2>3, <2>5, <3>1, <1>20
    <3>3. x \in Nat
      BY <2>3
    <3> QED
      BY <2>3, <2>5, <3>2, <3>3
  <2> QED
    BY <1>7, <2>4, <2>5
<1>9. ASSUME NEW x \in LinesIn(f), x \notin ToSet(f[now]) PROVE x \in LinesIn(g)
  <2>1. PICK s \in 0 .. Last1 : \E i \in 1 .. Len(f[s]) : f[s][i] = x
    BY <1>20 DEF Holds
  <2>2. s # now
    BY <1>7, <1>9, <2>1
  <2>3. CASE s = Last1
    <3>1. g[now] = f[s]
      BY <2>3
    <3> QED
      BY <1>2, <2>1, <3>1, <1>20, <1>21 DEF Holds
  <2>4. CASE s \in 0 .. MaxSeconds
    <3>1. g[s] = f[s]
      BY <2>2, <2>4
    <3> QED
      BY <2>1, <3>1, <1>20, <1>21 DEF Holds
  <2> QED
    BY <1>2, <2>3, <2>4
<1> QED
  BY <1>6, <1>8, <1>9

\* The files of a kind are these, before a step and after it.
LEMMA FilesAre ==
    ASSUME NEW k \in LogKind, plusFile \in [LogKind -> Seq(Nat)],
           archive \in [LogKind -> [0 .. MaxSeconds -> Seq(Nat)]]
    PROVE  /\ Files(k) \in [0 .. Last1 -> Seq(Nat)] /\ Files(k)[Last1] = plusFile[k]
           /\ \A s \in 0 .. MaxSeconds : Files(k)[s] = archive[k][s]
<1>1. Last1 \in Nat /\ MaxSeconds \in Nat /\ Last1 = MaxSeconds + 1
  BY LogAssumption DEF Last1
<1>2. \A s \in 0 .. Last1 : s <= MaxSeconds => s \in 0 .. MaxSeconds
  BY <1>1
<1>3. PICK f : f = Files(k)
  OBVIOUS
<1>4. f = [s \in 0 .. Last1 |-> IF s <= MaxSeconds THEN archive[k][s] ELSE plusFile[k]]
  BY <1>3 DEF Files, Last1
<1>5. f \in [0 .. Last1 -> Seq(Nat)]
  BY <1>1, <1>2, <1>4
<1>6. Last1 \in 0 .. Last1 /\ ~(Last1 <= MaxSeconds)
      /\ \A s \in 0 .. MaxSeconds : s \in 0 .. Last1 /\ s <= MaxSeconds
  BY <1>1
<1> QED
  BY <1>3, <1>4, <1>5, <1>6

LEMMA FilesBecome ==
    ASSUME NEW k \in LogKind, plusFile' \in [LogKind -> Seq(Nat)],
           archive' \in [LogKind -> [0 .. MaxSeconds -> Seq(Nat)]]
    PROVE  /\ Files(k)' \in [0 .. Last1 -> Seq(Nat)] /\ Files(k)'[Last1] = plusFile'[k]
           /\ \A s \in 0 .. MaxSeconds : Files(k)'[s] = archive'[k][s]
<1>1. Last1 \in Nat /\ MaxSeconds \in Nat /\ Last1 = MaxSeconds + 1
  BY LogAssumption DEF Last1
<1>2. \A s \in 0 .. Last1 : s <= MaxSeconds => s \in 0 .. MaxSeconds
  BY <1>1
<1>3. PICK f : f = Files(k)'
  OBVIOUS
<1>4. f = [s \in 0 .. Last1 |-> IF s <= MaxSeconds THEN archive'[k][s] ELSE plusFile'[k]]
  BY <1>3 DEF Files, Last1
<1>5. f \in [0 .. Last1 -> Seq(Nat)]
  BY <1>1, <1>2, <1>4
<1>6. Last1 \in 0 .. Last1 /\ ~(Last1 <= MaxSeconds)
      /\ \A s \in 0 .. MaxSeconds : s \in 0 .. Last1 /\ s <= MaxSeconds
  BY <1>1
<1> QED
  BY <1>3, <1>4, <1>5, <1>6

\* Before the first start there are no files.
LEMMA LogStarts == LogInit => LogInv
<1> SUFFICES ASSUME LogInit PROVE LogInv
  OBVIOUS
<1>1. LogTypes
  <2>1. <<>> \in Seq(Nat) /\ <<>> \in Seq(LineRecord)
    OBVIOUS
  <2> QED
    BY <2>1, LogAssumption DEF LogInit, LogTypes, NoLines
<1>2. Len(logQueue) = 0 /\ 1 .. 0 = {}
  BY DEF LogInit
<1>3. \A k \in LogKind : ToSet(took[k]) = {} /\ ToSet(replaced[k]) = {}
  BY DEF LogInit, NoLines, ToSet
<1>4. WaitInOrder(logQueue, nlogged) /\ TookBefore(logQueue, nlogged, took) /\ ReplacedWereKept
  BY <1>2, <1>3 DEF WaitInOrder, TookBefore, ReplacedWereKept
<1>5. NoneLater
  BY DEF LogInit, NoneLater
<1>6. LinesAreKept
  <2>1. SUFFICES ASSUME NEW k \in LogKind
                 PROVE  InOrderOfLogging(Files(k))
                        /\ LinesIn(Files(k)) = ToSet(took[k]) \ ToSet(replaced[k])
    BY DEF LinesAreKept
  <2>2. PICK f : f = Files(k)
    OBVIOUS
  <2>3. f \in [0 .. Last1 -> Seq(Nat)] /\ \A s \in 0 .. Last1 : f[s] = <<>>
    <3>1. f = [s \in 0 .. MaxSeconds + 1 |-> <<>>]
      BY <2>2 DEF LogInit, Files, NoLines
    <3> QED
      BY <3>1 DEF Last1
  <2>4. \A s \in 0 .. Last1 : 1 .. Len(f[s]) = {}
    BY <2>3
  <2> QED
    BY <1>3, <2>2, <2>3, <2>4, LinesAre DEF Holds
<1> QED
  BY <1>1, <1>4, <1>5, <1>6 DEF LogInv

\* The file that is written keeps its name.
Written(k, lines) ==
    /\ plusFile' = [plusFile EXCEPT ![k] = lines] /\ UNCHANGED <<archive, replaced>>

\* After the step: the files are files, and those of the other kinds are what they were.
FilesAfter(k) ==
    /\ plusFile' \in [LogKind -> Seq(Nat)]
    /\ archive' \in [LogKind -> [0 .. MaxSeconds -> Seq(Nat)]]
    /\ replaced' \in [LogKind -> Seq(Nat)]
    /\ \A x \in LogKind \ {k} :
          plusFile'[x] = plusFile[x] /\ archive'[x] = archive[x] /\ replaced'[x] = replaced[x]
    /\ \A s \in 0 .. MaxSeconds : s > second => archive'[k][s] = <<>>

\* The files of the kind hold what was kept, in order.
FilesHold(k, kept) ==
    InOrderOfLogging(Files(k)') /\ LinesIn(Files(k)') = kept \ ToSet(replaced'[k])

\* The file takes the name of this second, or keeps its own.
LEMMA RenameKeeps ==
    ASSUME LogTypes, NoneLater, NEW k \in LogKind, NEW lines \in Seq(Nat),
           RenameLog(k, lines) \/ Written(k, lines),
           NEW f \in [0 .. Last1 -> Seq(Nat)], InOrderOfLogging(f), f[Last1] = lines,
           \A s \in 0 .. MaxSeconds : f[s] = archive[k][s],
           NEW kept, LinesIn(f) = kept \ ToSet(replaced[k])
    PROVE  FilesAfter(k) /\ FilesHold(k, kept)
           /\ ToSet(replaced'[k]) \subseteq ToSet(replaced[k]) \cup LinesIn(f)
<1>1. PICK old \in Seq(Nat) : old = archive[k][second]
  BY DEF LogTypes
<1>2. PICK p : p = plusFile'
  OBVIOUS
<1>3. PICK a : a = archive'
  OBVIOUS
<1>4. PICK r : r = replaced'
  OBVIOUS
<1>5. PICK g : g = Files(k)'
  OBVIOUS
<1>6. /\ p \in [LogKind -> Seq(Nat)] /\ a \in [LogKind -> [0 .. MaxSeconds -> Seq(Nat)]]
      => /\ g \in [0 .. Last1 -> Seq(Nat)] /\ g[Last1] = p[k]
         /\ \A s \in 0 .. MaxSeconds : g[s] = a[k][s]
  BY <1>2, <1>3, <1>5, FilesBecome
<1>7. CASE RenameLog(k, lines) /\ place.renames
  <2>1. PICK row : row = [archive[k] EXCEPT ![second] = lines]
    OBVIOUS
  <2>2. /\ row \in [0 .. MaxSeconds -> Seq(Nat)] /\ row[second] = lines
        /\ \A s \in 0 .. MaxSeconds : s # second => row[s] = archive[k][s]
    BY <2>1 DEF LogTypes
  <2>3. a = [archive EXCEPT ![k] = row]
    BY <1>3, <1>7, <2>1 DEF RenameLog
  <2>4. /\ a \in [LogKind -> [0 .. MaxSeconds -> Seq(Nat)]] /\ a[k] = row
        /\ \A x \in LogKind \ {k} : a[x] = archive[x]
    BY <2>2, <2>3 DEF LogTypes
  <2>5. /\ p \in [LogKind -> Seq(Nat)] /\ p[k] = <<>>
        /\ \A x \in LogKind \ {k} : p[x] = plusFile[x]
    <3>1. p = [plusFile EXCEPT ![k] = <<>>]
      BY <1>2, <1>7 DEF RenameLog
    <3>2. <<>> \in Seq(Nat) /\ plusFile \in [LogKind -> Seq(Nat)]
      BY DEF LogTypes
    <3> QED
      BY <3>1, <3>2
  <2>6. PICK both : both = replaced[k] \o old
    OBVIOUS
  <2>7. replaced[k] \in Seq(Nat)
    BY DEF LogTypes
  <2>8. both \in Seq(Nat) /\ ToSet(both) = ToSet(replaced[k]) \cup ToSet(old)
    BY <1>1, <2>6, <2>7, Joined
  <2>9. /\ r \in [LogKind -> Seq(Nat)] /\ r[k] = both
        /\ \A x \in LogKind \ {k} : r[x] = replaced[x]
    <3>1. r = [replaced EXCEPT ![k] = both]
      BY <1>1, <1>4, <1>7, <2>6 DEF RenameLog
    <3> QED
      BY <2>8, <3>1 DEF LogTypes
  <2>10. /\ g \in [0 .. Last1 -> Seq(Nat)] /\ g[Last1] = <<>>
         /\ \A s \in 0 .. MaxSeconds : g[s] = row[s]
    BY <1>6, <2>4, <2>5
  <2>11. second \in 0 .. MaxSeconds /\ \A s \in 0 .. MaxSeconds : s > second => f[s] = <<>>
    BY DEF LogTypes, NoneLater
  <2>12. InOrderOfLogging(g) /\ LinesIn(g) = LinesIn(f) \ ToSet(old)
    <3>1. PICK now \in 0 .. MaxSeconds : now = second
      BY <2>11
    <3>2. f[now] = old /\ g[now] = f[Last1] /\ g[Last1] = <<>>
      BY <1>1, <2>2, <2>10, <3>1
    <3>3. /\ \A s \in 0 .. MaxSeconds : s # now => g[s] = f[s]
          /\ \A s \in 0 .. MaxSeconds : s > now => f[s] = <<>>
      BY <2>2, <2>10, <2>11, <3>1
    <3>4. Renamed(f, now, g)
      BY <3>1, <3>2, <3>3 DEF Renamed
    <3>5. InOrderOfLogging(g) /\ LinesIn(g) = LinesIn(f) \ ToSet(f[now])
      <4>1. f \in [0 .. Last1 -> Seq(Nat)] /\ g \in [0 .. Last1 -> Seq(Nat)]
        BY <2>10
      <4>2. InOrderOfLogging(f)
        OBVIOUS
      <4>3. InOrderOfLogging(g)
        BY <3>4, <4>1, <4>2, FileRenamed
      <4>4. LinesIn(g) = LinesIn(f) \ ToSet(f[now])
        BY <3>4, <4>1, <4>2, FileRenamed
      <4> QED
        BY <4>3, <4>4
    <3> QED
      BY <3>2, <3>5
  <2>13. ToSet(old) \subseteq LinesIn(f)
    <3>1. second \in 0 .. Last1
      BY <2>11, LogAssumption DEF Last1
    <3> QED
      BY <1>1, <2>11, <3>1 DEF LinesIn
  <2>14. \A s \in 0 .. MaxSeconds : s > second => a[k][s] = <<>>
    <3>1. \A s \in 0 .. MaxSeconds : s > second => archive[k][s] = <<>> /\ s # second
      BY <2>11 DEF NoneLater
    <3> QED
      BY <2>2, <2>4, <3>1
  <2>15. LinesIn(g) = kept \ ToSet(r[k])
    BY <2>8, <2>9, <2>12
  <2>16. FilesAfter(k)
    BY <1>2, <1>3, <1>4, <2>4, <2>5, <2>8, <2>9, <2>14 DEF FilesAfter
  <2>17. FilesHold(k, kept)
    BY <1>4, <1>5, <2>12, <2>15 DEF FilesHold
  <2>18. ToSet(replaced'[k]) \subseteq ToSet(replaced[k]) \cup LinesIn(f)
    BY <1>4, <2>8, <2>9, <2>13
  <2> QED
    BY <2>16, <2>17, <2>18
<1>8. CASE Written(k, lines)
  <2>1. /\ p \in [LogKind -> Seq(Nat)] /\ p[k] = lines
        /\ \A x \in LogKind \ {k} : p[x] = plusFile[x]
    BY <1>2, <1>8 DEF Written, LogTypes
  <2>2. a = archive /\ r = replaced
    BY <1>3, <1>4, <1>8 DEF Written
  <2>3. archive \in [LogKind -> [0 .. MaxSeconds -> Seq(Nat)]] /\ replaced \in [LogKind -> Seq(Nat)]
    BY DEF LogTypes
  <2>4. /\ g \in [0 .. Last1 -> Seq(Nat)] /\ g[Last1] = lines
        /\ \A s \in 0 .. MaxSeconds : g[s] = archive[k][s]
    BY <1>6, <2>1, <2>2, <2>3
  <2>5. g = f
    <3>1. \A s \in 0 .. Last1 : s \in 0 .. MaxSeconds \/ s = Last1
      BY LogAssumption DEF Last1
    <3>2. \A s \in 0 .. Last1 : g[s] = f[s]
      BY <2>4, <3>1
    <3>3. DOMAIN g = 0 .. Last1 /\ DOMAIN f = 0 .. Last1
      BY <2>4
    <3>4. g = [s \in 0 .. Last1 |-> g[s]] /\ f = [s \in 0 .. Last1 |-> f[s]]
      BY <2>4
    <3> QED
      BY <3>2, <3>4, Zenon
  <2>6. \A s \in 0 .. MaxSeconds : s > second => a[k][s] = <<>>
    BY <2>2 DEF NoneLater
  <2>7. FilesAfter(k)
    BY <1>2, <1>3, <1>4, <2>1, <2>2, <2>3, <2>6 DEF FilesAfter
  <2>8. FilesHold(k, kept)
    BY <1>4, <1>5, <2>2, <2>5 DEF FilesHold
  <2> QED
    BY <1>4, <2>2, <2>7, <2>8
<1>9. RenameLog(k, lines) => place.renames \/ Written(k, lines)
  BY DEF RenameLog, Written
<1> QED
  BY <1>7, <1>8, <1>9

\* The files of one kind are written to or renamed.
LEMMA FileChanges ==
    ASSUME LogTypes, NoneLater, ReplacedWereKept, LinesAreKept, NEW k \in LogKind,
           NEW lines \in Seq(Nat), RenameLog(k, lines) \/ Written(k, lines), second' = second,
           NEW f \in [0 .. Last1 -> Seq(Nat)], InOrderOfLogging(f), f[Last1] = lines,
           \A s \in 0 .. MaxSeconds : f[s] = archive[k][s],
           took' \in [LogKind -> Seq(Nat)], \A x \in LogKind \ {k} : took'[x] = took[x],
           ToSet(took[k]) \subseteq ToSet(took'[k]),
           LinesIn(f) = ToSet(took'[k]) \ ToSet(replaced[k])
    PROVE  /\ plusFile' \in [LogKind -> Seq(Nat)]
           /\ archive' \in [LogKind -> [0 .. MaxSeconds -> Seq(Nat)]]
           /\ replaced' \in [LogKind -> Seq(Nat)]
           /\ NoneLater' /\ ReplacedWereKept' /\ LinesAreKept'
<1>1. PICK kept : kept = ToSet(took'[k])
  OBVIOUS
<1>2. LinesIn(f) = kept \ ToSet(replaced[k])
  BY <1>1
<1>3. /\ plusFile' \in [LogKind -> Seq(Nat)]
      /\ archive' \in [LogKind -> [0 .. MaxSeconds -> Seq(Nat)]]
      /\ replaced' \in [LogKind -> Seq(Nat)]
      /\ \A x \in LogKind \ {k} : /\ plusFile'[x] = plusFile[x] /\ archive'[x] = archive[x]
                                  /\ replaced'[x] = replaced[x]
      /\ \A s \in 0 .. MaxSeconds : s > second => archive'[k][s] = <<>>
      /\ ToSet(replaced'[k]) \subseteq ToSet(replaced[k]) \cup LinesIn(f)
      /\ InOrderOfLogging(Files(k)') /\ LinesIn(Files(k)') = kept \ ToSet(replaced'[k])
  <2>1. FilesAfter(k)
    BY <1>2, RenameKeeps
  <2>2. FilesHold(k, kept)
    BY <1>2, RenameKeeps
  <2>3. ToSet(replaced'[k]) \subseteq ToSet(replaced[k]) \cup LinesIn(f)
    BY <1>2, RenameKeeps
  <2> QED
    BY <2>1, <2>2, <2>3 DEF FilesAfter, FilesHold
<1>4. NoneLater'
  <2>1. ASSUME NEW x \in LogKind, NEW s \in 0 .. MaxSeconds, s > second PROVE archive'[x][s] = <<>>
    <3>1. archive[x][s] = <<>>
      BY <2>1 DEF NoneLater
    <3> QED
      BY <1>3, <2>1, <3>1
  <2> QED
    BY <2>1 DEF NoneLater
<1>5. ASSUME NEW x \in LogKind PROVE ToSet(replaced'[x]) \subseteq ToSet(took'[x])
  <2>1. CASE x = k
    BY <1>1, <1>2, <1>3, <2>1 DEF ReplacedWereKept
  <2>2. CASE x # k
    BY <1>3, <2>2 DEF ReplacedWereKept
  <2> QED
    BY <2>1, <2>2
<1>6. ASSUME NEW x \in LogKind
      PROVE  InOrderOfLogging(Files(x)') /\ LinesIn(Files(x)') = ToSet(took'[x]) \ ToSet(replaced'[x])
  <2>1. CASE x = k
    BY <1>1, <1>3, <2>1
  <2>2. CASE x # k
    <3>1. archive'[x] = archive[x] /\ plusFile'[x] = plusFile[x] /\ replaced'[x] = replaced[x]
          /\ took'[x] = took[x]
      BY <1>3, <2>2
    <3>2. Files(x)' = Files(x)
      BY <3>1 DEF Files
    <3>3. InOrderOfLogging(Files(x)) /\ LinesIn(Files(x)) = ToSet(took[x]) \ ToSet(replaced[x])
      BY DEF LinesAreKept
    <3> QED
      BY <3>1, <3>2, <3>3
  <2> QED
    BY <2>1, <2>2
<1> QED
  BY <1>3, <1>4, <1>5, <1>6 DEF ReplacedWereKept, LinesAreKept

\* An item behind the others: the stop, or a line that was logged after them all.
LEMMA ItemQueued ==
    ASSUME NEW queue \in Seq(LineRecord), NEW count \in Nat, NEW more \in Nat, count <= more,
           NEW lines \in [LogKind -> Seq(Nat)],
           WaitInOrder(queue, count), TookBefore(queue, count, lines),
           NEW said \in LineRecord, said.n <= more, said # StopLine => said.n > count
    PROVE  /\ Append(queue, said) \in Seq(LineRecord)
           /\ WaitInOrder(Append(queue, said), more) /\ TookBefore(Append(queue, said), more, lines)
<1>1. PICK m \in Nat : m = Len(queue)
  OBVIOUS
<1>2. PICK q : q = Append(queue, said)
  OBVIOUS
<1>3. /\ q \in Seq(LineRecord) /\ Len(q) = m + 1 /\ q[m + 1] = said
      /\ \A i \in 1 .. m : q[i] = queue[i] /\ q[i] \in LineRecord /\ q[i].n <= count
  BY <1>1, <1>2 DEF WaitInOrder
<1>4. \A i \in 1 .. m + 1 : i \in 1 .. m \/ i = m + 1
  BY <1>1
<1>5. \A x \in LineRecord : x.n \in Nat
  BY DEF LineRecord, StopLine
<1>6. ASSUME NEW i \in 1 .. Len(q) PROVE q[i].n <= more
  <2>1. CASE i \in 1 .. m
    <3>1. q[i].n \in Nat /\ q[i].n <= count
      BY <1>3, <1>5, <2>1
    <3> QED
      BY <3>1
  <2>2. CASE i = m + 1
    BY <1>3, <2>2
  <2> QED
    BY <1>3, <1>4, <2>1, <2>2
<1>7. ASSUME NEW i \in 1 .. Len(q), NEW j \in 1 .. Len(q), i < j, q[i] # StopLine, q[j] # StopLine
      PROVE  q[i].n < q[j].n
  <2>1. i \in 1 .. m
    BY <1>1, <1>3, <1>4, <1>7
  <2>2. CASE j \in 1 .. m
    BY <1>1, <1>3, <1>7, <2>1, <2>2 DEF WaitInOrder
  <2>3. CASE j = m + 1
    BY <1>3, <1>5, <1>7, <2>1, <2>3
  <2> QED
    BY <1>3, <1>4, <2>2, <2>3
<1>8. ASSUME NEW k \in LogKind, NEW x \in ToSet(lines[k])
      PROVE  x <= more /\ \A i \in 1 .. Len(q) : q[i] # StopLine => x < q[i].n
  <2>1. x <= count /\ x \in Nat
    BY LineElements DEF TookBefore
  <2>2. ASSUME NEW i \in 1 .. Len(q), q[i] # StopLine PROVE x < q[i].n
    <3>1. CASE i \in 1 .. m
      BY <1>1, <1>3, <2>2, <3>1 DEF TookBefore
    <3>2. CASE i = m + 1
      BY <1>3, <1>5, <2>1, <2>2, <3>2
    <3> QED
      BY <1>3, <1>4, <3>1, <3>2
  <2> QED
    BY <2>1, <2>2
<1> QED
  BY <1>2, <1>3, <1>6, <1>7, <1>8 DEF WaitInOrder, TookBefore

\* The first item is taken, and what was written is before the others that wait.
LEMMA ItemTaken ==
    ASSUME NEW queue \in Seq(LineRecord), queue # <<>>, NEW count \in Nat,
           NEW lines \in [LogKind -> Seq(Nat)],
           WaitInOrder(queue, count), TookBefore(queue, count, lines)
    PROVE  /\ Tail(queue) \in Seq(LineRecord) /\ Head(queue) \in LineRecord /\ Head(queue).n <= count
           /\ WaitInOrder(Tail(queue), count) /\ TookBefore(Tail(queue), count, lines)
           /\ Head(queue) # StopLine =>
                 \A i \in 1 .. Len(Tail(queue)) : Tail(queue)[i] # StopLine =>
                     Head(queue).n < Tail(queue)[i].n
           /\ Head(queue) # StopLine =>
                 \A k \in LogKind : \A x \in ToSet(lines[k]) : x < Head(queue).n
<1>1. PICK m \in Nat : m = Len(queue)
  OBVIOUS
<1>2. PICK q : q = Tail(queue)
  OBVIOUS
<1>3. PICK h : h = Head(queue)
  OBVIOUS
<1>4. /\ m > 0 /\ q \in Seq(LineRecord) /\ Len(q) = m - 1 /\ h = queue[1] /\ h \in LineRecord
      /\ \A i \in 1 .. Len(q) : q[i] = queue[i + 1]
  BY <1>1, <1>2, <1>3
<1>5. 1 \in 1 .. m /\ \A i \in 1 .. Len(q) : i + 1 \in 1 .. m /\ 1 < i + 1
  BY <1>1, <1>4
<1>6. h.n <= count
  BY <1>1, <1>4, <1>5 DEF WaitInOrder
<1>7. \A i \in 1 .. Len(q) : q[i].n <= count
  BY <1>1, <1>4, <1>5 DEF WaitInOrder
<1>8. ASSUME NEW i \in 1 .. Len(q), NEW j \in 1 .. Len(q), i < j, q[i] # StopLine, q[j] # StopLine
      PROVE  q[i].n < q[j].n
  <2>1. i + 1 < j + 1
    BY <1>4, <1>8
  <2> QED
    BY <1>1, <1>4, <1>5, <1>8, <2>1 DEF WaitInOrder
<1>9. ASSUME NEW i \in 1 .. Len(q), h # StopLine, q[i] # StopLine PROVE h.n < q[i].n
  BY <1>1, <1>4, <1>5, <1>9 DEF WaitInOrder
<1>10. ASSUME NEW k \in LogKind, NEW x \in ToSet(lines[k])
       PROVE  /\ x <= count /\ \A i \in 1 .. Len(q) : q[i] # StopLine => x < q[i].n
              /\ h # StopLine => x < h.n
  BY <1>1, <1>4, <1>5 DEF TookBefore
<1> QED
  BY <1>2, <1>3, <1>4, <1>6, <1>7, <1>8, <1>9, <1>10 DEF WaitInOrder, TookBefore

\* What the files hold is what it was.
LEMMA FilesUntouched ==
    ASSUME LogInv, UNCHANGED <<plusFile, archive, took, replaced>>, second' \in 0 .. MaxSeconds,
           second <= second', logQueue' \in Seq(LineRecord), nlogged' \in Nat,
           WaitInOrder(logQueue', nlogged'), TookBefore(logQueue', nlogged', took)
    PROVE  LogInv'
<1>1. LogTypes'
  BY DEF LogInv, LogTypes
<1>2. WaitInOrder(logQueue, nlogged)' /\ TookBefore(logQueue, nlogged, took)'
  BY DEF WaitInOrder, TookBefore
<1>3. NoneLater'
  <2>1. second \in Nat /\ second' \in Nat /\ \A s \in 0 .. MaxSeconds : s > second' => s > second
    BY DEF LogInv, LogTypes
  <2>2. ASSUME NEW k \in LogKind, NEW s \in 0 .. MaxSeconds, s > second' PROVE archive'[k][s] = <<>>
    <3>1. archive[k][s] = <<>>
      BY <2>1, <2>2 DEF LogInv, NoneLater
    <3> QED
      BY <3>1
  <2> QED
    BY <2>2 DEF NoneLater
<1>4. ReplacedWereKept'
  BY DEF LogInv, ReplacedWereKept
<1>5. LinesAreKept'
  <2>1. \A k \in LogKind : Files(k)' = Files(k)
    BY DEF Files
  <2> QED
    BY <2>1 DEF LogInv, LinesAreKept
<1> QED
  BY <1>1, <1>2, <1>3, <1>4, <1>5 DEF LogInv

\* A line that a file could be opened for is at the end of it, before it is renamed.
LEMMA TakeKeeps == LogInv /\ TakeLine => LogInv'
<1> SUFFICES ASSUME LogInv, TakeLine PROVE LogInv'
  OBVIOUS
<1>1. /\ logQueue \in Seq(LineRecord) /\ nlogged \in Nat /\ nlogged' = nlogged
      /\ took \in [LogKind -> Seq(Nat)] /\ replaced \in [LogKind -> Seq(Nat)]
      /\ plusFile \in [LogKind -> Seq(Nat)]
      /\ archive \in [LogKind -> [0 .. MaxSeconds -> Seq(Nat)]]
      /\ second' = second /\ second \in 0 .. MaxSeconds
      /\ WaitInOrder(logQueue, nlogged) /\ TookBefore(logQueue, nlogged, took)
  BY DEF LogInv, LogTypes, TakeLine
<1>2. PICK q : q = Tail(logQueue)
  OBVIOUS
<1>3. PICK h : h = Head(logQueue)
  OBVIOUS
<1>4. logQueue # <<>> /\ logQueue' = q /\ h # StopLine
  BY <1>2, <1>3 DEF TakeLine
<1>5. /\ q \in Seq(LineRecord) /\ h \in LineRecord /\ h.n <= nlogged
      /\ WaitInOrder(q, nlogged) /\ TookBefore(q, nlogged, took)
      /\ \A i \in 1 .. Len(q) : q[i] # StopLine => h.n < q[i].n
      /\ \A k \in LogKind : \A x \in ToSet(took[k]) : x < h.n
  BY <1>1, <1>2, <1>3, <1>4, ItemTaken
<1>6. CASE UNCHANGED <<plusFile, archive, took, replaced>>
  BY <1>1, <1>4, <1>5, <1>6, FilesUntouched
<1>7. CASE place.writes
  <2>1. PICK k \in LogKind, n \in Nat : k = h.kind /\ n = h.n
    BY <1>4, <1>5 DEF LineRecord
  <2>2. PICK lines : lines = Append(plusFile[k], n)
    OBVIOUS
  <2>3. PICK said : said = Append(took[k], n)
    OBVIOUS
  <2>4. /\ took' = [took EXCEPT ![k] = said]
        /\ RenameLog(k, lines) \/ Written(k, lines)
    BY <1>3, <1>7, <2>1, <2>2, <2>3 DEF TakeLine, CreateFile, Written
  <2>5. plusFile[k] \in Seq(Nat) /\ took[k] \in Seq(Nat)
    BY <1>1
  <2>6. lines \in Seq(Nat) /\ said \in Seq(Nat) /\ ToSet(said) = ToSet(took[k]) \cup {n}
    BY <2>2, <2>3, <2>5, LineAdded
  <2>7. /\ took' \in [LogKind -> Seq(Nat)] /\ took'[k] = said
        /\ \A x \in LogKind \ {k} : took'[x] = took[x]
    BY <1>1, <2>4, <2>6
  <2>8. PICK f : f = Files(k)
    OBVIOUS
  <2>9. /\ f \in [0 .. Last1 -> Seq(Nat)] /\ f[Last1] = plusFile[k]
        /\ \A s \in 0 .. MaxSeconds : f[s] = archive[k][s]
    BY <1>1, <2>8, FilesAre
  <2>10. InOrderOfLogging(f) /\ LinesIn(f) = ToSet(took[k]) \ ToSet(replaced[k])
    BY <2>8 DEF LogInv, LinesAreKept
  <2>11. PICK g : g = [f EXCEPT ![Last1] = lines]
    OBVIOUS
  <2>12. Last1 \in 0 .. Last1 /\ \A s \in 0 .. MaxSeconds : s \in 0 .. Last1 /\ s # Last1
    BY LogAssumption DEF Last1
  <2>13. /\ g \in [0 .. Last1 -> Seq(Nat)] /\ g[Last1] = lines
         /\ \A s \in 0 .. MaxSeconds : g[s] = f[s]
    BY <2>6, <2>9, <2>11, <2>12
  <2>14. \A x \in LinesIn(f) : x < n
    BY <1>5, <2>1, <2>10
  <2>15. lines = Append(f[Last1], n)
    BY <2>2, <2>9
  <2>16. InOrderOfLogging(g) /\ LinesIn(g) = LinesIn(f) \cup {n}
    BY <2>9, <2>10, <2>13, <2>14, <2>15, LineWritten
  <2>17. n \notin ToSet(replaced[k])
    <3>1. ToSet(replaced[k]) \subseteq ToSet(took[k])
      BY DEF LogInv, ReplacedWereKept
    <3>2. \A x \in ToSet(took[k]) : x < n
      BY <1>5, <2>1
    <3>3. ~(n < n)
      BY <2>1
    <3> QED
      BY <3>1, <3>2, <3>3
  <2>18. LinesIn(g) = ToSet(took'[k]) \ ToSet(replaced[k])
    BY <2>6, <2>7, <2>10, <2>16, <2>17
  <2>19. \A s \in 0 .. MaxSeconds : g[s] = archive[k][s]
    BY <2>9, <2>13
  <2>20. LogTypes /\ NoneLater /\ ReplacedWereKept /\ LinesAreKept
    BY DEF LogInv
  <2>21. ToSet(took[k]) \subseteq ToSet(took'[k])
    BY <2>6, <2>7
  <2>22. /\ plusFile' \in [LogKind -> Seq(Nat)]
         /\ archive' \in [LogKind -> [0 .. MaxSeconds -> Seq(Nat)]]
         /\ replaced' \in [LogKind -> Seq(Nat)]
         /\ NoneLater' /\ ReplacedWereKept' /\ LinesAreKept'
    BY <1>1, <2>4, <2>6, <2>7, <2>13, <2>16, <2>18, <2>19, <2>20, <2>21, FileChanges
  <2>23. LogTypes'
    BY <1>1, <1>4, <1>5, <2>7, <2>22 DEF LogTypes
  <2>24. TookBefore(q, nlogged, took')
    <3>1. ASSUME NEW x \in LogKind, NEW y \in ToSet(took'[x])
          PROVE  y <= nlogged /\ \A i \in 1 .. Len(q) : q[i] # StopLine => y < q[i].n
      <4>1. CASE y \in ToSet(took[x])
        BY <1>5, <4>1 DEF TookBefore
      <4>2. CASE y = h.n
        BY <1>5, <4>2
      <4> QED
        BY <2>1, <2>6, <2>7, <4>1, <4>2
    <3> QED
      BY <3>1 DEF TookBefore
  <2>25. WaitInOrder(logQueue, nlogged)' /\ TookBefore(logQueue, nlogged, took)'
    BY <1>1, <1>4, <1>5, <2>24 DEF WaitInOrder, TookBefore
  <2> QED
    BY <2>22, <2>23, <2>25 DEF LogInv
<1> QED
  BY <1>6, <1>7 DEF TakeLine

\* The process ends: its last files take the names of this second.
LEMMA DestructKeeps ==
    ASSUME LogInv, NEW k \in LogKind, Destruct(k)
    PROVE  LogInv'
<1>1. /\ took \in [LogKind -> Seq(Nat)] /\ replaced \in [LogKind -> Seq(Nat)]
      /\ plusFile \in [LogKind -> Seq(Nat)]
      /\ archive \in [LogKind -> [0 .. MaxSeconds -> Seq(Nat)]]
      /\ LogTypes /\ NoneLater /\ ReplacedWereKept /\ LinesAreKept
  BY DEF LogInv, LogTypes
<1>2. PICK lines \in Seq(Nat) : lines = plusFile[k]
  BY <1>1
<1>3. RenameLog(k, lines) /\ UNCHANGED <<logQueue, took, second, nlogged>>
  BY <1>2 DEF Destruct
<1>4. PICK f : f = Files(k)
  OBVIOUS
<1>5. /\ f \in [0 .. Last1 -> Seq(Nat)] /\ f[Last1] = lines
      /\ \A s \in 0 .. MaxSeconds : f[s] = archive[k][s]
  BY <1>1, <1>2, <1>4, FilesAre
<1>6. InOrderOfLogging(f) /\ LinesIn(f) = ToSet(took[k]) \ ToSet(replaced[k])
  BY <1>1, <1>4 DEF LinesAreKept
<1>7. took' \in [LogKind -> Seq(Nat)] /\ \A x \in LogKind : took'[x] = took[x]
  BY <1>1, <1>3
<1>8. ToSet(took[k]) \subseteq ToSet(took'[k]) /\ LinesIn(f) = ToSet(took'[k]) \ ToSet(replaced[k])
  BY <1>6, <1>7
<1>9. second' = second
  BY <1>3
<1>10. /\ plusFile' \in [LogKind -> Seq(Nat)]
       /\ archive' \in [LogKind -> [0 .. MaxSeconds -> Seq(Nat)]]
       /\ replaced' \in [LogKind -> Seq(Nat)]
       /\ NoneLater' /\ ReplacedWereKept' /\ LinesAreKept'
  BY <1>1, <1>2, <1>3, <1>5, <1>6, <1>7, <1>8, <1>9, FileChanges
<1>11. LogTypes'
  BY <1>1, <1>3, <1>7, <1>10 DEF LogTypes
<1>12. WaitInOrder(logQueue, nlogged)' /\ TookBefore(logQueue, nlogged, took)'
  BY <1>3 DEF LogInv, WaitInOrder, TookBefore
<1> QED
  BY <1>10, <1>11, <1>12 DEF LogInv

\* Whatever the process does, the files keep what they say.
LEMMA LogStep == LogInv /\ [LogNext]_logFileVars => LogInv'
<1> SUFFICES ASSUME LogInv, [LogNext]_logFileVars PROVE LogInv'
  OBVIOUS
<1>1. /\ logQueue \in Seq(LineRecord) /\ nlogged \in Nat /\ second \in 0 .. MaxSeconds
      /\ took \in [LogKind -> Seq(Nat)]
      /\ WaitInOrder(logQueue, nlogged) /\ TookBefore(logQueue, nlogged, took)
  BY DEF LogInv, LogTypes
<1>2. CASE UNCHANGED <<logQueue, plusFile, archive, took, replaced, second, nlogged>>
  BY <1>1, <1>2, FilesUntouched
<1>3. CASE logQueue' = <<>> /\ UNCHANGED <<plusFile, archive, took, replaced, second, nlogged>>
  <2>1. <<>> \in Seq(LineRecord) /\ Len(<<>>) = 0 /\ 1 .. 0 = {}
    OBVIOUS
  <2>2. WaitInOrder(<<>>, nlogged) /\ TookBefore(<<>>, nlogged, took)
    BY <1>1, <2>1 DEF WaitInOrder, TookBefore
  <2> QED
    BY <1>1, <1>3, <2>1, <2>2, FilesUntouched
<1>4. ASSUME NEW k \in LogKind, PutLine(k) PROVE LogInv'
  <2>1. PICK more \in Nat : more = nlogged + 1
    BY <1>1
  <2>2. /\ nlogged' = more /\ UNCHANGED <<plusFile, archive, took, replaced, second>>
        /\ logQueue' = logQueue \/ logQueue' = Append(logQueue, [kind |-> k, n |-> more])
    BY <1>4, <2>1 DEF PutLine
  <2>3. CASE logQueue' = logQueue
    <3>1. WaitInOrder(logQueue, more)
      <4>1. \A i \in 1 .. Len(logQueue) : logQueue[i] \in LineRecord /\ logQueue[i].n <= nlogged
        BY <1>1 DEF WaitInOrder
      <4>2. \A x \in LineRecord : x.n \in Nat
        BY DEF LineRecord, StopLine
      <4>3. \A i \in 1 .. Len(logQueue) : logQueue[i].n <= more
        BY <1>1, <2>1, <4>1, <4>2
      <4> QED
        BY <1>1, <4>3 DEF WaitInOrder
    <3>2. TookBefore(logQueue, more, took)
      <4>1. ASSUME NEW x \in LogKind, NEW y \in ToSet(took[x]) PROVE y <= more
        <5>1. y \in Nat /\ y <= nlogged
          BY <1>1, LineElements DEF TookBefore
        <5> QED
          BY <1>1, <2>1, <5>1
      <4> QED
        BY <1>1, <4>1 DEF TookBefore
    <3> QED
      BY <1>1, <2>1, <2>2, <2>3, <3>1, <3>2, FilesUntouched
  <2>4. CASE logQueue' = Append(logQueue, [kind |-> k, n |-> more])
    <3>1. PICK said : said = [kind |-> k, n |-> more]
      OBVIOUS
    <3>2. said \in LineRecord /\ said.n = more
      BY <2>1, <3>1 DEF LineRecord
    <3>3. nlogged <= more /\ said.n <= more /\ said.n > nlogged
      BY <1>1, <2>1, <3>2
    <3>4. /\ logQueue' \in Seq(LineRecord)
          /\ WaitInOrder(logQueue', more) /\ TookBefore(logQueue', more, took)
      BY <1>1, <2>1, <2>4, <3>1, <3>2, <3>3, ItemQueued
    <3> QED
      BY <1>1, <2>1, <2>2, <3>4, FilesUntouched
  <2> QED
    BY <2>2, <2>3, <2>4
<1>5. CASE StopLogThread
  <2>1. StopLine \in LineRecord /\ StopLine.n = 0
    BY DEF LineRecord, StopLine
  <2>2. nlogged <= nlogged /\ StopLine.n <= nlogged
    BY <1>1, <2>1
  <2>3. logQueue' = Append(logQueue, StopLine)
        /\ UNCHANGED <<plusFile, archive, took, replaced, second, nlogged>>
    BY <1>5 DEF StopLogThread
  <2>4. /\ logQueue' \in Seq(LineRecord)
        /\ WaitInOrder(logQueue', nlogged) /\ TookBefore(logQueue', nlogged, took)
    BY <1>1, <2>1, <2>2, <2>3, ItemQueued
  <2> QED
    BY <1>1, <2>3, <2>4, FilesUntouched
<1>6. CASE TakeStopLine
  <2>1. /\ logQueue # <<>> /\ logQueue' = Tail(logQueue)
        /\ UNCHANGED <<plusFile, archive, took, replaced, second, nlogged>>
    BY <1>6 DEF TakeStopLine
  <2>2. /\ logQueue' \in Seq(LineRecord)
        /\ WaitInOrder(logQueue', nlogged) /\ TookBefore(logQueue', nlogged, took)
    BY <1>1, <2>1, ItemTaken
  <2> QED
    BY <1>1, <2>1, <2>2, FilesUntouched
<1>7. CASE SecondPasses
  <2>1. /\ second' \in 0 .. MaxSeconds /\ second <= second'
        /\ UNCHANGED <<logQueue, plusFile, archive, took, replaced, nlogged>>
    BY <1>1, <1>7, LogAssumption DEF SecondPasses
  <2> QED
    BY <1>1, <2>1, FilesUntouched
<1> QED
  BY <1>2, <1>3, <1>4, <1>5, <1>6, <1>7, TakeKeeps, DestructKeeps
     DEF LogNext, logFileVars, StartLogThread, ProcessEnds, LogCrash

\* A line that the thread wrote is in a file for good, once and in the order of
\* logging, but for the whole files that a second rename in one second replaces.
THEOREM WrittenLinesStay == LogSpec => []LinesAreKept
<1>1. LogInv => LinesAreKept
  BY DEF LogInv
<1> QED
  BY <1>1, LogStarts, LogStep, PTL DEF LogSpec

-----------------------------------------------------------------------------
(* The ranking of bosssrv                                                   *)

RankEntry == [uid : Uid, hurt : Nat]

Descending(list) == \A i, j \in 1..Len(list) : i < j => list[i].hurt >= list[j].hurt

Apart(list) == \A i, j \in 1..Len(list) : list[i].uid = list[j].uid => i = j

Ranks(list, u) == \E i \in 1..Len(list) : list[i].uid = u

HurtMapOK(map) == IsFiniteSet(DOMAIN map) /\ DOMAIN map \subseteq Uid /\ map \in [DOMAIN map -> Nat]

SameEntries(s, list) ==
    /\ \A i \in 1..Len(list) : \E j \in 1..Len(list) : s[i] = list[j]
    /\ \A j \in 1..Len(list) : \E i \in 1..Len(list) : s[i] = list[j]

\* What BossHurtMgr keeps between two blows.
RankOK(map, list) ==
    /\ HurtMapOK(map)
    /\ list \in Seq(RankEntry) /\ Len(list) <= MaxTopNum
    /\ \A i \in 1..Len(list) : list[i].uid \in DOMAIN map /\ map[list[i].uid] = list[i].hurt
    /\ Descending(list) /\ Apart(list)
    /\ \A u \in DOMAIN map : ~Ranks(list, u) =>
          Len(list) = MaxTopNum /\ map[u] <= list[Len(list)].hurt

\* std::sort: the same entries, once each, in order.
LEMMA OrderedLike ==
    ASSUME NEW list \in Seq(RankEntry), Apart(list), NEW s \in Orders(list)
    PROVE  /\ s \in Seq(RankEntry) /\ Len(s) = Len(list) /\ Descending(s) /\ Apart(s)
           /\ SameEntries(s, list)
<1>1. PICK n : n = Len(list)
  OBVIOUS
<1>2. n \in Nat /\ DOMAIN list = 1..n
  BY <1>1
<1>3. PICK p \in [1..n -> 1..n] : s = [i \in 1..n |-> list[p[i]]]
  BY <1>2 DEF Orders
<1>4. /\ ToSet(s) = ToSet(list)
      /\ \A i, j \in DOMAIN s : i < j => s[i].hurt >= s[j].hurt
  BY <1>2 DEF Orders
<1>5. \A i \in 1..n : list[i] \in RankEntry
  BY <1>1
<1>6. s \in Seq(RankEntry) /\ Len(s) = n /\ DOMAIN s = 1..n /\ \A i \in 1..n : s[i] = list[p[i]]
  <2>1. s \in [1..n -> RankEntry]
    BY <1>3, <1>5
  <2> QED
    BY <2>1, <1>2, <1>3
<1>7. ASSUME NEW j \in 1..n PROVE \E i \in 1..n : s[i] = list[j]
  <2>1. list[j] \in ToSet(list)
    BY <1>2 DEF ToSet
  <2>2. list[j] \in ToSet(s)
    BY <1>4, <2>1
  <2> QED
    BY <1>6, <2>2 DEF ToSet
<1>8. \A j \in 1..n : \E i \in 1..n : p[i] = j
  <2>1. \A j \in 1..n : \E i \in 1..n : p[i] \in 1..n /\ list[p[i]] = list[j]
    <3> SUFFICES ASSUME NEW j \in 1..n PROVE \E i \in 1..n : p[i] \in 1..n /\ list[p[i]] = list[j]
      OBVIOUS
    <3>1. PICK i \in 1..n : s[i] = list[j]
      BY <1>7
    <3>2. p[i] \in 1..n /\ s[i] = list[p[i]]
      BY <1>3, <1>6
    <3> QED
      BY <3>1, <3>2
  <2>2. \A i, j \in 1..n : list[i] = list[j] => i = j
    BY <1>1 DEF Apart
  <2> QED
    BY ZenonT(30), <2>1, <2>2, <1>3
<1>9. p \in Injection(1..n, 1..n)
  <2>1. p \in Surjection(1..n, 1..n)
    BY <1>8 DEF Surjection
  <2>2. IsFiniteSet(1..n)
    BY <1>2, FS_Interval
  <2> QED
    BY <2>1, <2>2, FS_SurjSameCardinalityImpliesInj
<1>10. \A i, j \in 1..n : p[i] = p[j] => i = j
  BY <1>9 DEF Injection, IsInjective
<1>11. Apart(s)
  <2> SUFFICES ASSUME NEW i \in 1..n, NEW j \in 1..n, s[i].uid = s[j].uid PROVE i = j
    BY <1>6 DEF Apart
  <2>1. p[i] \in 1..n /\ p[j] \in 1..n
    BY <1>3
  <2>2. list[p[i]].uid = list[p[j]].uid
    BY <1>6
  <2>3. p[i] = p[j]
    BY <2>1, <2>2, <1>1 DEF Apart
  <2> QED
    BY <2>3, <1>10
<1>12. Descending(s)
  BY <1>4, <1>6 DEF Descending
<1> QED
  <2>1. \A i \in 1..n : \E j \in 1..n : s[i] = list[j]
    BY <1>3, <1>6
  <2>2. SameEntries(s, list)
    BY <1>1, <1>7, <2>1 DEF SameEntries
  <2> QED
    BY <1>1, <1>6, <1>11, <1>12, <2>2

\* Where a player stands in the list.
PlaceIn(list, u) == SelectInSeq(list, LAMBDA e : e.uid = u)

\* SelectInSeq of the community modules: the place of the player's entry.
LEMMA RankPlaceOf ==
    ASSUME NEW list \in Seq(RankEntry), Apart(list), NEW u, NEW i,
           i = PlaceIn(list, u)
    PROVE  IF Ranks(list, u) THEN i \in 1..Len(list) /\ list[i].uid = u ELSE i = 0
<1> DEFINE I == {j \in 1..Len(list) : list[j].uid = u}
<1>1. i = IF I # {} THEN Min(I) ELSE 0
  BY DEF SelectInSeq, PlaceIn
<1>2. CASE ~Ranks(list, u)
  BY <1>1, <1>2 DEF Ranks
<1>3. CASE Ranks(list, u)
  <2>1. PICK k \in 1..Len(list) : list[k].uid = u
    BY <1>3 DEF Ranks
  <2>2. I = {k}
    BY <2>1 DEF Apart
  <2>3. Len(list) \in Nat /\ k \in Int
    OBVIOUS
  <2>4. Min({k}) = k
    BY <2>3 DEF Min
  <2> HIDE DEF I
  <2> QED
    BY <1>1, <1>3, <2>1, <2>2, <2>4
<1> QED
  BY <1>2, <1>3

\* The map after a blow.
Struck(map, u, sum) == [x \in DOMAIN map \cup {u} |-> IF x = u THEN sum ELSE map[x]]

StruckIn(m2, map, u, sum) ==
    /\ DOMAIN m2 = DOMAIN map \cup {u} /\ m2[u] = sum
    /\ \A x \in DOMAIN map : x # u => m2[x] = map[x]

\* The damage of the striker after the blow, the others' as it was.
LEMMA StruckMap ==
    ASSUME NEW map, HurtMapOK(map), NEW u \in Uid, NEW sum \in Nat, NEW m2, m2 = Struck(map, u, sum)
    PROVE  HurtMapOK(m2) /\ StruckIn(m2, map, u, sum)
<1>1. IsFiniteSet(DOMAIN map \cup {u})
  BY FS_AddElement DEF HurtMapOK
<1>2. DOMAIN m2 = DOMAIN map \cup {u}
  BY DEF Struck
<1> QED
  BY <1>1, <1>2 DEF Struck, StruckIn, HurtMapOK

\* A player of the list strikes.
LEMMA RankedAgain ==
    ASSUME NEW map, NEW list, RankOK(map, list), NEW u \in Uid, NEW sum \in Nat,
           NEW k \in 1..Len(list), list[k].uid = u, sum >= list[k].hurt,
           NEW m2, m2 = Struck(map, u, sum),
           NEW s \in Orders([list EXCEPT ![k] = [uid |-> u, hurt |-> sum]])
    PROVE  RankOK(m2, s)
<1>1. PICK n : n = Len(list)
  OBVIOUS
<1>2. PICK e : e = [uid |-> u, hurt |-> sum]
  OBVIOUS
<1>3. PICK l2 : l2 = [list EXCEPT ![k] = e]
  OBVIOUS
<1>4. e \in RankEntry /\ e.uid = u /\ e.hurt = sum
  BY <1>2 DEF RankEntry
<1>5. n \in Nat /\ k \in 1..n /\ list \in Seq(RankEntry) /\ \A i \in 1..n : list[i] \in RankEntry
  BY <1>1 DEF RankOK
<1>6. l2 \in Seq(RankEntry) /\ Len(l2) = n /\ \A i \in 1..n : l2[i] = IF i = k THEN e ELSE list[i]
  BY <1>1, <1>3, <1>4, <1>5
<1>7. \A i \in 1..n : l2[i].uid = list[i].uid /\ l2[i].hurt >= list[i].hurt
  BY SMTT(30), <1>1, <1>4, <1>5, <1>6 DEF RankEntry
<1>8. Apart(list) /\ Apart(l2)
  BY <1>1, <1>6, <1>7 DEF RankOK, Apart
<1>9. /\ s \in Seq(RankEntry) /\ Len(s) = n /\ Descending(s) /\ Apart(s)
      /\ \A i \in 1..n : \E j \in 1..n : s[i] = l2[j]
      /\ \A j \in 1..n : \E i \in 1..n : s[i] = l2[j]
  <2>1. s \in Orders(l2)
    BY <1>2, <1>3
  <2>2. l2 \in Seq(RankEntry) /\ Apart(l2) /\ Len(l2) = n
    BY <1>6, <1>8
  <2>3. s \in Seq(RankEntry) /\ Len(s) = Len(l2) /\ Descending(s) /\ Apart(s) /\ SameEntries(s, l2)
    BY <2>1, <2>2, OrderedLike
  <2> QED
    BY <2>2, <2>3 DEF SameEntries
<1>10. /\ HurtMapOK(m2)
       /\ DOMAIN m2 = DOMAIN map \cup {u} /\ m2[u] = sum
       /\ \A x \in DOMAIN map : x # u => m2[x] = map[x]
  <2>1. HurtMapOK(map)
    BY DEF RankOK
  <2>2. HurtMapOK(m2) /\ StruckIn(m2, map, u, sum)
    BY <2>1, StruckMap
  <2> QED
    BY <2>2 DEF StruckIn
<1>11. ASSUME NEW i \in 1..n PROVE s[i].uid \in DOMAIN m2 /\ m2[s[i].uid] = s[i].hurt
  <2>1. PICK j \in 1..n : s[i] = l2[j]
    BY <1>9
  <2>2. list[j].uid \in DOMAIN map /\ map[list[j].uid] = list[j].hurt
    BY <1>1 DEF RankOK
  <2>3. CASE j = k
    BY <1>4, <1>6, <1>10, <2>1, <2>3
  <2>4. CASE j # k
    <3>1. list[j].uid # u
      BY <1>1, <1>8, <2>4 DEF Apart
    <3> QED
      BY <1>6, <1>10, <2>1, <2>2, <2>4, <3>1
  <2> QED
    BY <2>3, <2>4
<1>12. ASSUME NEW x, Ranks(list, x) PROVE Ranks(s, x)
  <2>1. PICK j \in 1..n : list[j].uid = x
    BY <1>1, <1>12 DEF Ranks
  <2>2. PICK i \in 1..n : s[i] = l2[j]
    BY <1>9
  <2>3. s[i].uid = x
    BY <1>7, <2>1, <2>2
  <2> QED
    BY <1>9, <2>1, <2>2, <2>3 DEF Ranks
<1>13. ASSUME NEW x \in DOMAIN m2, ~Ranks(s, x)
       PROVE  Len(s) = MaxTopNum /\ m2[x] <= s[Len(s)].hurt
  <2>1. ~Ranks(list, x)
    BY <1>12, <1>13
  <2>2. x # u /\ x \in DOMAIN map
    BY <1>10, <2>1 DEF Ranks
  <2>3. Len(list) = MaxTopNum /\ map[x] <= list[n].hurt
    BY <1>1, <2>1, <2>2 DEF RankOK
  <2>4. n \in 1..n
    BY <1>5
  <2>5. PICK j \in 1..n : s[n] = l2[j]
    BY <1>9, <2>4
  <2>6. list[j].hurt >= list[n].hurt
    BY <1>1, <1>5, <2>4 DEF RankOK, Descending, RankEntry
  <2>7. s[n].hurt >= list[j].hurt
    BY <1>7, <2>5
  <2>8. map[x] \in Nat /\ list[n].hurt \in Nat /\ list[j].hurt \in Nat /\ s[n].hurt \in Nat
    <3>1. s[n] \in RankEntry
      BY <1>9, <2>4
    <3> QED
      BY <1>5, <2>2, <2>4, <3>1 DEF RankOK, RankEntry, HurtMapOK
  <2>9. m2[x] = map[x] /\ Len(s) = n /\ Len(list) = n
    BY <1>1, <1>9, <1>10, <2>2
  <2> QED
    BY <2>3, <2>6, <2>7, <2>8, <2>9
<1> QED
  BY <1>1, <1>9, <1>10, <1>11, <1>13 DEF RankOK

\* A player who is not of the list strikes: the list before it is cut.
LongerBy(s, list, n, u, m2) ==
    /\ s \in Seq(RankEntry) /\ Len(s) = n + 1 /\ Descending(s) /\ Apart(s)
    /\ \A i \in 1..(n + 1) : s[i].uid = u \/ \E j \in 1..n : s[i] = list[j]
    /\ \A j \in 1..n : \E i \in 1..(n + 1) : s[i] = list[j]
    /\ \E i \in 1..(n + 1) : s[i].uid = u
    /\ \A i \in 1..(n + 1) : s[i].uid \in DOMAIN m2 /\ m2[s[i].uid] = s[i].hurt

\* The striker behind the list.
LEMMA Longer ==
    ASSUME NEW map, NEW list, RankOK(map, list), NEW u \in Uid, NEW sum \in Nat,
           ~Ranks(list, u), NEW m2, m2 = Struck(map, u, sum), NEW n, n = Len(list),
           NEW s \in Orders(Append(list, [uid |-> u, hurt |-> sum]))
    PROVE  LongerBy(s, list, n, u, m2)
<1>2. PICK e : e = [uid |-> u, hurt |-> sum]
  OBVIOUS
<1>3. PICK l2 : l2 = Append(list, e)
  OBVIOUS
<1>4. e \in RankEntry /\ e.uid = u /\ e.hurt = sum
  BY <1>2 DEF RankEntry
<1>5. n \in Nat /\ list \in Seq(RankEntry) /\ \A i \in 1..n : list[i] \in RankEntry
  BY DEF RankOK
<1>6. /\ l2 \in Seq(RankEntry) /\ Len(l2) = n + 1
      /\ \A i \in 1..n : l2[i] = list[i]
      /\ l2[n + 1] = e
  BY <1>3, <1>4, <1>5
<1>7. \A i \in 1..(n + 1) : i \in 1..n \/ i = n + 1
  BY <1>5
<1>8. Apart(l2)
  <2> SUFFICES ASSUME NEW i \in 1..(n + 1), NEW j \in 1..(n + 1), l2[i].uid = l2[j].uid PROVE i = j
    BY <1>6 DEF Apart
  <2>1. Apart(list)
    BY DEF RankOK
  <2>2. CASE i \in 1..n /\ j \in 1..n
    BY <1>6, <2>1, <2>2 DEF Apart
  <2>3. CASE i = n + 1 /\ j \in 1..n
    BY <1>4, <1>6, <2>3 DEF Ranks
  <2>4. CASE i \in 1..n /\ j = n + 1
    BY <1>4, <1>6, <2>4 DEF Ranks
  <2> QED
    BY <1>7, <2>2, <2>3, <2>4
<1>9. /\ s \in Seq(RankEntry) /\ Len(s) = n + 1 /\ Descending(s) /\ Apart(s)
      /\ \A i \in 1..(n + 1) : \E j \in 1..(n + 1) : s[i] = l2[j]
      /\ \A j \in 1..(n + 1) : \E i \in 1..(n + 1) : s[i] = l2[j]
  <2>1. s \in Orders(l2)
    BY <1>2, <1>3
  <2>2. l2 \in Seq(RankEntry) /\ Apart(l2) /\ Len(l2) = n + 1
    BY <1>6, <1>8
  <2>3. s \in Seq(RankEntry) /\ Len(s) = Len(l2) /\ Descending(s) /\ Apart(s) /\ SameEntries(s, l2)
    BY <2>1, <2>2, OrderedLike
  <2> QED
    BY <2>2, <2>3 DEF SameEntries
<1>10. n + 1 \in 1..(n + 1) /\ 1..n \subseteq 1..(n + 1)
  BY <1>5
<1>11. /\ DOMAIN m2 = DOMAIN map \cup {u} /\ m2[u] = sum
       /\ \A x \in DOMAIN map : x # u => m2[x] = map[x]
  <2>1. HurtMapOK(map)
    BY DEF RankOK
  <2>2. HurtMapOK(m2) /\ StruckIn(m2, map, u, sum)
    BY <2>1, StruckMap
  <2> QED
    BY <2>2 DEF StruckIn
<1>12. ASSUME NEW i \in 1..(n + 1)
       PROVE  /\ s[i].uid = u \/ \E j \in 1..n : s[i] = list[j]
              /\ s[i].uid \in DOMAIN m2 /\ m2[s[i].uid] = s[i].hurt
  <2>1. PICK j \in 1..(n + 1) : s[i] = l2[j]
    BY <1>9
  <2>2. CASE j = n + 1
    BY <1>4, <1>6, <1>11, <2>1, <2>2
  <2>3. CASE j \in 1..n
    <3>1. s[i] = list[j]
      BY <1>6, <2>1, <2>3
    <3>2. list[j].uid \in DOMAIN map /\ map[list[j].uid] = list[j].hurt
      BY <2>3 DEF RankOK
    <3>3. list[j].uid # u
      BY <2>3 DEF Ranks
    <3> QED
      BY <1>11, <2>3, <3>1, <3>2, <3>3
  <2> QED
    BY <1>7, <2>2, <2>3
<1>13. \A j \in 1..n : \E i \in 1..(n + 1) : s[i] = list[j]
  BY <1>6, <1>9, <1>10
<1>14. \E i \in 1..(n + 1) : s[i].uid = u
  BY <1>4, <1>6, <1>9, <1>10
<1> QED
  BY <1>9, <1>12, <1>13, <1>14 DEF LongerBy

\* There is room for him.
LEMMA RankedLast ==
    ASSUME NEW map, NEW list, RankOK(map, list), NEW u \in Uid, NEW sum \in Nat,
           ~Ranks(list, u), Len(list) < MaxTopNum, NEW m2, m2 = Struck(map, u, sum),
           NEW s \in Orders(Append(list, [uid |-> u, hurt |-> sum]))
    PROVE  RankOK(m2, s)
<1>1. PICK n : n = Len(list)
  OBVIOUS
<1>2. /\ s \in Seq(RankEntry) /\ Len(s) = n + 1 /\ Descending(s) /\ Apart(s)
      /\ \A i \in 1..(n + 1) : s[i].uid = u \/ \E j \in 1..n : s[i] = list[j]
      /\ \A j \in 1..n : \E i \in 1..(n + 1) : s[i] = list[j]
      /\ \E i \in 1..(n + 1) : s[i].uid = u
      /\ \A i \in 1..(n + 1) : s[i].uid \in DOMAIN m2 /\ m2[s[i].uid] = s[i].hurt
  <2>1. LongerBy(s, list, n, u, m2)
    BY <1>1, Longer
  <2> QED
    BY <2>1 DEF LongerBy
<1>3. n \in Nat /\ n + 1 <= MaxTopNum
  BY <1>1, BossAssumption DEF RankOK
<1>4. /\ HurtMapOK(m2)
      /\ DOMAIN m2 = DOMAIN map \cup {u}
  <2>1. HurtMapOK(map)
    BY DEF RankOK
  <2>2. HurtMapOK(m2) /\ StruckIn(m2, map, u, sum)
    BY <2>1, StruckMap
  <2> QED
    BY <2>2 DEF StruckIn
<1>5. \A x \in DOMAIN map : Ranks(list, x)
  BY BossAssumption DEF RankOK
<1>6. \A x \in DOMAIN m2 : Ranks(s, x)
  BY SMTT(30), <1>1, <1>2, <1>4, <1>5 DEF Ranks
<1> QED
  BY <1>2, <1>3, <1>4, <1>6 DEF RankOK

\* There is none: the last is cut.
LEMMA RankedAndCut ==
    ASSUME NEW map, NEW list, RankOK(map, list), NEW u \in Uid, NEW sum \in Nat,
           ~Ranks(list, u), Len(list) = MaxTopNum, NEW m2, m2 = Struck(map, u, sum),
           NEW s \in Orders(Append(list, [uid |-> u, hurt |-> sum]))
    PROVE  RankOK(m2, Front(s))
<1>1. PICK n : n = Len(list)
  OBVIOUS
<1>2. /\ s \in Seq(RankEntry) /\ Len(s) = n + 1 /\ Descending(s) /\ Apart(s)
      /\ \A i \in 1..(n + 1) : s[i].uid = u \/ \E j \in 1..n : s[i] = list[j]
      /\ \A j \in 1..n : \E i \in 1..(n + 1) : s[i] = list[j]
      /\ \E i \in 1..(n + 1) : s[i].uid = u
      /\ \A i \in 1..(n + 1) : s[i].uid \in DOMAIN m2 /\ m2[s[i].uid] = s[i].hurt
  <2>1. LongerBy(s, list, n, u, m2)
    BY <1>1, Longer
  <2> QED
    BY <2>1 DEF LongerBy
<1>3. n \in Nat /\ n >= 1 /\ n = MaxTopNum
  BY <1>1, BossAssumption DEF RankOK
<1>4. /\ HurtMapOK(m2)
      /\ DOMAIN m2 = DOMAIN map \cup {u}
      /\ \A x \in DOMAIN map : x # u => m2[x] = map[x]
  <2>1. HurtMapOK(map)
    BY DEF RankOK
  <2>2. HurtMapOK(m2) /\ StruckIn(m2, map, u, sum)
    BY <2>1, StruckMap
  <2> QED
    BY <2>2 DEF StruckIn
<1>5. PICK t : t = Front(s)
  OBVIOUS
<1>6. t \in Seq(RankEntry) /\ Len(t) = n /\ \A i \in 1..n : t[i] = s[i]
  BY <1>2, <1>3, <1>5 DEF Front
<1>7. n \in 1..n /\ n \in 1..(n + 1) /\ n + 1 \in 1..(n + 1) /\ 1..n \subseteq 1..(n + 1) /\ n # n + 1 /\ n < n + 1
  BY <1>3
<1>8. \A i \in 1..(n + 1) : s[i] \in RankEntry /\ s[i].hurt \in Nat
  <2>1. \A i \in 1..(n + 1) : s[i] \in RankEntry
    BY <1>2
  <2> QED
    BY <2>1 DEF RankEntry
<1>9. \A i \in 1..n : list[i] \in RankEntry /\ list[i].hurt \in Nat
  <2>1. list \in Seq(RankEntry)
    BY DEF RankOK
  <2>2. \A i \in 1..n : list[i] \in RankEntry
    BY <1>1, <2>1
  <2> QED
    BY <2>2 DEF RankEntry
<1>10. \A i \in 1..n : list[i].hurt >= list[n].hurt
  BY <1>1, <1>7, <1>9 DEF RankOK, Descending
<1>11. s[n].hurt >= s[n + 1].hurt
  BY <1>2, <1>7 DEF Descending
<1>12. s[n].hurt >= list[n].hurt
  <2>1. CASE s[n].uid # u
    BY <1>2, <1>7, <1>10, <2>1
  <2>2. CASE s[n].uid = u
    <3>1. s[n + 1].uid # u
      BY <1>2, <1>7, <2>2 DEF Apart
    <3>2. s[n + 1].hurt >= list[n].hurt
      BY <1>2, <1>7, <1>10, <3>1
    <3> QED
      BY <1>7, <1>8, <1>9, <1>11, <3>2
  <2> QED
    BY <2>1, <2>2
<1>13. Descending(t) /\ Apart(t)
  <2>1. Descending(t)
    BY <1>2, <1>6, <1>7 DEF Descending
  <2>2. Apart(t)
    BY <1>2, <1>6, <1>7 DEF Apart
  <2> QED
    BY <2>1, <2>2
<1>14. \A i \in 1..n : t[i].uid \in DOMAIN m2 /\ m2[t[i].uid] = t[i].hurt
  BY <1>2, <1>6, <1>7
<1>15. ASSUME NEW x \in DOMAIN m2, ~Ranks(t, x)
       PROVE  m2[x] <= t[n].hurt
  <2>1. t[n] = s[n]
    BY <1>6, <1>7
  <2>2. CASE s[n + 1].uid = x
    <3>1. m2[x] = s[n + 1].hurt
      BY <1>2, <1>7, <2>2
    <3> QED
      BY <1>7, <1>8, <1>11, <2>1, <3>1
  <2>3. CASE s[n + 1].uid # x
    <3>1. \A i \in 1..(n + 1) : i \in 1..n \/ i = n + 1
      BY <1>3
    <3>2. \A i \in 1..(n + 1) : s[i].uid # x
      BY <1>6, <1>15, <2>3, <3>1 DEF Ranks
    <3>3. x # u
      BY <1>2, <3>2
    <3>4. x \in DOMAIN map /\ m2[x] = map[x] /\ map[x] \in Nat
      BY <1>4, <3>3 DEF RankOK, HurtMapOK
    <3>5. ~Ranks(list, x)
      BY <1>1, <1>2, <3>2 DEF Ranks
    <3>6. map[x] <= list[n].hurt
      BY <1>1, <3>4, <3>5 DEF RankOK
    <3> QED
      BY <1>7, <1>8, <1>9, <1>12, <2>1, <3>4, <3>6
  <2> QED
    BY <2>2, <2>3
<1> QED
  BY <1>3, <1>4, <1>5, <1>6, <1>13, <1>14, <1>15 DEF RankOK

\* A blow keeps the ranking.
LEMMA BlowKeepsRank ==
    ASSUME NEW map, NEW list, RankOK(map, list), NEW u \in Uid, NEW d \in Nat, NEW sum \in Nat,
           sum = d + (IF u \in DOMAIN map THEN map[u] ELSE 0),
           NEW s \in AddTop(list, [uid |-> u, hurt |-> sum])
    PROVE  RankOK(Struck(map, u, sum), s)
<1>1. PICK i : i = PlaceIn(list, u)
  OBVIOUS
<1>2. PICK e : e = [uid |-> u, hurt |-> sum]
  OBVIOUS
<1>3. e.uid = u
  BY <1>2
<1>4. s \in (IF i # 0 THEN Orders([list EXCEPT ![i] = e])
             ELSE IF Len(list) < MaxTopNum THEN Orders(Append(list, e))
             ELSE {Front(t) : t \in Orders(Append(list, e))})
  BY <1>1, <1>2, <1>3 DEF AddTop, PlaceIn
<1>5. IF Ranks(list, u) THEN i \in 1..Len(list) /\ list[i].uid = u ELSE i = 0
  <2>1. list \in Seq(RankEntry) /\ Apart(list)
    BY DEF RankOK
  <2> QED
    BY <1>1, <2>1, RankPlaceOf
<1>6. list \in Seq(RankEntry) /\ Len(list) \in Nat /\ Len(list) <= MaxTopNum /\ MaxTopNum \in Nat
  BY BossAssumption DEF RankOK
<1>7. CASE Ranks(list, u)
  <2>1. i \in 1..Len(list) /\ list[i].uid = u /\ i # 0
    BY <1>5, <1>6, <1>7
  <2>2. sum >= list[i].hurt
    <3>1. u \in DOMAIN map /\ map[u] = list[i].hurt /\ map[u] \in Nat
      BY <2>1 DEF RankOK, HurtMapOK
    <3> QED
      BY <3>1
  <2>3. s \in Orders([list EXCEPT ![i] = e])
    BY <1>4, <2>1
  <2> QED
    BY <1>2, <2>1, <2>2, <2>3, RankedAgain
<1>8. CASE ~Ranks(list, u) /\ Len(list) < MaxTopNum
  BY <1>2, <1>4, <1>5, <1>8, RankedLast
<1>9. CASE ~Ranks(list, u) /\ ~(Len(list) < MaxTopNum)
  <2>1. PICK t \in Orders(Append(list, e)) : s = Front(t)
    BY <1>4, <1>5, <1>9
  <2> QED
    BY <1>2, <1>6, <1>9, <2>1, RankedAndCut
<1> QED
  BY <1>7, <1>8, <1>9

\* The list is as long as it can be.
LEMMA RankIsTop ==
    ASSUME RankOK(hurt, top)
    PROVE  TopOfMap
<1>1. PICK n : n = Len(top)
  OBVIOUS
<1>2. n \in Nat /\ DOMAIN top = 1..n /\ n <= MaxTopNum /\ MaxTopNum \in Nat
  BY <1>1, BossAssumption DEF RankOK
<1>3. PICK c : c = Cardinality(DOMAIN hurt)
  OBVIOUS
<1>4. c \in Nat /\ IsFiniteSet(DOMAIN hurt)
  BY <1>3, FS_CardinalityType DEF RankOK, HurtMapOK
<1> DEFINE f == [i \in 1..n |-> top[i].uid]
<1>5. f \in Injection(1..n, DOMAIN hurt)
  BY <1>1 DEF RankOK, Apart, Injection, IsInjective
<1>6. Cardinality(1..n) = n
  <2>1. 1 \in Int /\ n \in Int
    BY <1>2
  <2>2. Cardinality(1..n) = IF 1 > n THEN 0 ELSE n - 1 + 1
    BY <2>1, FS_Interval
  <2> QED
    BY <2>2, <1>2
<1>7. n <= c /\ (n = c <=> f \in Surjection(1..n, DOMAIN hurt))
  BY <1>3, <1>4, <1>5, <1>6, FS_Injection
<1>8. n = IF c < MaxTopNum THEN c ELSE MaxTopNum
  <2>1. CASE n = MaxTopNum
    BY <1>2, <1>4, <1>7, <2>1
  <2>2. CASE n # MaxTopNum
    <3>1. \A u \in DOMAIN hurt : \E i \in 1..n : f[i] = u
      BY <1>1, <2>2 DEF RankOK, Ranks
    <3>2. f \in [1..n -> DOMAIN hurt]
      BY <1>5 DEF Injection
    <3>3. f \in Surjection(1..n, DOMAIN hurt)
      BY <3>1, <3>2 DEF Surjection
    <3> QED
      BY <1>2, <1>4, <1>7, <2>2, <3>3
  <2> QED
    BY <2>1, <2>2
<1>9. \A i \in 1..n : hurt[top[i].uid] = top[i].hurt
  BY <1>1 DEF RankOK
<1>10. \A i, j \in 1..n : i < j => top[i].hurt >= top[j].hurt /\ top[i].uid # top[j].uid
  BY <1>1, <1>2 DEF RankOK, Descending, Apart
<1>11. \A u \in DOMAIN hurt : (\A i \in 1..n : top[i].uid # u) => hurt[u] <= top[n].hurt
  BY <1>1 DEF RankOK, Ranks
<1> QED
  BY <1>1, <1>2, <1>3, <1>8, <1>9, <1>10, <1>11 DEF TopOfMap

-----------------------------------------------------------------------------
(* What php is told                                                         *)

PhpItem ==
    [tell : {"elem", "stop"}] \cup [tell : {"hurt", "win"}, uid : Uid, hurt : Nat]
    \cup [tell : {"topMail"}, uid : Uid, rank : Nat] \cup [tell : {"shareMail"}, uid : Uid]

\* Nothing in s says `tell'.
Silent(s, tell) == \A i \in 1..Len(s) : s[i].tell # tell

\* What s says of `tell' is the sequence b, in one piece, behind the first n.
PieceAt(s, n, tell, b) ==
    /\ n \in Nat /\ n + Len(b) <= Len(s)
    /\ \A i \in 1..Len(s) : s[i].tell = tell <=> n < i /\ i <= n + Len(b)
    /\ \A i \in 1..Len(b) : s[n + i] = b[i]

Piece(s, tell, b) == \E n \in Nat : PieceAt(s, n, tell, b)

\* The items php is told of.
LEMMA ItemsAre ==
    ASSUME NEW u \in Uid, NEW n \in Nat
    PROVE  /\ [tell |-> "elem"] \in PhpItem /\ [tell |-> "stop"] \in PhpItem
           /\ [tell |-> "hurt", uid |-> u, hurt |-> n] \in PhpItem
           /\ [tell |-> "win", uid |-> u, hurt |-> n] \in PhpItem
           /\ [tell |-> "topMail", uid |-> u, rank |-> n] \in PhpItem
           /\ [tell |-> "shareMail", uid |-> u] \in PhpItem
<1>1. /\ [tell |-> "elem"] \in [tell : {"elem", "stop"}]
      /\ [tell |-> "stop"] \in [tell : {"elem", "stop"}]
  OBVIOUS
<1>2. /\ [tell |-> "hurt", uid |-> u, hurt |-> n] \in [tell : {"hurt", "win"}, uid : Uid, hurt : Nat]
      /\ [tell |-> "win", uid |-> u, hurt |-> n] \in [tell : {"hurt", "win"}, uid : Uid, hurt : Nat]
  OBVIOUS
<1>3. [tell |-> "topMail", uid |-> u, rank |-> n] \in [tell : {"topMail"}, uid : Uid, rank : Nat]
  OBVIOUS
<1>4. [tell |-> "shareMail", uid |-> u] \in [tell : {"shareMail"}, uid : Uid]
  OBVIOUS
<1> QED
  BY <1>1, <1>2, <1>3, <1>4 DEF PhpItem

\* Mails are well typed.
LEMMA MailsAre ==
    ASSUME NEW x, NEW u, NEW n
    PROVE  /\ x = [tell |-> "shareMail", uid |-> u] => x.tell = "shareMail" /\ x.uid = u
           /\ x = [tell |-> "topMail", uid |-> u, rank |-> n] => x.tell = "topMail"
<1>1. ASSUME x = [tell |-> "shareMail", uid |-> u] PROVE x.tell = "shareMail" /\ x.uid = u
  <2>1. [tell |-> "shareMail", uid |-> u].tell = "shareMail" /\ [tell |-> "shareMail", uid |-> u].uid = u
    OBVIOUS
  <2> QED
    BY <1>1, <2>1, Zenon
<1>2. ASSUME x = [tell |-> "topMail", uid |-> u, rank |-> n] PROVE x.tell = "topMail"
  <2>1. [tell |-> "topMail", uid |-> u, rank |-> n].tell = "topMail"
    OBVIOUS
  <2> QED
    BY <1>2, <2>1, Zenon
<1> QED
  BY <1>1, <1>2

\* One item is told behind the others.
LEMMA OneItem ==
    ASSUME NEW e \in PhpItem, NEW s, s = <<e>>
    PROVE  /\ s \in Seq(PhpItem) /\ Len(s) = 1 /\ s[1] = e
           /\ (e.tell # "stop" => Silent(s, "stop"))
           /\ (e.tell # "topMail" => Silent(s, "topMail"))
           /\ (e.tell # "shareMail" => Silent(s, "shareMail"))
<1>1. s \in Seq(PhpItem) /\ Len(s) = 1 /\ s[1] = e
  OBVIOUS
<1>2. ASSUME NEW tell, e.tell # tell PROVE Silent(s, tell)
  <2>1. \A i \in 1..Len(s) : s[i] = e
    BY <1>1
  <2> QED
    BY <1>2, <2>1 DEF Silent
<1>3. (e.tell # "stop" => Silent(s, "stop"))
  BY <1>2
<1>4. (e.tell # "topMail" => Silent(s, "topMail"))
  BY <1>2
<1>5. (e.tell # "shareMail" => Silent(s, "shareMail"))
  BY <1>2
<1> QED
  BY <1>1, <1>3, <1>4, <1>5

\* What is told after what was told.
LEMMA ToldAssociates == \A x, y, z \in Seq(PhpItem) : (x \o y) \o z = x \o (y \o z)
BY ConcatAssociative

\* Nothing of a kind in either part, nothing in both.
LEMMA SilentJoined ==
    ASSUME NEW a \in Seq(PhpItem), NEW b \in Seq(PhpItem), NEW tell, Silent(a, tell), Silent(b, tell)
    PROVE  a \o b \in Seq(PhpItem) /\ Silent(a \o b, tell)
<1>1. PICK c : c = a \o b
  OBVIOUS
<1>2. c \in Seq(PhpItem) /\ Len(c) = Len(a) + Len(b) /\ Len(a) \in Nat /\ Len(b) \in Nat
  BY <1>1, ConcatProperties
<1>3. \A i \in 1..Len(c) : c[i] = IF i <= Len(a) THEN a[i] ELSE b[i - Len(a)]
  BY <1>1, <1>2, ConcatProperties
<1>4. ASSUME NEW i \in 1..Len(c) PROVE c[i].tell # tell
  <2>1. CASE i <= Len(a)
    BY <1>2, <1>3, <2>1 DEF Silent
  <2>2. CASE ~(i <= Len(a))
    <3>1. i - Len(a) \in 1..Len(b)
      BY <1>2, <2>2
    <3> QED
      BY <1>3, <2>2, <3>1 DEF Silent
  <2> QED
    BY <2>1, <2>2
<1> QED
  BY <1>1, <1>2, <1>4 DEF Silent

PlacesIn(s, tell) == {i \in DOMAIN s : s[i].tell = tell}

PlacedAt(P, s, n, k, b) ==
    /\ P = (n + 1)..(n + k) /\ n \in 0..Len(s)
    /\ \A i \in 1..k : n + i \in P /\ s[n + i] = b[i]
    /\ \A i \in P : i - n \in 1..k /\ i = n + (i - n) /\ s[i] = b[i - n]

\* The places of a kind of mail are those of the one piece that holds them.
LEMMA PiecePlaces ==
    ASSUME NEW s \in Seq(PhpItem), NEW b, NEW k \in Nat, k = Len(b), NEW n \in Nat, NEW tell,
           PieceAt(s, n, tell, b), NEW P, P = PlacesIn(s, tell)
    PROVE  PlacedAt(P, s, n, k, b)
<1>1. Len(s) \in Nat /\ DOMAIN s = 1..Len(s)
  OBVIOUS
<1>2. n + k <= Len(s)
  BY DEF PieceAt
<1>3. \A i \in 1..Len(s) : s[i].tell = tell <=> n < i /\ i <= n + k
  BY DEF PieceAt
<1>4. \A i \in 1..k : s[n + i] = b[i]
  BY DEF PieceAt
<1>9. P = {i \in DOMAIN s : s[i].tell = tell}
  BY DEF PlacesIn
<1>5. P = (n + 1)..(n + k)
  <2>1. ASSUME NEW i \in P PROVE i \in (n + 1)..(n + k)
    <3>1. i \in 1..Len(s) /\ n < i /\ i <= n + k
      BY <1>1, <1>3, <1>9
    <3> QED
      BY <1>1, <3>1
  <2>2. ASSUME NEW i \in (n + 1)..(n + k) PROVE i \in P
    <3>1. i \in 1..Len(s) /\ n < i /\ i <= n + k
      BY <1>1, <1>2
    <3> QED
      BY <1>1, <1>3, <1>9, <3>1
  <2> QED
    BY <2>1, <2>2
<1>6. ASSUME NEW i \in 1..k PROVE n + i \in P /\ s[n + i] = b[i]
  BY <1>4, <1>5
<1>7. ASSUME NEW i \in P PROVE i - n \in 1..k /\ i = n + (i - n) /\ s[i] = b[i - n]
  <2>1. PICK j \in 1..k : i = n + j
    <3>1. i - n \in 1..k /\ i = n + (i - n)
      BY <1>5
    <3> QED
      BY <3>1
  <2>2. i - n = j /\ s[i] = b[j]
    BY <1>4, <2>1
  <2> QED
    BY <2>1, <2>2
<1>8. n \in 0..Len(s)
  BY <1>1, <1>2
<1> QED
  BY <1>5, <1>6, <1>7, <1>8 DEF PlacedAt

\* More is told behind it.
LEMMA PieceAndMore ==
    ASSUME NEW s \in Seq(PhpItem), NEW more \in Seq(PhpItem), NEW tell, NEW T, NEW b \in Seq(T),
           Piece(s, tell, b), Silent(more, tell)
    PROVE  Piece(s \o more, tell, b)
<1>1. PICK c : c = s \o more
  OBVIOUS
<1>2. /\ c \in Seq(PhpItem) /\ Len(c) = Len(s) + Len(more) /\ Len(s) \in Nat /\ Len(more) \in Nat
      /\ Len(b) \in Nat
  BY <1>1, ConcatProperties
<1>3. \A i \in 1..Len(c) : c[i] = IF i <= Len(s) THEN s[i] ELSE more[i - Len(s)]
  BY <1>1, <1>2, ConcatProperties
<1>4. PICK n \in Nat : PieceAt(s, n, tell, b)
  BY DEF Piece
<1>5. n + Len(b) <= Len(s)
  BY <1>4 DEF PieceAt
<1>6. ASSUME NEW i \in 1..Len(c) PROVE c[i].tell = tell <=> n < i /\ i <= n + Len(b)
  <2>1. CASE i <= Len(s)
    <3>1. i \in 1..Len(s) /\ c[i] = s[i]
      BY <1>2, <1>3, <2>1
    <3>2. s[i].tell = tell <=> n < i /\ i <= n + Len(b)
      BY <1>4, <3>1 DEF PieceAt
    <3> QED
      BY <3>1, <3>2
  <2>2. CASE ~(i <= Len(s))
    <3>1. i - Len(s) \in 1..Len(more)
      BY <1>2, <2>2
    <3>2. c[i].tell # tell
      BY <1>3, <2>2, <3>1 DEF Silent
    <3> QED
      BY <1>2, <1>5, <2>2, <3>2
  <2> QED
    BY <2>1, <2>2
<1>7. ASSUME NEW i \in 1..Len(b) PROVE c[n + i] = b[i]
  <2>1. n + i \in 1..Len(c) /\ n + i <= Len(s)
    BY <1>2, <1>5
  <2>2. s[n + i] = b[i]
    BY <1>4 DEF PieceAt
  <2> QED
    BY <1>3, <2>1, <2>2
<1>8. PieceAt(c, n, tell, b)
  BY <1>2, <1>5, <1>6, <1>7 DEF PieceAt
<1> QED
  BY <1>1, <1>8 DEF Piece

\* It is told for the first time.
LEMMA PieceIsNew ==
    ASSUME NEW s \in Seq(PhpItem), NEW b \in Seq(PhpItem), NEW tell,
           Silent(s, tell), \A i \in 1..Len(b) : b[i].tell = tell
    PROVE  Piece(s \o b, tell, b)
<1>1. PICK c : c = s \o b
  OBVIOUS
<1>2. c \in Seq(PhpItem) /\ Len(c) = Len(s) + Len(b) /\ Len(s) \in Nat /\ Len(b) \in Nat
  BY <1>1, ConcatProperties
<1>3. \A i \in 1..Len(c) : c[i] = IF i <= Len(s) THEN s[i] ELSE b[i - Len(s)]
  BY <1>1, <1>2, ConcatProperties
<1>4. PICK n \in Nat : n = Len(s)
  BY <1>2
<1>6. ASSUME NEW i \in 1..Len(c) PROVE c[i].tell = tell <=> n < i /\ i <= n + Len(b)
  <2>1. CASE i <= n
    BY <1>2, <1>3, <1>4, <2>1 DEF Silent
  <2>2. CASE ~(i <= n)
    <3>1. i - n \in 1..Len(b)
      BY <1>2, <1>4, <2>2
    <3>2. c[i].tell = tell
      BY <1>3, <1>4, <2>2, <3>1
    <3> QED
      BY <1>2, <1>4, <2>2, <3>2
  <2> QED
    BY <2>1, <2>2
<1>7. ASSUME NEW i \in 1..Len(b) PROVE c[n + i] = b[i]
  <2>1. n + i \in 1..Len(c) /\ ~(n + i <= n) /\ (n + i) - n = i
    BY <1>2, <1>4
  <2> QED
    BY <1>3, <1>4, <2>1
<1>8. n + Len(b) <= Len(c)
  BY <1>2, <1>4
<1>9. PieceAt(c, n, tell, b)
  BY <1>6, <1>7, <1>8 DEF PieceAt
<1> QED
  BY <1>1, <1>9 DEF Piece

\* php took the first of the queue.
LEMMA TakenByPhp ==
    ASSUME NEW l \in Seq(PhpItem), NEW q \in Seq(PhpItem), q # <<>>
    PROVE  /\ Head(q) \in PhpItem /\ Tail(q) \in Seq(PhpItem) /\ Append(l, Head(q)) \in Seq(PhpItem)
           /\ Append(l, Head(q)) \o Tail(q) = l \o q
           /\ Len(Tail(q)) = Len(q) - 1 /\ \A i \in 1..Len(Tail(q)) : Tail(q)[i] = q[i + 1]
<1>1. PICK h : h = Head(q)
  OBVIOUS
<1>2. PICK t : t = Tail(q)
  OBVIOUS
<1>3. h \in PhpItem /\ t \in Seq(PhpItem) /\ q = <<h>> \o t
  BY <1>1, <1>2, HeadTailProperties
<1>4. Append(l, h) = l \o <<h>> /\ <<h>> \in Seq(PhpItem)
  BY <1>3, AppendIsConcat
<1>5. (l \o <<h>>) \o t = l \o (<<h>> \o t)
  BY <1>3, <1>4, ConcatAssociative
<1>6. Append(l, h) \in Seq(PhpItem)
  BY <1>3
<1>7. Len(t) = Len(q) - 1 /\ \A i \in 1..Len(t) : t[i] = q[i + 1]
  BY <1>2
<1> QED
  BY <1>1, <1>2, <1>3, <1>4, <1>5, <1>6, <1>7

-----------------------------------------------------------------------------
(* The prizes                                                               *)

\* SetToSeq of the community modules: every member, once.
LEMMA PlayersInOrder ==
    ASSUME NEW D, IsFiniteSet(D), NEW s, s = SetToSeq(D), NEW n, n = Cardinality(D)
    PROVE  /\ n \in Nat /\ s \in [1..n -> D] /\ s \in Seq(D) /\ Len(s) = n /\ DOMAIN s = 1..n
           /\ \A x \in D : \E i \in 1..n : s[i] = x
<1>2. n \in Nat /\ ExistsBijection(1..n, D)
  BY FS_CardinalityType
<1>3. \E f \in [1..n -> D] : IsInjective(f)
  BY <1>2 DEF ExistsBijection, Bijection, Injection
<1>4. s \in [1..n -> D] /\ IsInjective(s)
  BY <1>3 DEF SetToSeq
<1>5. s \in Injection(1..n, D)
  BY <1>4 DEF Injection
<1>6. Cardinality(1..n) = n
  <2>1. 1 \in Int /\ n \in Int
    BY <1>2
  <2>2. Cardinality(1..n) = IF 1 > n THEN 0 ELSE n - 1 + 1
    BY <2>1, FS_Interval
  <2> QED
    BY <2>2, <1>2
<1>7. s \in Surjection(1..n, D)
  BY <1>2, <1>5, <1>6, FS_Injection
<1>8. \A x \in D : \E i \in 1..n : s[i] = x
  BY <1>7 DEF Surjection
<1> QED
  BY <1>2, <1>4, <1>8

\* Who deserves a share are finitely many players of the map.
LEMMA DeservingAreFew ==
    ASSUME NEW map, HurtMapOK(map)
    PROVE  IsFiniteSet(Deserving(map)) /\ Deserving(map) \subseteq Uid
<1>1. Deserving(map) \subseteq DOMAIN map
  BY DEF Deserving
<1> QED
  BY <1>1, FS_Subset DEF HurtMapOK

SharesAre(b, map) ==
    /\ b \in Seq(PhpItem) /\ Len(b) = Cardinality(Deserving(map))
    /\ \A i \in 1..Len(b) : b[i].tell = "shareMail" /\ b[i].uid \in Deserving(map)
    /\ \A u \in Deserving(map) : \E i \in 1..Len(b) : b[i].uid = u

\* The mails of the shares: one for each who deserves one.
LEMMA ShareMailsAre ==
    ASSUME NEW map, HurtMapOK(map), NEW b, b = ShareMails(map)
    PROVE  SharesAre(b, map)
<1>1. PICK D : D = Deserving(map)
  OBVIOUS
<1>2. IsFiniteSet(D) /\ D \subseteq Uid
  BY <1>1, DeservingAreFew
<1>3. PICK s : s = SetToSeq(D)
  OBVIOUS
<1>4. PICK n : n = Cardinality(D)
  OBVIOUS
<1>5. /\ n \in Nat /\ s \in [1..n -> D] /\ DOMAIN s = 1..n
      /\ \A x \in D : \E i \in 1..n : s[i] = x
  BY <1>2, <1>3, <1>4, PlayersInOrder
<1>6. b = [i \in 1..n |-> [tell |-> "shareMail", uid |-> s[i]]]
  BY <1>1, <1>3, <1>5 DEF ShareMails
<1>7. \A i \in 1..n : s[i] \in D /\ s[i] \in Uid
  BY <1>2, <1>5
<1>8. \A i \in 1..n : b[i] = [tell |-> "shareMail", uid |-> s[i]] /\ b[i] \in PhpItem
  <2> SUFFICES ASSUME NEW i \in 1..n
               PROVE  b[i] = [tell |-> "shareMail", uid |-> s[i]] /\ b[i] \in PhpItem
    OBVIOUS
  <2>1. b[i] = [tell |-> "shareMail", uid |-> s[i]]
    BY <1>6
  <2>2. PICK u \in Uid : u = s[i]
    BY <1>7
  <2>3. [tell |-> "shareMail", uid |-> u] \in PhpItem
    BY ItemsAre, 0 \in Nat
  <2> QED
    BY <2>1, <2>2, <2>3
<1>9. b \in [1..n -> PhpItem]
  BY <1>6, <1>8
<1>10. b \in Seq(PhpItem) /\ Len(b) = n
  BY <1>5, <1>9
<1> QED
  <2>1. \A i \in 1..n : b[i].tell = "shareMail" /\ b[i].uid = s[i]
    <3> SUFFICES ASSUME NEW i \in 1..n PROVE b[i].tell = "shareMail" /\ b[i].uid = s[i]
      OBVIOUS
    <3>1. b[i] = [tell |-> "shareMail", uid |-> s[i]]
      BY <1>8
    <3> QED
      BY <3>1, MailsAre
  <2>2. \A i \in 1..n : b[i].uid \in D
    BY <1>7, <2>1
  <2>3. \A u \in D : \E i \in 1..n : b[i].uid = u
    BY <1>5, <2>1
  <2> QED
    BY <1>1, <1>4, <1>10, <2>1, <2>2, <2>3 DEF SharesAre

\* The mails of the ranking: one for each rank, in its order.
LEMMA TopMailsAre ==
    ASSUME NEW list \in Seq(RankEntry), NEW b, b = TopMails(list)
    PROVE  /\ b \in Seq(PhpItem) /\ Len(b) = Len(list)
           /\ \A i \in 1..Len(b) : b[i].tell = "topMail"
<1>1. PICK n : n = Len(list)
  OBVIOUS
<1>2. n \in Nat /\ DOMAIN list = 1..n /\ \A i \in 1..n : list[i] \in RankEntry
  BY <1>1
<1>3. b = [i \in 1..n |-> [tell |-> "topMail", uid |-> list[i].uid, rank |-> i]]
  BY <1>2 DEF TopMails
<1>4. \A i \in 1..n : b[i].tell = "topMail" /\ b[i] \in PhpItem
  <2> SUFFICES ASSUME NEW i \in 1..n PROVE b[i].tell = "topMail" /\ b[i] \in PhpItem
    OBVIOUS
  <2>1. b[i] = [tell |-> "topMail", uid |-> list[i].uid, rank |-> i]
    BY <1>3
  <2>2. PICK u \in Uid : u = list[i].uid
    BY <1>2 DEF RankEntry
  <2>3. i \in Nat
    BY <1>2
  <2>4. [tell |-> "topMail", uid |-> u, rank |-> i] \in PhpItem
    BY <2>3, ItemsAre
  <2>5. b[i] = [tell |-> "topMail", uid |-> u, rank |-> i]
    BY <2>1, <2>2
  <2> QED
    BY <2>4, <2>5, MailsAre
<1>5. b \in [1..n -> PhpItem]
  BY <1>3, <1>4
<1> QED
  <2>1. b \in Seq(PhpItem) /\ Len(b) = n
    BY <1>2, <1>5
  <2> QED
    BY <1>1, <1>4, <2>1

\* Of some places one is the first.
LEMMA LeastPlace ==
    ASSUME NEW T \in SUBSET Nat, T # {}
    PROVE  (CHOOSE i \in T : \A j \in T : i <= j) \in T
<1>1. \E x \in T : \A y \in T : x <= y
  <2>1. IsWellFoundedOn(OpToRel(<, Nat), Nat)
    BY NatLessThanWellFounded
  <2>2. PICK x \in T : \A y \in T : ~(<<y, x>> \in OpToRel(<, Nat))
    BY <2>1, WFMin
  <2>3. \A y \in T : ~(y < x)
    BY <2>2 DEF OpToRel
  <2> QED
    BY <2>3
<1> QED
  BY <1>1

\* What php is told of the winners is no prize.
LEMMA WinsAre ==
    ASSUME NEW list \in Seq(RankEntry), NEW b, b = TellPhpTop(list)
    PROVE  /\ b \in Seq(PhpItem)
           /\ \A i \in 1..Len(b) : b[i].tell = "win"
<1>1. PICK n : n = Len(list)
  OBVIOUS
<1>2. n \in Nat /\ DOMAIN list = 1..n /\ \A i \in 1..n : list[i] \in RankEntry
  BY <1>1
<1>3. PICK bad : bad = {i \in DOMAIN list : list[i].uid \in LongName}
  OBVIOUS
<1> DEFINE first == CHOOSE i \in bad : \A j \in bad : i <= j
<1> HIDE DEF first
<1>4. PICK last : last = IF bad = {} THEN Len(list) ELSE first - 1
  OBVIOUS
<1>5. b = [i \in 1..last |-> [tell |-> "win", uid |-> list[i].uid, hurt |-> list[i].hurt]]
  BY <1>3, <1>4 DEF TellPhpTop, first
<1>6. last \in Nat /\ last <= n
  <2>1. bad \subseteq 1..n /\ bad \in SUBSET Nat
    BY <1>2, <1>3
  <2>2. CASE bad = {}
    BY <1>1, <1>2, <1>4, <2>2
  <2>3. CASE bad # {}
    <3>1. first \in bad
      BY <2>1, <2>3, LeastPlace DEF first
    <3>2. PICK m \in bad : last = m - 1
      BY <1>4, <2>3, <3>1
    <3> QED
      BY <1>2, <2>1, <3>2
  <2> QED
    BY <2>2, <2>3
<1>7. \A i \in 1..last : i \in 1..n
  BY <1>2, <1>6
<1>8. \A i \in 1..last : b[i].tell = "win" /\ b[i] \in PhpItem
  <2> SUFFICES ASSUME NEW i \in 1..last PROVE b[i].tell = "win" /\ b[i] \in PhpItem
    OBVIOUS
  <2>1. b[i] = [tell |-> "win", uid |-> list[i].uid, hurt |-> list[i].hurt]
    BY <1>5
  <2>2. PICK u \in Uid : u = list[i].uid
    BY <1>2, <1>7 DEF RankEntry
  <2>3. PICK h \in Nat : h = list[i].hurt
    BY <1>2, <1>7 DEF RankEntry
  <2>4. [tell |-> "win", uid |-> u, hurt |-> h] \in PhpItem
    BY ItemsAre
  <2> QED
    BY <2>1, <2>2, <2>3, <2>4
<1>9. b \in [1..last -> PhpItem]
  BY <1>5, <1>8
<1>10. b \in Seq(PhpItem) /\ Len(b) = last
  BY <1>6, <1>9
<1> QED
  BY <1>8, <1>10

\* Whatever php was told before, it is now told the prizes of that map and that list.
PrizesIn(s, map, list) ==
    Piece(s, "topMail", TopMails(list)) /\ Piece(s, "shareMail", ShareMails(map))

NoPrizesIn(s) == Silent(s, "topMail") /\ Silent(s, "shareMail")

\* The prizes are told once where none were told.
LEMMA PrizesAreNew ==
    ASSUME NEW s \in Seq(PhpItem), NoPrizesIn(s), NEW map, NEW list, RankOK(map, list)
    PROVE  /\ Prizes(map, list) \in Seq(PhpItem) /\ PrizesIn(s \o Prizes(map, list), map, list)
           /\ Silent(Prizes(map, list), "stop")
<1>1. PICK a : a = TopMails(list)
  OBVIOUS
<1>2. PICK b : b = ShareMails(map)
  OBVIOUS
<1>3. PICK c : c = TellPhpTop(list)
  OBVIOUS
<1>4. /\ a \in Seq(PhpItem) /\ Silent(a, "shareMail") /\ Silent(a, "stop")
      /\ \A i \in 1..Len(a) : a[i].tell = "topMail"
  BY <1>1, TopMailsAre DEF RankOK, Silent
<1>5. /\ b \in Seq(PhpItem) /\ Silent(b, "topMail") /\ Silent(b, "stop")
      /\ \A i \in 1..Len(b) : b[i].tell = "shareMail"
  <2>1. b \in Seq(PhpItem) /\ \A i \in 1..Len(b) : b[i].tell = "shareMail"
    <3>1. HurtMapOK(map)
      BY DEF RankOK
    <3> QED
      BY <1>2, <3>1, ShareMailsAre DEF SharesAre
  <2> QED
    BY <2>1 DEF Silent
<1>6. c \in Seq(PhpItem) /\ Silent(c, "topMail") /\ Silent(c, "shareMail") /\ Silent(c, "stop")
  BY <1>3, WinsAre DEF RankOK, Silent
<1>7. PICK sa : sa = s \o a
  OBVIOUS
<1>8. sa \in Seq(PhpItem) /\ Silent(sa, "shareMail")
  BY <1>4, <1>7, SilentJoined DEF NoPrizesIn
<1>9. PICK sab : sab = sa \o b
  OBVIOUS
<1>10. sab \in Seq(PhpItem)
  BY <1>5, <1>8, <1>9, ConcatProperties
<1>11. PICK d : d = (sab \o c)
  OBVIOUS
<1>12. Piece(sa, "topMail", a)
  BY <1>4, <1>7, PieceIsNew DEF NoPrizesIn
<1>13. Piece(sab, "topMail", a)
  BY <1>4, <1>5, <1>8, <1>9, <1>12, PieceAndMore
<1>14. Piece(d, "topMail", a)
  BY <1>4, <1>6, <1>10, <1>11, <1>13, PieceAndMore
<1>15. Piece(sab, "shareMail", b)
  BY <1>5, <1>8, <1>9, PieceIsNew
<1>16. Piece(d, "shareMail", b)
  BY <1>5, <1>6, <1>10, <1>11, <1>15, PieceAndMore
<1>17. Prizes(map, list) = (a \o b) \o c
  BY <1>1, <1>2, <1>3 DEF Prizes
<1>18. a \o b \in Seq(PhpItem) /\ Silent(a \o b, "stop")
  BY <1>4, <1>5, SilentJoined
<1>19. d = s \o ((a \o b) \o c)
  <2>1. PICK ab : ab = a \o b
    OBVIOUS
  <2>2. a \in Seq(PhpItem) /\ b \in Seq(PhpItem) /\ c \in Seq(PhpItem) /\ ab \in Seq(PhpItem)
    BY <1>4, <1>5, <1>6, <1>18, <2>1
  <2>3. s \o (a \o b) = (s \o a) \o b
    <3>1. \A x, y, z \in Seq(PhpItem) : (x \o y) \o z = x \o (y \o z)
      BY SMTT(30), ConcatAssociative
    <3> QED
      BY <2>2, <3>1
  <2>4. s \o (ab \o c) = (s \o ab) \o c
    BY SMTT(30), <2>2, ConcatAssociative
  <2>5. s \o ab = sab
    BY <1>7, <1>9, <2>1, <2>3
  <2> QED
    BY <1>11, <2>1, <2>4, <2>5
<1>20. (a \o b) \o c \in Seq(PhpItem) /\ Silent((a \o b) \o c, "stop")
  BY <1>6, <1>18, SilentJoined
<1> QED
  BY <1>1, <1>2, <1>14, <1>16, <1>17, <1>19, <1>20 DEF PrizesIn

\* What is told behind them that is no prize leaves them as they are.
LEMMA PrizesStay ==
    ASSUME NEW s \in Seq(PhpItem), NEW map, NEW list, RankOK(map, list), PrizesIn(s, map, list),
           NEW more \in Seq(PhpItem), NoPrizesIn(more)
    PROVE  PrizesIn(s \o more, map, list)
<1>1. PICK a : a = TopMails(list)
  OBVIOUS
<1>2. PICK b : b = ShareMails(map)
  OBVIOUS
<1>3. a \in Seq(PhpItem) /\ b \in Seq(PhpItem)
  BY <1>1, <1>2, TopMailsAre, ShareMailsAre DEF RankOK, SharesAre
<1>4. Piece(s, "topMail", a) /\ Piece(s, "shareMail", b) /\ Silent(more, "topMail") /\ Silent(more, "shareMail")
  BY <1>1, <1>2 DEF PrizesIn, NoPrizesIn
<1>5. Piece(s \o more, "topMail", a)
  BY <1>3, <1>4, PieceAndMore
<1>6. Piece(s \o more, "shareMail", b)
  BY <1>3, <1>4, PieceAndMore
<1> QED
  BY <1>1, <1>2, <1>5, <1>6 DEF PrizesIn

-----------------------------------------------------------------------------
(* bosssrv                                                                  *)

BossRecord == [hp : Int, haveAward : BOOLEAN, update : BOOLEAN, isJiesuan : BOOLEAN]

\* The end of the thread is the last that it is told.
StopLast(q) ==
    /\ q # <<>> /\ q[Len(q)].tell = "stop"
    /\ \A i \in 1..Len(q) : q[i].tell = "stop" => i = Len(q)

PrizeState(have, s, a) ==
    IF have THEN RankOK(a.hurt, a.top) /\ PrizesIn(s, a.hurt, a.top) ELSE NoPrizesIn(s)

ThreadOK ==
    /\ Silent(loaded, "stop")
    /\ bossAt \in {"loop", "stop"} => ~phpEnded /\ Silent(phpQueue, "stop")
    /\ bossAt \in {"join", "done"} =>
          boss.haveAward /\ (IF phpEnded THEN phpQueue = <<>> ELSE StopLast(phpQueue))
    /\ bossAt = "done" => phpEnded

AwardOK ==
    boss.haveAward /\ ~boss.isJiesuan =>
        awarded.hurt = hurt /\ (bossAt = "loop" => boss.hp <= 0)

BossInv ==
    /\ boss \in BossRecord /\ bossAt \in {"loop", "stop", "join", "done"} /\ phpEnded \in BOOLEAN
    /\ phpQueue \in Seq(PhpItem) /\ loaded \in Seq(PhpItem)
    /\ RankOK(hurt, top)
    /\ ThreadOK
    /\ PrizeState(boss.haveAward, loaded \o phpQueue, awarded)
    /\ AwardOK

\* The server starts with nothing told.
LEMMA BossStarts == BossInit => BossInv
<1> SUFFICES ASSUME BossInit PROVE BossInv
  OBVIOUS
<1>1. boss = [hp |-> InitBossHp, haveAward |-> FALSE, update |-> FALSE, isJiesuan |-> FALSE] /\ bossAt = "loop"
      /\ phpEnded = FALSE /\ loaded = <<>>
  BY DEF BossInit
<1>2. boss \in BossRecord /\ boss.haveAward = FALSE
  BY <1>1, BossAssumption DEF BossRecord
<1>3. PICK e : e = [tell |-> "elem"]
  OBVIOUS
<1>4. e \in PhpItem /\ e.tell = "elem"
  BY <1>3 DEF PhpItem
<1>5. phpQueue = <<e>>
  BY <1>3 DEF BossInit
<1>6. phpQueue \in Seq(PhpItem)
      /\ (e.tell # "stop" => Silent(phpQueue, "stop"))
      /\ (e.tell # "topMail" => Silent(phpQueue, "topMail"))
      /\ (e.tell # "shareMail" => Silent(phpQueue, "shareMail"))
  BY <1>4, <1>5, OneItem
<1>7. Silent(phpQueue, "stop") /\ Silent(phpQueue, "topMail") /\ Silent(phpQueue, "shareMail")
  BY <1>4, <1>6
<1>8. loaded \in Seq(PhpItem) /\ Len(loaded) = 0
  BY <1>1
<1>9. loaded \o phpQueue = phpQueue
  BY <1>1, <1>6, ConcatEmptySeq
<1>10. NoPrizesIn(loaded \o phpQueue)
  BY <1>7, <1>9 DEF NoPrizesIn
<1>11. RankOK(hurt, top)
  <2>1. DOMAIN hurt = {} /\ top = <<>>
    BY DEF BossInit
  <2>2. HurtMapOK(hurt)
    BY FS_EmptySet, <2>1 DEF BossInit, HurtMapOK
  <2>3. top \in Seq(RankEntry) /\ Len(top) = 0
    BY <2>1
  <2> QED
    BY <2>1, <2>2, <2>3, BossAssumption DEF RankOK, Descending, Apart
<1>12. Silent(loaded, "stop")
  BY <1>8 DEF Silent
<1> QED
  <2>1. ThreadOK /\ AwardOK
    BY <1>1, <1>2, <1>7, <1>12 DEF ThreadOK, AwardOK
  <2>2. PrizeState(boss.haveAward, loaded \o phpQueue, awarded)
    BY <1>2, <1>10 DEF PrizeState
  <2> QED
    BY <1>1, <1>2, <1>6, <1>8, <1>11, <2>1, <2>2 DEF BossInv

\* Prizes are right as long as nothing of theirs changes.
LEMMA PrizeStateStays ==
    ASSUME NEW s \in Seq(PhpItem), NEW more \in Seq(PhpItem), NoPrizesIn(more), NEW have, NEW a,
           PrizeState(have, s, a)
    PROVE  PrizeState(have, s \o more, a)
<1>1. CASE have
  BY <1>1, PrizesStay DEF PrizeState
<1>2. CASE ~have
  BY <1>2, SilentJoined DEF PrizeState, NoPrizesIn
<1> QED
  BY <1>1, <1>2

\* tellPhpActOver: the prizes have been told when it returns.
LEMMA ActOver ==
    ASSUME NEW b \in BossRecord, NEW map, NEW list, RankOK(map, list), NEW before \in Seq(PhpItem),
           NEW after \in Seq(PhpItem), Silent(before, "stop"), NoPrizesIn(after), loaded \in Seq(PhpItem),
           PrizeState(b.haveAward, loaded \o before, awarded),
           TellPhpActOver(b, map, list, before, after)
    PROVE  /\ boss' \in BossRecord /\ boss'.haveAward /\ boss'.hp = b.hp /\ boss'.isJiesuan = b.isJiesuan
           /\ PrizeState(TRUE, loaded \o phpQueue', awarded')
           /\ \E x \in Seq(PhpItem) : Silent(x, "stop") /\ phpQueue' = x \o after
           /\ IF b.haveAward THEN awarded' = awarded ELSE awarded'.hurt = map
<1>1. PICK s : s = loaded \o before
  OBVIOUS
<1>2. s \in Seq(PhpItem) /\ PrizeState(b.haveAward, s, awarded)
  BY <1>1, ConcatProperties
<1>3. \A x, y, z \in Seq(PhpItem) : (x \o y) \o z = x \o (y \o z)
  BY ToldAssociates, Zenon
<1>4. CASE b.haveAward
  <2>1. boss' = b /\ phpQueue' = before \o after /\ awarded' = awarded
    BY <1>4 DEF TellPhpActOver
  <2>2. PrizeState(b.haveAward, s \o after, awarded)
    BY <1>2, PrizeStateStays
  <2>3. s \o after = loaded \o phpQueue'
    BY <1>1, <1>3, <2>1
  <2>4. PrizeState(TRUE, loaded \o phpQueue', awarded')
    BY <1>4, <2>1, <2>2, <2>3 DEF PrizeState
  <2> QED
    BY <1>4, <2>1, <2>4
<1>5. CASE ~b.haveAward
  <2>1. PICK p : p = Prizes(map, list)
    OBVIOUS
  <2>2. /\ boss' = [b EXCEPT !.haveAward = TRUE]
        /\ phpQueue' = before \o p \o after /\ awarded' = [hurt |-> map, top |-> list]
    BY <1>5, <2>1 DEF TellPhpActOver
  <2>3. boss' \in BossRecord /\ boss'.haveAward /\ boss'.hp = b.hp /\ boss'.isJiesuan = b.isJiesuan
    BY <2>2 DEF BossRecord
  <2>4. awarded'.hurt = map /\ awarded'.top = list
    BY <2>2
  <2>5. NoPrizesIn(s)
    BY <1>2, <1>5 DEF PrizeState
  <2>6. p \in Seq(PhpItem) /\ PrizesIn(s \o p, map, list) /\ Silent(p, "stop")
    BY <1>2, <2>1, <2>5, PrizesAreNew
  <2>7. PICK sp : sp = s \o p
    OBVIOUS
  <2>8. sp \in Seq(PhpItem) /\ PrizesIn(sp, map, list)
    BY <1>2, <2>6, <2>7, ConcatProperties
  <2>9. PrizesIn(sp \o after, map, list)
    BY <2>8, PrizesStay
  <2>10. PICK x : x = before \o p
    OBVIOUS
  <2>11. x \in Seq(PhpItem) /\ Silent(x, "stop")
    BY <2>6, <2>10, SilentJoined
  <2>12. phpQueue' = x \o after
    BY <2>2, <2>10
  <2>13. sp = loaded \o x
    BY <1>1, <1>3, <2>6, <2>7, <2>10
  <2>14. sp \o after = loaded \o phpQueue'
    BY <1>3, <2>11, <2>12, <2>13
  <2>15. PrizeState(TRUE, loaded \o phpQueue', awarded')
    BY <2>4, <2>9, <2>14 DEF PrizeState
  <2> QED
    BY <1>5, <2>3, <2>4, <2>11, <2>12, <2>15
<1> QED
  BY <1>4, <1>5

\* Nothing told adds nothing.
LEMMA NothingMore ==
    /\ <<>> \in Seq(PhpItem) /\ NoPrizesIn(<<>>)
    /\ \A x \in Seq(PhpItem) : x \o <<>> = x
<1>1. Len(<<>>) = 0
  OBVIOUS
<1>2. NoPrizesIn(<<>>)
  BY <1>1 DEF NoPrizesIn, Silent
<1> QED
  BY <1>2, ConcatEmptySeq

\* The stop item of the php thread goes in last.
LEMMA EndMore ==
    ASSUME NEW stop, stop = <<[tell |-> "stop"]>>, NEW x \in Seq(PhpItem), Silent(x, "stop")
    PROVE  stop \in Seq(PhpItem) /\ NoPrizesIn(stop) /\ StopLast(x \o stop)
<1>1. PICK e : e = [tell |-> "stop"]
  OBVIOUS
<1>2. e \in PhpItem /\ e.tell = "stop"
  BY <1>1 DEF PhpItem
<1>3. stop \in Seq(PhpItem) /\ Len(stop) = 1 /\ stop[1] = e
  BY <1>1, <1>2, OneItem
<1>4. NoPrizesIn(stop)
  BY <1>1, <1>2, OneItem DEF NoPrizesIn
<1>5. PICK c : c = x \o stop
  OBVIOUS
<1>6. c \in Seq(PhpItem) /\ Len(c) = Len(x) + 1 /\ Len(x) \in Nat
  BY <1>3, <1>5, ConcatProperties
<1>7. \A i \in 1..Len(c) : c[i] = IF i <= Len(x) THEN x[i] ELSE stop[i - Len(x)]
  BY <1>3, <1>5, <1>6, ConcatProperties
<1>8. c[Len(c)] = e
  BY <1>3, <1>6, <1>7
<1>9. ASSUME NEW i \in 1..Len(c), c[i].tell = "stop" PROVE i = Len(c)
  BY <1>6, <1>7, <1>9 DEF Silent
<1>10. c # <<>>
  BY <1>6
<1> QED
  BY <1>2, <1>3, <1>4, <1>5, <1>8, <1>9, <1>10 DEF StopLast

\* The records of the boss are well typed after each of their updates.
LEMMA BossRecords ==
    ASSUME NEW b \in BossRecord, NEW n \in Int, NEW c
    PROVE  /\ c = [b EXCEPT !.hp = n, !.update = FALSE] =>
                 c \in BossRecord /\ c.hp = n /\ c.haveAward = b.haveAward /\ c.isJiesuan = b.isJiesuan
           /\ c = [b EXCEPT !.hp = n, !.update = TRUE] =>
                 c \in BossRecord /\ c.haveAward = b.haveAward /\ c.isJiesuan = b.isJiesuan
<1>1. ASSUME NEW up \in BOOLEAN, c = [b EXCEPT !.hp = n, !.update = up]
      PROVE  c \in BossRecord /\ c.hp = n /\ c.haveAward = b.haveAward /\ c.isJiesuan = b.isJiesuan
  <2>1. b = [hp |-> b.hp, haveAward |-> b.haveAward, update |-> b.update, isJiesuan |-> b.isJiesuan]
        /\ b.haveAward \in BOOLEAN /\ b.isJiesuan \in BOOLEAN
    BY DEF BossRecord
  <2>2. c = [hp |-> n, haveAward |-> b.haveAward, update |-> up, isJiesuan |-> b.isJiesuan]
    BY <1>1, <2>1
  <2> QED
    BY <2>1, <2>2 DEF BossRecord
<1> QED
  BY <1>1

\* A blow, the last one included, which settles the fight.
LEMMA StrikeKeeps ==
    ASSUME BossInv, NEW u \in Uid, NEW n \in Blow, Strike(u, n)
    PROVE  BossInv'
<1>1. /\ boss \in BossRecord /\ phpQueue \in Seq(PhpItem) /\ loaded \in Seq(PhpItem)
      /\ RankOK(hurt, top) /\ PrizeState(boss.haveAward, loaded \o phpQueue, awarded)
      /\ Silent(loaded, "stop") /\ ~phpEnded /\ Silent(phpQueue, "stop")
      /\ bossAt = "loop" /\ boss.hp > 0 /\ bossAt' = bossAt /\ phpEnded' = phpEnded /\ loaded' = loaded
  BY DEF BossInv, ThreadOK, Strike
<1>2. n \in Nat
  BY BossAssumption
<1>3. PICK sum : sum = GetHurtValue(u) + n
  OBVIOUS
<1>4. sum \in Nat /\ sum = n + (IF u \in DOMAIN hurt THEN hurt[u] ELSE 0)
  <2>1. HurtMapOK(hurt)
    BY <1>1 DEF RankOK
  <2>2. u \in DOMAIN hurt => hurt[u] \in Nat
    BY <2>1 DEF HurtMapOK
  <2> QED
    BY <1>2, <1>3, <2>2 DEF GetHurtValue
<1>5. PICK told : told = phpQueue \o TellPhpPlayerHurt(u, n)
  OBVIOUS
<1>6. PICK m2 : m2 = hurt'
  OBVIOUS
<1>7. PICK l2 : l2 = top'
  OBVIOUS
<1>8. RankOK(m2, l2)
  <2>1. m2 = Struck(hurt, u, sum) /\ l2 \in AddTop(top, [uid |-> u, hurt |-> sum])
    BY <1>3, <1>6, <1>7 DEF Strike, Struck
  <2> QED
    BY <1>1, <1>2, <1>4, <2>1, BlowKeepsRank
<1>9. PICK more : more = TellPhpPlayerHurt(u, n)
  OBVIOUS
<1>10. more \in Seq(PhpItem) /\ NoPrizesIn(more) /\ Silent(more, "stop")
  <2>1. CASE u \in LongName
    <3>1. more = <<>> /\ Len(more) = 0
      BY <1>9, <2>1 DEF TellPhpPlayerHurt
    <3> QED
      BY <3>1 DEF NoPrizesIn, Silent
  <2>2. CASE u \notin LongName
    <3>1. PICK e : e = [tell |-> "hurt", uid |-> u, hurt |-> n]
      OBVIOUS
    <3>2. e \in PhpItem /\ e.tell = "hurt"
      BY <1>2, <3>1, ItemsAre
    <3>3. more = <<e>>
      BY <1>9, <2>2, <3>1 DEF TellPhpPlayerHurt
    <3>4. more \in Seq(PhpItem)
      /\ (e.tell # "stop" => Silent(more, "stop"))
      /\ (e.tell # "topMail" => Silent(more, "topMail"))
      /\ (e.tell # "shareMail" => Silent(more, "shareMail"))
      BY <3>2, <3>3, OneItem
    <3> QED
      BY <3>2, <3>4 DEF NoPrizesIn
  <2> QED
    BY <2>1, <2>2
<1>11. told \in Seq(PhpItem) /\ Silent(told, "stop")
  BY <1>1, <1>5, <1>9, <1>10, SilentJoined
<1>12. PrizeState(boss.haveAward, loaded \o told, awarded)
  <2>1. PICK s : s = loaded \o phpQueue
    OBVIOUS
  <2>2. s \in Seq(PhpItem)
    BY <1>1, <2>1, ConcatProperties
  <2>3. PrizeState(boss.haveAward, s \o more, awarded)
    BY <1>1, <1>10, <2>1, <2>2, PrizeStateStays
  <2>4. \A x, y, z \in Seq(PhpItem) : (x \o y) \o z = x \o (y \o z)
    BY ConcatAssociative
  <2>5. s \o more = loaded \o told
    BY <1>1, <1>5, <1>9, <1>10, <2>1, <2>4
  <2> QED
    BY <2>3, <2>5
<1>13. AwardOK /\ (boss.haveAward => boss.isJiesuan)
  BY <1>1 DEF BossInv, AwardOK, BossRecord
<1>14. CASE boss.hp - n <= 0
  <2>1. PICK b : b = [boss EXCEPT !.hp = 0, !.update = FALSE]
    OBVIOUS
  <2>2. b \in BossRecord /\ b.hp = 0 /\ b.haveAward = boss.haveAward /\ b.isJiesuan = boss.isJiesuan
    <3>1. PICK z \in Int : z = 0
      OBVIOUS
    <3>2. b = [boss EXCEPT !.hp = z, !.update = FALSE]
      BY <2>1, <3>1
    <3>3. b \in BossRecord /\ b.hp = z /\ b.haveAward = boss.haveAward /\ b.isJiesuan = boss.isJiesuan
      BY ZenonT(30), <1>1, <3>2, BossRecords
    <3> QED
      BY <3>1, <3>3
  <2>3. TellPhpActOver(b, m2, l2, told, <<>>)
    BY <1>3, <1>5, <1>6, <1>7, <1>14, <2>1 DEF Strike
  <2>4. /\ boss' \in BossRecord /\ boss'.haveAward /\ boss'.hp = b.hp /\ boss'.isJiesuan = b.isJiesuan
        /\ PrizeState(TRUE, loaded \o phpQueue', awarded')
        /\ \E x \in Seq(PhpItem) : Silent(x, "stop") /\ phpQueue' = x \o <<>>
        /\ IF b.haveAward THEN awarded' = awarded ELSE awarded'.hurt = m2
    BY <1>1, <1>8, <1>11, <1>12, <2>2, <2>3, NothingMore, ActOver
  <2>5. phpQueue' \in Seq(PhpItem) /\ Silent(phpQueue', "stop")
    BY <2>4, NothingMore
  <2>6. AwardOK'
    BY <1>1, <1>6, <1>13, <2>2, <2>4 DEF AwardOK
  <2>7. ThreadOK'
    BY <1>1, <2>5 DEF ThreadOK
  <2>8. RankOK(hurt, top)'
    BY <1>6, <1>7, <1>8
  <2>9. PrizeState(boss'.haveAward, loaded' \o phpQueue', awarded')
    BY <1>1, <2>4 DEF PrizeState
  <2> QED
    BY <1>1, <2>4, <2>5, <2>6, <2>7, <2>8, <2>9 DEF BossInv
<1>15. CASE ~(boss.hp - n <= 0)
  <2>1. boss' = [boss EXCEPT !.hp = @ - n, !.update = TRUE] /\ phpQueue' = told /\ awarded' = awarded
    BY <1>3, <1>5, <1>15 DEF Strike
  <2>2. boss' \in BossRecord /\ boss'.haveAward = boss.haveAward /\ boss'.isJiesuan = boss.isJiesuan
    <3>1. PICK n2 \in Int : n2 = boss.hp - n
      BY <1>1, <1>2 DEF BossRecord
    <3>2. boss' = [boss EXCEPT !.hp = n2, !.update = TRUE]
      BY <2>1, <3>1
    <3> QED
      BY ZenonT(30), <1>1, <3>2, BossRecords
  <2>3. AwardOK'
    BY <1>13, <2>2 DEF AwardOK
  <2>4. ThreadOK'
    BY <1>1, <1>11, <2>1 DEF ThreadOK
  <2>5. RankOK(hurt, top)'
    BY <1>6, <1>7, <1>8
  <2>6. PrizeState(boss'.haveAward, loaded' \o phpQueue', awarded')
    BY <1>1, <1>12, <2>1, <2>2
  <2> QED
    BY <1>1, <1>11, <2>1, <2>2, <2>3, <2>4, <2>5, <2>6 DEF BossInv
<1> QED
  BY <1>14, <1>15

\* The timer of the end settles the fight once.
LEMMA JiesuanKeeps ==
    ASSUME BossInv, Jiesuan
    PROVE  BossInv'
<1>1. /\ boss \in BossRecord /\ phpQueue \in Seq(PhpItem) /\ loaded \in Seq(PhpItem)
      /\ RankOK(hurt, top) /\ PrizeState(boss.haveAward, loaded \o phpQueue, awarded)
      /\ Silent(loaded, "stop") /\ ~phpEnded /\ Silent(phpQueue, "stop")
      /\ bossAt = "loop" /\ bossAt' = bossAt /\ phpEnded' = phpEnded /\ loaded' = loaded
      /\ hurt' = hurt /\ top' = top
  BY DEF BossInv, ThreadOK, Jiesuan
<1>2. PICK b : b = [boss EXCEPT !.isJiesuan = TRUE]
  OBVIOUS
<1>3. b \in BossRecord /\ b.isJiesuan /\ b.haveAward = boss.haveAward
  BY <1>1, <1>2 DEF BossRecord
<1>4. TellPhpActOver(b, hurt, top, phpQueue, <<>>)
  BY <1>2 DEF Jiesuan
<1>5. /\ boss' \in BossRecord /\ boss'.haveAward /\ boss'.hp = b.hp /\ boss'.isJiesuan = b.isJiesuan
      /\ PrizeState(TRUE, loaded \o phpQueue', awarded')
      /\ \E x \in Seq(PhpItem) : Silent(x, "stop") /\ phpQueue' = x \o <<>>
  <2>1. PrizeState(b.haveAward, loaded \o phpQueue, awarded)
    BY <1>1, <1>3
  <2>2. <<>> \in Seq(PhpItem) /\ NoPrizesIn(<<>>)
    BY NothingMore
  <2>3. RankOK(hurt, top) /\ Silent(phpQueue, "stop") /\ phpQueue \in Seq(PhpItem) /\ loaded \in Seq(PhpItem)
    BY <1>1
  <2>4. /\ boss' \in BossRecord /\ boss'.haveAward /\ boss'.hp = b.hp /\ boss'.isJiesuan = b.isJiesuan
        /\ PrizeState(TRUE, loaded \o phpQueue', awarded')
        /\ \E x \in Seq(PhpItem) : Silent(x, "stop") /\ phpQueue' = x \o <<>>
        /\ IF b.haveAward THEN awarded' = awarded ELSE awarded'.hurt = hurt
    BY <1>3, <1>4, <2>1, <2>2, <2>3, ActOver
  <2> QED
    BY <2>4
<1>6. phpQueue' \in Seq(PhpItem) /\ Silent(phpQueue', "stop")
  BY <1>5, NothingMore
<1>7. AwardOK' /\ ThreadOK'
  BY <1>1, <1>3, <1>5, <1>6 DEF AwardOK, ThreadOK
<1>8. PrizeState(boss'.haveAward, loaded' \o phpQueue', awarded')
  BY <1>1, <1>5 DEF PrizeState
<1> QED
  BY <1>1, <1>5, <1>6, <1>7, <1>8 DEF BossInv

\* The stop of the server.
LEMMA StopBossKeeps ==
    ASSUME BossInv, StopBoss
    PROVE  BossInv'
<1>1. /\ boss \in BossRecord /\ phpQueue \in Seq(PhpItem) /\ loaded \in Seq(PhpItem)
      /\ RankOK(hurt, top) /\ PrizeState(boss.haveAward, loaded \o phpQueue, awarded)
      /\ Silent(loaded, "stop") /\ ~phpEnded /\ Silent(phpQueue, "stop")
      /\ bossAt = "stop" /\ bossAt' = "join" /\ phpEnded' = phpEnded /\ loaded' = loaded
      /\ hurt' = hurt /\ top' = top
  BY DEF BossInv, ThreadOK, StopBoss
<1>2. PICK stop : stop = <<[tell |-> "stop"]>>
  OBVIOUS
<1>3. stop \in Seq(PhpItem) /\ NoPrizesIn(stop)
  BY <1>1, <1>2, EndMore
<1>4. TellPhpActOver(boss, hurt, top, phpQueue, stop)
  BY <1>2 DEF StopBoss
<1>5. /\ boss' \in BossRecord /\ boss'.haveAward /\ boss'.hp = boss.hp /\ boss'.isJiesuan = boss.isJiesuan
      /\ PrizeState(TRUE, loaded \o phpQueue', awarded')
      /\ \E x \in Seq(PhpItem) : Silent(x, "stop") /\ phpQueue' = x \o stop
      /\ IF boss.haveAward THEN awarded' = awarded ELSE awarded'.hurt = hurt
  BY <1>1, <1>3, <1>4, ActOver
<1>6. phpQueue' \in Seq(PhpItem) /\ StopLast(phpQueue')
  <2>1. PICK x \in Seq(PhpItem) : Silent(x, "stop") /\ phpQueue' = x \o stop
    BY <1>5
  <2>2. StopLast(x \o stop)
    BY <1>2, <2>1, EndMore
  <2> QED
    BY <1>3, <2>1, <2>2, ConcatProperties
<1>7. AwardOK'
  BY <1>1, <1>5 DEF BossInv, AwardOK
<1>8. ThreadOK'
  BY <1>1, <1>5, <1>6 DEF ThreadOK
<1>9. PrizeState(boss'.haveAward, loaded' \o phpQueue', awarded')
  BY <1>1, <1>5 DEF PrizeState
<1> QED
  BY <1>1, <1>5, <1>6, <1>7, <1>8, <1>9 DEF BossInv

\* The php thread takes one item, or ends.
LEMMA PhpThreadKeeps ==
    ASSUME BossInv, PhpThreadHandler
    PROVE  BossInv'
<1>1. /\ boss \in BossRecord /\ phpQueue \in Seq(PhpItem) /\ loaded \in Seq(PhpItem)
      /\ bossAt \in {"loop", "stop", "join", "done"} /\ phpEnded \in BOOLEAN
      /\ RankOK(hurt, top) /\ PrizeState(boss.haveAward, loaded \o phpQueue, awarded)
      /\ ThreadOK /\ AwardOK /\ ~phpEnded /\ phpQueue # <<>>
      /\ UNCHANGED <<boss, hurt, top, bossAt, awarded>>
  BY DEF BossInv, PhpThreadHandler
<1>2. PICK h : h = Head(phpQueue)
  OBVIOUS
<1>3. PICK q : q = Tail(phpQueue)
  OBVIOUS
<1>4. PICK l : l = Append(loaded, h)
  OBVIOUS
<1>5. /\ h \in PhpItem /\ q \in Seq(PhpItem) /\ l \in Seq(PhpItem) /\ l \o q = loaded \o phpQueue
      /\ Len(q) = Len(phpQueue) - 1 /\ \A i \in 1..Len(q) : q[i] = phpQueue[i + 1]
  BY <1>1, <1>2, <1>3, <1>4, TakenByPhp
<1>6. /\ Len(phpQueue) \in Nat /\ Len(phpQueue) >= 1 /\ h = phpQueue[1]
      /\ \A i \in 1..Len(q) : i + 1 \in 1..Len(phpQueue)
      /\ Len(phpQueue) \in 1..Len(phpQueue) /\ 1 \in 1..Len(phpQueue)
  BY <1>1, <1>2, <1>5
<1>7. Len(l) = Len(loaded) + 1 /\ \A i \in 1..Len(l) : l[i] = IF i <= Len(loaded) THEN loaded[i] ELSE h
  BY <1>1, <1>4, <1>5
<1>8. AwardOK'
  BY <1>1 DEF AwardOK
<1>9. RankOK(hurt, top)'
  BY <1>1
<1>10. CASE h.tell = "stop"
  <2>1. phpQueue' = q /\ phpEnded' = TRUE /\ loaded' = loaded
    BY <1>2, <1>3, <1>10 DEF PhpThreadHandler
  <2>2. bossAt \in {"join", "done"} /\ StopLast(phpQueue) /\ boss.haveAward
    BY <1>1, <1>6, <1>10 DEF ThreadOK, Silent
  <2>3. Len(phpQueue) = 1
    BY <1>6, <1>10, <2>2 DEF StopLast
  <2>4. q = <<>>
    BY <1>5, <2>3
  <2>5. ThreadOK'
    BY <1>1, <2>1, <2>2, <2>4 DEF ThreadOK
  <2>6. l \o q = l
    BY <1>5, <2>4, ConcatEmptySeq
  <2>7. loaded \o q = loaded
    BY <1>1, <2>4, ConcatEmptySeq
  <2>8. PrizeState(boss.haveAward, l, awarded)
    BY <1>1, <1>5, <2>6
  <2>9. PrizesIn(l, awarded.hurt, awarded.top) /\ RankOK(awarded.hurt, awarded.top)
    BY <2>2, <2>8 DEF PrizeState
  <2>10. ASSUME NEW tell, tell # "stop", NEW b \in Seq(PhpItem), Piece(l, tell, b)
         PROVE  Piece(loaded, tell, b)
    <3>1. PICK n \in Nat : PieceAt(l, n, tell, b)
      BY <2>10 DEF Piece
    <3>2. Len(b) \in Nat /\ Len(loaded) \in Nat
      BY <1>1
    <3>3. n + Len(b) <= Len(loaded) + 1 /\ \A i \in 1..Len(l) : l[i].tell = tell <=> n < i /\ i <= n + Len(b)
      BY <1>7, <3>1 DEF PieceAt
    <3>4. Len(l) \in 1..Len(l) /\ l[Len(l)] = h
      BY <1>7, <3>2
    <3>5. ~(n < Len(l) /\ Len(l) <= n + Len(b))
      BY <1>10, <2>10, <3>3, <3>4
    <3>6. CASE Len(b) = 0
      <4>1. Silent(loaded, tell)
        BY <1>7, <3>2, <3>3, <3>6 DEF Silent
      <4>2. PieceAt(loaded, 0, tell, b)
        BY <3>2, <3>6, <4>1 DEF PieceAt, Silent
      <4> QED
        BY <4>2 DEF Piece
    <3>7. CASE Len(b) # 0
      <4>1. n + Len(b) <= Len(loaded)
        BY <1>7, <3>2, <3>3, <3>5, <3>7
      <4>2. \A i \in 1..Len(loaded) : loaded[i].tell = tell <=> n < i /\ i <= n + Len(b)
        BY <1>7, <3>2, <3>3
      <4>3. ASSUME NEW i \in 1..Len(b) PROVE loaded[n + i] = b[i]
        <5>1. n + i \in 1..Len(l) /\ n + i <= Len(loaded)
          BY <1>7, <3>2, <4>1
        <5>2. l[n + i] = b[i]
          BY <3>1 DEF PieceAt
        <5> QED
          BY <1>7, <5>1, <5>2
      <4>4. PieceAt(loaded, n, tell, b)
        BY <4>1, <4>2, <4>3 DEF PieceAt
      <4> QED
        BY <4>4 DEF Piece
    <3> QED
      BY <3>6, <3>7
  <2>11. PrizesIn(loaded, awarded.hurt, awarded.top)
    <3>1. TopMails(awarded.top) \in Seq(PhpItem) /\ ShareMails(awarded.hurt) \in Seq(PhpItem)
      BY <2>9, TopMailsAre, ShareMailsAre DEF RankOK, SharesAre
    <3> QED
      BY <2>9, <2>10, <3>1 DEF PrizesIn
  <2>12. PrizeState(boss'.haveAward, loaded' \o phpQueue', awarded')
    BY <1>1, <2>1, <2>2, <2>7, <2>9, <2>11 DEF PrizeState
  <2> QED
    BY <1>1, <1>5, <1>8, <1>9, <2>1, <2>5, <2>12 DEF BossInv
<1>11. CASE h.tell # "stop"
  <2>1. phpQueue' = q /\ phpEnded' = phpEnded /\ loaded' = l
    BY <1>2, <1>3, <1>4, <1>11 DEF PhpThreadHandler
  <2>2. Silent(l, "stop")
    <3>1. Silent(loaded, "stop")
      BY <1>1 DEF ThreadOK
    <3> QED
      BY <1>1, <1>7, <1>11, <3>1 DEF Silent
  <2>3. Silent(phpQueue, "stop") => Silent(q, "stop")
    BY <1>5, <1>6 DEF Silent
  <2>4. ASSUME StopLast(phpQueue) PROVE StopLast(q)
    <3>1. \A i \in 1..Len(phpQueue) : phpQueue[i].tell = "stop" <=> i = Len(phpQueue)
      BY <1>6, <2>4 DEF StopLast
    <3>2. Len(phpQueue) # 1
      BY <1>6, <1>11, <3>1
    <3>3. Len(q) \in 1..Len(q) /\ Len(q) + 1 = Len(phpQueue)
      BY <1>5, <1>6, <3>2
    <3>4. q[Len(q)].tell = "stop"
      BY <1>5, <1>6, <3>1, <3>3
    <3>5. ASSUME NEW i \in 1..Len(q), q[i].tell = "stop" PROVE i = Len(q)
      BY <1>5, <1>6, <3>1, <3>3, <3>5
    <3>6. q # <<>>
      BY <3>3
    <3> QED
      BY <3>4, <3>5, <3>6 DEF StopLast
  <2>5. ThreadOK'
    BY <1>1, <2>1, <2>2, <2>3, <2>4 DEF ThreadOK
  <2>6. PrizeState(boss'.haveAward, loaded' \o phpQueue', awarded')
    BY <1>1, <1>5, <2>1
  <2> QED
    BY <1>1, <1>5, <1>8, <1>9, <2>1, <2>5, <2>6 DEF BossInv
<1> QED
  BY <1>10, <1>11

\* Viewers, the start of a day and the others touch no prize.
LEMMA OthersKeepBoss ==
    ASSUME BossInv,
           \/ \E v \in Viewer : ViewerUp(v) \/ ViewerDown(v)
           \/ UpdateHp \/ TickMe \/ JoinPhp \/ BossWorld \/ UNCHANGED bossVars
    PROVE  BossInv'
<1>1. CASE UNCHANGED <<boss, hurt, top, bossAt, phpQueue, phpEnded, loaded, awarded>>
  BY <1>1 DEF BossInv, ThreadOK, AwardOK
<1>2. CASE UpdateHp
  <2>1. boss' = [boss EXCEPT !.update = FALSE] /\ UNCHANGED <<hurt, top, bossAt, phpQueue, phpEnded, loaded, awarded>>
    BY <1>2 DEF UpdateHp
  <2>2. /\ boss' \in BossRecord /\ boss'.hp = boss.hp /\ boss'.haveAward = boss.haveAward
        /\ boss'.isJiesuan = boss.isJiesuan
    BY <2>1 DEF BossInv, BossRecord
  <2> QED
    BY <2>1, <2>2 DEF BossInv, ThreadOK, AwardOK
<1>3. CASE TickMe
  <2>1. bossAt = "loop" /\ bossAt' = "stop" /\ UNCHANGED <<boss, hurt, top, phpQueue, phpEnded, loaded, awarded>>
    BY <1>3 DEF TickMe
  <2> QED
    BY <2>1 DEF BossInv, ThreadOK, AwardOK
<1>4. CASE JoinPhp
  <2>1. /\ bossAt = "join" /\ bossAt' = "done" /\ phpEnded
        /\ UNCHANGED <<boss, hurt, top, phpQueue, phpEnded, loaded, awarded>>
    BY <1>4 DEF JoinPhp
  <2> QED
    BY <2>1 DEF BossInv, ThreadOK, AwardOK
<1> QED
  BY <1>1, <1>2, <1>3, <1>4 DEF ViewerUp, ViewerDown, BossWorld, bossVars

\* Every step keeps the invariant.
LEMMA BossStep == BossInv /\ [BossNext]_bossVars => BossInv'
<1> SUFFICES ASSUME BossInv, [BossNext]_bossVars PROVE BossInv'
  OBVIOUS
<1> QED
  BY StrikeKeeps, JiesuanKeeps, StopBossKeeps, PhpThreadKeeps, OthersKeepBoss DEF BossNext

\* A piece of the ranking mails is where the mails of the ranking stand.
LEMMA TopMailPlaces ==
    ASSUME NEW s \in Seq(PhpItem), NEW list \in Seq(RankEntry), Piece(s, "topMail", TopMails(list))
    PROVE  \E n \in 0..Len(s) :
              /\ {i \in DOMAIN s : s[i].tell = "topMail"} = {n + i : i \in DOMAIN list}
              /\ \A i \in DOMAIN list : s[n + i] = TopMails(list)[i]
<1>1. PICK a : a = TopMails(list)
  OBVIOUS
<1>2. PICK k \in Nat : k = Len(a)
  BY <1>1, TopMailsAre
<1>3. k = Len(list) /\ DOMAIN list = 1..k
  BY <1>1, <1>2, TopMailsAre
<1>4. PICK n \in Nat : PieceAt(s, n, "topMail", a)
  BY <1>1 DEF Piece
<1>5. PICK P : P = PlacesIn(s, "topMail")
  OBVIOUS
<1>6. /\ n \in 0..Len(s)
      /\ \A i \in 1..k : n + i \in P /\ s[n + i] = a[i]
      /\ \A i \in P : i - n \in 1..k /\ i = n + (i - n)
  <2>1. PlacedAt(P, s, n, k, a)
    BY <1>2, <1>4, <1>5, PiecePlaces
  <2> QED
    BY <2>1 DEF PlacedAt
<1>7. P = {n + i : i \in 1..k}
  BY <1>6
<1> QED
  BY <1>1, <1>3, <1>5, <1>6, <1>7 DEF PlacesIn

\* A piece of the share mails is where the mails of the shares stand.
LEMMA ShareMailPlaces ==
    ASSUME NEW s \in Seq(PhpItem), NEW m, HurtMapOK(m), Piece(s, "shareMail", ShareMails(m))
    PROVE  /\ Cardinality({i \in DOMAIN s : s[i].tell = "shareMail"}) = Cardinality(Deserving(m))
           /\ {s[i].uid : i \in {i \in DOMAIN s : s[i].tell = "shareMail"}} = Deserving(m)
<1>1. PICK b : b = ShareMails(m)
  OBVIOUS
<1>2. SharesAre(b, m)
  BY <1>1, ShareMailsAre
<1>3. PICK k \in Nat : k = Len(b)
  BY <1>2 DEF SharesAre
<1>4. PICK n \in Nat : PieceAt(s, n, "shareMail", b)
  BY <1>1 DEF Piece
<1>5. PICK P : P = PlacesIn(s, "shareMail")
  OBVIOUS
<1>6. /\ P = (n + 1)..(n + k)
      /\ \A i \in 1..k : n + i \in P /\ s[n + i] = b[i]
      /\ \A i \in P : i - n \in 1..k /\ s[i] = b[i - n]
  <2>1. PlacedAt(P, s, n, k, b)
    BY <1>3, <1>4, <1>5, PiecePlaces
  <2> QED
    BY <2>1 DEF PlacedAt
<1>7. Cardinality(P) = k
  <2>1. PICK x \in Int : x = n + 1
    BY <1>4
  <2>2. PICK y \in Int : y = n + k
    BY <1>3, <1>4
  <2>3. Cardinality(x..y) = IF x > y THEN 0 ELSE y - x + 1
    BY <2>1, <2>2, FS_Interval
  <2>4. (IF x > y THEN 0 ELSE y - x + 1) = k
    BY <1>3, <1>4, <2>1, <2>2
  <2>5. P = x..y
    BY <1>6, <2>1, <2>2
  <2> QED
    BY <2>3, <2>4, <2>5
<1>8. k = Cardinality(Deserving(m))
  BY <1>2, <1>3 DEF SharesAre
<1>9. ASSUME NEW i \in P PROVE s[i].uid \in Deserving(m)
  <2>1. PICK j \in 1..k : s[i] = b[j]
    BY <1>6
  <2> QED
    BY <1>2, <1>3, <2>1 DEF SharesAre
<1>10. ASSUME NEW u \in Deserving(m) PROVE \E i \in P : s[i].uid = u
  <2>1. PICK j \in 1..k : b[j].uid = u
    BY <1>2, <1>3 DEF SharesAre
  <2> QED
    BY <1>6, <2>1
<1>11. {s[i].uid : i \in P} = Deserving(m)
  BY <1>9, <1>10
<1> QED
  BY <1>5, <1>7, <1>8, <1>11 DEF PlacesIn

\* The invariant says what the run checks.
LEMMA BossPrizes ==
    ASSUME BossInv
    PROVE  PrizesRight
<1>1. TopOfMap
  BY RankIsTop DEF BossInv
<1> SUFFICES ASSUME bossAt = "done"
             PROVE  /\ phpQueue = <<>> /\ boss.haveAward
                    /\ \E n \in 0..Len(loaded) :
                          /\ Places("topMail") = {n + i : i \in DOMAIN awarded.top}
                          /\ \A i \in DOMAIN awarded.top : loaded[n + i] = TopMails(awarded.top)[i]
                    /\ Cardinality(Places("shareMail")) = Cardinality(Deserving(awarded.hurt))
                    /\ {loaded[i].uid : i \in Places("shareMail")} = Deserving(awarded.hurt)
                    /\ boss.hp = 0 => awarded.hurt = hurt \/ boss.isJiesuan
  BY <1>1 DEF PrizesRight
<1>2. phpQueue = <<>> /\ boss.haveAward
  BY DEF BossInv, ThreadOK
<1>3. PICK m : m = awarded.hurt
  OBVIOUS
<1>4. PICK list : list = awarded.top
  OBVIOUS
<1>5. RankOK(m, list) /\ PrizesIn(loaded, m, list) /\ loaded \in Seq(PhpItem)
  BY <1>2, <1>3, <1>4, ConcatEmptySeq DEF BossInv, PrizeState
<1>6. HurtMapOK(m) /\ list \in Seq(RankEntry)
  BY <1>5 DEF RankOK
<1>7. Len(loaded) \in Nat /\ DOMAIN loaded = 1..Len(loaded)
  BY <1>5
<1>8. \E n \in 0..Len(loaded) :
         /\ Places("topMail") = {n + i : i \in DOMAIN list}
         /\ \A i \in DOMAIN list : loaded[n + i] = TopMails(list)[i]
  BY <1>5, <1>6, TopMailPlaces DEF PrizesIn, Places
<1>9. /\ Cardinality(Places("shareMail")) = Cardinality(Deserving(m))
      /\ {loaded[i].uid : i \in Places("shareMail")} = Deserving(m)
  BY <1>5, <1>6, ShareMailPlaces DEF PrizesIn, Places
<1>10. boss.hp = 0 => awarded.hurt = hurt \/ boss.isJiesuan
  BY <1>2 DEF BossInv, AwardOK
<1> QED
  BY <1>2, <1>3, <1>4, <1>8, <1>9, <1>10

\* The list of those who hurt the boss most is right at every moment, and when bosssrv
\* has stopped php was told everything and every prize once, however the fight ended.
THEOREM PrizesGivenOnce == BossSpec => []PrizesRight
<1>1. BossInv => PrizesRight
  BY BossPrizes
<1> QED
  BY BossStarts, BossStep, <1>1, PTL DEF BossSpec
=============================================================================
