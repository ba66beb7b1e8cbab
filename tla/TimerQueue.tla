----------------------------- MODULE TimerQueue -----------------------------
(***************************************************************************)
(* TimerQueue and Timer of mysdk/net: the list of timers in the order of   *)
(* their expiration, the timerfd that wakes the loop for the first one,    *)
(* and the threads that schedule timers. The list is changed under a lock; *)
(* the timerfd is set after the lock is released.                          *)
(*                                                                         *)
(* A moment is kept as the time left until it, 0 once it is past: Tick     *)
(* brings all of them nearer.                                              *)
(***************************************************************************)
EXTENDS Integers, Sequences, SequencesExt

CONSTANTS
    Timer,      \* Timer objects; a one-shot timer is deleted once it has run
    Other,      \* threads other than the loop's that schedule timers
    Loop,       \* the loop's thread: the callbacks that schedule timers
    MaxDelay    \* bound: delays and intervals, in ticks

ASSUME TimerAssumption == Loop \notin Other /\ MaxDelay \in Nat \ {0}

VARIABLES
    timers,    \* timers_: records of timer, time left and interval, 0 for runAt
    timerfd,   \* what is left until it expires (Unset if not armed), readable
    handling,  \* handleRead: "idle", "read", "run", "rearm", "reset", "ended"
    expired,   \* the timers handleRead took out, those run first
    ran,       \* how many of them have run
    since,     \* time since handleRead took the time
    nextExpire,
    setting,   \* thread -> the time it is about to set the timerfd to
    shared     \* threads that may schedule in this behaviour

timerVars == <<timers, timerfd, handling, expired, ran, since, nextExpire, setting, shared>>

Unset == -1

Nearer(n) == IF n > 0 THEN n - 1 ELSE n
IdsOf(list) == {list[i].id : i \in DOMAIN list}

TimersInit ==
    /\ timers = <<>> /\ timerfd = [left |-> Unset, readable |-> FALSE]
    /\ handling = "idle" /\ expired = <<>> /\ ran = 0 /\ since = 0 /\ nextExpire = Unset
    /\ setting = [p \in Other \cup {Loop} |-> Unset]
    /\ shared \in SUBSET Other

-----------------------------------------------------------------------------
(* Scheduling                                                               *)

\* A walk that never leaves the front of the list.
PlaceAtFront(list, timer) == 0

\* insertWithLockHold goes to the front only before a later timer; elsewhere
\* it goes after the timers that expire strictly earlier.
Place(list, timer) ==
    IF list = <<>> \/ list[1].left > timer.left THEN 0
    ELSE CHOOSE i \in 0..Len(list) :
            /\ \A j \in 1..i : list[j].left < timer.left
            /\ i < Len(list) => list[i + 1].left >= timer.left

InsertWithLockHold(list, timer) == InsertAt(list, Place(list, timer) + 1, timer)

EarliestChanged(list, timer) == list = <<>> \/ list[1].left > timer.left

\* The loop's thread schedules from callbacks only, and other threads at any
\* time; a thread sets the timerfd before it schedules again.
Schedule(p) ==
    /\ IF p = Loop THEN handling = "run" /\ ran > 0
                   ELSE p \in shared /\ handling # "ended"
    /\ setting[p] = Unset
    /\ \E t \in Timer \ (IdsOf(timers) \cup IdsOf(expired)), left \in 1..MaxDelay :
          \E interval \in {0, left} :
             LET timer == [id |-> t, left |-> left, interval |-> interval]
             IN  /\ timers' = InsertWithLockHold(timers, timer)
                 /\ setting' = [setting EXCEPT ![p] =
                                   IF EarliestChanged(timers, timer) THEN left ELSE Unset]
    /\ UNCHANGED <<timerfd, handling, expired, ran, since, nextExpire, shared>>

\* timerfd_settime makes a timerfd that was readable unreadable.
ResetTimerfd(left) == timerfd' = [left |-> left, readable |-> FALSE]

FinishSchedule(p) ==
    /\ setting[p] # Unset /\ handling # "ended"
    /\ ResetTimerfd(setting[p])
    /\ setting' = [setting EXCEPT ![p] = Unset]
    /\ UNCHANGED <<timers, handling, expired, ran, since, nextExpire, shared>>

\* The timers an owner schedules before the loop runs (runEvery in the
\* constructors of the servers).
ScheduleFirst ==
    /\ handling = "idle" /\ timers = <<>> /\ timerfd.left = Unset /\ ~timerfd.readable
    /\ \A p \in DOMAIN setting : setting[p] = Unset
    /\ \E t \in Timer, left \in 1..MaxDelay :
          /\ timers' = <<[id |-> t, left |-> left, interval |-> left]>>
          /\ ResetTimerfd(left)
    /\ UNCHANGED <<handling, expired, ran, since, nextExpire, setting, shared>>

-----------------------------------------------------------------------------
(* handleRead                                                               *)

Wake ==
    /\ handling = "idle" /\ timerfd.readable
    /\ handling' = "read"
    /\ UNCHANGED <<timers, timerfd, expired, ran, since, nextExpire, setting, shared>>

\* How many timers the walk from the front of the list passes that are due.
Due == CHOOSE n \in 0..Len(timers) :
          /\ \A i \in 1..n : timers[i].left = 0
          /\ n < Len(timers) => timers[n + 1].left > 0

\* The timerfd may have been set again since the poll: the read then fails and
\* handleRead goes on all the same.
TakeExpired ==
    /\ handling = "read"
    /\ expired' = SubSeq(timers, 1, Due) /\ timers' = SubSeq(timers, Due + 1, Len(timers))
    /\ timerfd' = [timerfd EXCEPT !.readable = FALSE]
    /\ handling' = "run" /\ ran' = 0 /\ since' = 0
    /\ UNCHANGED <<nextExpire, setting, shared>>

RunTimer ==
    /\ handling = "run" /\ ran < Len(expired) /\ setting[Loop] = Unset
    /\ ran' = ran + 1
    /\ UNCHANGED <<timers, timerfd, handling, expired, since, nextExpire, setting, shared>>

\* Timer::restart counts the interval from the time handleRead took.
Restarted(timer) ==
    [timer EXCEPT !.left = IF timer.interval > since THEN timer.interval - since ELSE 0]

\* restart and insertWithLockHold of a timer that repeats; others are deleted.
RestartOrDelete(list, timer) ==
    IF timer.interval > 0 THEN InsertWithLockHold(list, Restarted(timer)) ELSE list

\* A rearming that forgets the timers the list already held.
NextAmongRepeating(list) ==
    LET again == SelectSeq(expired, LAMBDA t : t.interval > 0)
    IN  IF again = <<>> THEN Unset ELSE Restarted(again[1]).left

NextExpire(list) == IF list = <<>> THEN Unset ELSE list[1].left

Rearm ==
    /\ handling = "run" /\ ran = Len(expired) /\ setting[Loop] = Unset
    /\ timers' = FoldLeft(RestartOrDelete, timers, expired)
    /\ nextExpire' = NextExpire(timers')
    /\ expired' = <<>> /\ ran' = 0
    /\ handling' = IF nextExpire' = Unset THEN "idle" ELSE "reset"
    /\ UNCHANGED <<timerfd, since, setting, shared>>

ResetForNext ==
    /\ handling = "reset"
    /\ ResetTimerfd(nextExpire)
    /\ handling' = "idle" /\ nextExpire' = Unset /\ since' = 0
    /\ UNCHANGED <<timers, expired, ran, setting, shared>>

\* ~TimerQueue once the loop has ended.
StopTimers ==
    /\ handling = "idle"
    /\ handling' = "ended" /\ timers' = <<>>
    /\ UNCHANGED <<timerfd, expired, ran, since, nextExpire, setting, shared>>

-----------------------------------------------------------------------------
(* The kernel                                                               *)

Expire ==
    /\ timerfd.left = 0 /\ handling # "ended"
    /\ timerfd' = [left |-> Unset, readable |-> TRUE]
    /\ UNCHANGED <<timers, handling, expired, ran, since, nextExpire, setting, shared>>

TimePasses ==
    /\ timerfd.left # 0 /\ handling # "ended"
    /\ \/ timerfd.left > 0 \/ nextExpire > 0 \/ \E i \in DOMAIN timers : timers[i].left > 0
    /\ timers' = [i \in DOMAIN timers |-> [timers[i] EXCEPT !.left = Nearer(@)]]
    /\ timerfd' = [timerfd EXCEPT !.left = Nearer(@)]
    /\ nextExpire' = Nearer(nextExpire)
    /\ setting' = [p \in DOMAIN setting |-> Nearer(setting[p])]
    /\ since' = IF handling = "run" /\ since < MaxDelay THEN since + 1 ELSE since
    /\ UNCHANGED <<handling, expired, ran, shared>>

TimersNext ==
    \/ \E p \in DOMAIN setting : Schedule(p) \/ FinishSchedule(p)
    \/ ScheduleFirst \/ Wake \/ TakeExpired \/ RunTimer \/ Rearm \/ ResetForNext
    \/ StopTimers \/ Expire \/ TimePasses

TimersSpec == TimersInit /\ [][TimersNext]_timerVars

-----------------------------------------------------------------------------
(* What must hold                                                           *)

Busy == handling \in {"read", "run", "reset"} \/ \E p \in DOMAIN setting : setting[p] # Unset

\* Whenever nobody is about to set the timerfd, a timer that waits is waited
\* for: the timerfd is armed or readable. If only callbacks schedule, it is
\* armed for no later than the first timer. The list is in the order of
\* expiration, which is what lets handleRead stop at the first timer that is
\* not due.
TimersWatched ==
    /\ \A i, j \in DOMAIN timers : i < j => timers[i].left <= timers[j].left
    /\ timers # <<>> /\ ~Busy => timerfd.readable \/ timerfd.left # Unset
    /\ timers # <<>> /\ ~Busy /\ shared = {}
          => timerfd.readable \/ timerfd.left <= timers[1].left

\* A timer in the list is taken out and run, again and again if it repeats,
\* whoever schedules others meanwhile, as long as the loop runs.
EveryTimerRuns ==
    \A t \in Timer : [](t \in IdsOf(timers) => <>(t \notin IdsOf(timers)))
=============================================================================
