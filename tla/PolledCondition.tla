-------------------------- MODULE PolledCondition --------------------------
(***************************************************************************)
(* The polled condition of libult (src/src/condition.h) with               *)
(* using_threads() true, and the macros ACQUIRE_THREAD, RELEASE_THREAD and *)
(* WAKEUP_THREAD that use it (src/src/threads.h).                          *)
(*                                                                         *)
(* A condition is two counters, c_waiting and c_signaled, that nobody      *)
(* sleeps on: a waiter drops the lock, calls progress() and looks again.   *)
(* Acquirers pass the flag act around; TimedWaiters wait with a deadline;  *)
(* Signallers call condition_signal under the lock; Wakers run             *)
(* WAKEUP_THREAD, which takes no lock.                                     *)
(*                                                                         *)
(* The counters are plain integers.  Only the holder of the lock writes    *)
(* c_waiting, so that its ++ and -- are single steps; c_signaled is also   *)
(* written by the Wakers, so that its ++ and -- are a read and a write.    *)
(*                                                                         *)
(* A definition whose name begins with Bug is a faulty variant of the one  *)
(* after it, and not part of the specification.                            *)
(***************************************************************************)
EXTENDS Integers, FiniteSets

CONSTANTS
    Acquirers, TimedWaiters, Signallers, Wakers,    \* the threads, by role
    NULL,
    MaxRounds,          \* bound: calls per thread
    Deadlines,          \* bound: the abstime arguments, in nanoseconds
    MaxTime,            \* bound: the clock, in nanoseconds
    NsPerUs, UsPerSec   \* scaled-down units

Threads == Acquirers \cup TimedWaiters \cup Signallers \cup Wakers

ASSUME RolesAssumption ==
    /\ IsFiniteSet(Threads) /\ NULL \notin Threads
    /\ Acquirers \cap (TimedWaiters \cup Signallers \cup Wakers) = {}
    /\ TimedWaiters \cap (Signallers \cup Wakers) = {}
    /\ Signallers \cap Wakers = {}
    /\ Deadlines \subseteq Nat /\ {MaxRounds, MaxTime} \subseteq Nat
    /\ {NsPerUs, UsPerSec} \subseteq Nat \ {0}

VARIABLES
    lck,                    \* the holder of the lock, or NULL
    act,                    \* the flag of the macros
    c_waiting, c_signaled,
    pc,
    tmp,                    \* a counter that a thread has read
    now, deadline, tv,      \* the clock, and the times of condition_timedwait
    expired,                \* whether the last timed wait found no signal
    rounds                  \* counter behind the bound

time   == <<now, deadline, tv, expired>>
shared == <<act, c_waiting, c_signaled, tmp, time, rounds>>
vars   == <<pc, lck, shared>>

Goto(t, label) == pc' = [pc EXCEPT ![t] = label]

(* A step of t that leaves everything but its place as it is, mutex_lock   *)
(* and mutex_unlock.                                                       *)
Move(t, from, to)   == pc[t] = from /\ Goto(t, to) /\ UNCHANGED <<lck, shared>>
Lock(t, from, to)   == pc[t] = from /\ Goto(t, to) /\ lck = NULL /\ lck' = t /\ UNCHANGED shared
Unlock(t, from, to) == pc[t] = from /\ Goto(t, to) /\ lck' = NULL /\ UNCHANGED shared

(* The constructor of condition_t. *)
Init ==
    /\ lck = NULL
    /\ act = FALSE
    /\ c_waiting = 0 /\ c_signaled = 0
    /\ pc       = [t \in Threads |-> "idle"]
    /\ tmp      = [t \in Threads |-> 0]
    /\ now = 0
    /\ deadline = [t \in Threads |-> 0]
    /\ tv       = [t \in Threads |-> 0]
    /\ expired  = [t \in Threads |-> FALSE]
    /\ rounds   = [t \in Threads |-> 0]

(* A call begins, within the bound. *)
Begin(t, label) ==
    /\ pc[t] = "idle"
    /\ rounds[t] < MaxRounds
    /\ rounds' = [rounds EXCEPT ![t] = @ + 1]
    /\ Goto(t, label)

-----------------------------------------------------------------------------
(* ACQUIRE_THREAD(lck, cnd, act) *)

BeginAcquire(t) ==
    /\ t \in Acquirers
    /\ Begin(t, "acquire")
    /\ UNCHANGED <<lck, act, c_waiting, c_signaled, tmp, time>>

AcquireLock(t) == Lock(t, "acquire", "test")

(* While the flag is set, wait; otherwise take it and keep the lock. *)
AcquireTest(t) ==
    /\ pc[t] = "test"
    /\ \/ act /\ Goto(t, "waiting") /\ UNCHANGED act
       \/ ~act /\ Goto(t, "owner") /\ act' = TRUE
    /\ UNCHANGED <<lck, c_waiting, c_signaled, tmp, time, rounds>>

-----------------------------------------------------------------------------
(* condition_wait(c, m), and condition_timedwait where it is the same.     *)

(* c->c_waiting++ *)
EnterWait(t) ==
    /\ pc[t] = "waiting"
    /\ c_waiting' = c_waiting + 1
    /\ Goto(t, IF t \in TimedWaiters THEN "timed_first" ELSE "first")
    /\ UNCHANGED <<lck, act, c_signaled, tmp, time, rounds>>

(* A signal is there already, and left to those who have waited longer:    *)
(* stop waiting, drop the lock, progress and return.                       *)
EarlyReturn(t) ==
    /\ pc[t] = "first"
    /\ c_signaled # 0
    /\ c_waiting' = c_waiting - 1
    /\ lck' = NULL
    /\ Goto(t, "back")
    /\ UNCHANGED <<act, c_signaled, tmp, time, rounds>>

(* The caller tests the flag only once. *)
BugRelockTakes(t) == Lock(t, "back", "owner")

RelockAndReturn(t) == Lock(t, "back", "test")

NoSignalYet(t) == c_signaled = 0 /\ Move(t, "first", "loop")

(* while (0 == c->c_signaled): drop the lock, progress, take the lock. *)
PollUnlock(t) == c_signaled = 0 /\ Unlock(t, "loop", "poll")

(* Looks at the counters again without the lock. *)
BugPollUnlocked(t) == Move(t, "poll", IF t \in TimedWaiters THEN "timed" ELSE "loop")

PollLock(t) == Lock(t, "poll", IF t \in TimedWaiters THEN "timed" ELSE "loop")

PollEnd(t) == c_signaled # 0 /\ Move(t, "loop", "consume")

(* c->c_signaled-- *)
ReadSignaled(t) ==
    /\ pc[t] = "consume"
    /\ tmp' = [tmp EXCEPT ![t] = c_signaled]
    /\ Goto(t, "decrement")
    /\ UNCHANGED <<lck, act, c_waiting, c_signaled, time, rounds>>

(* Does not consume the signal. *)
BugKeepSignal(t) == Move(t, "decrement", "leave")

WriteSignaled(t) ==
    /\ pc[t] = "decrement"
    /\ c_signaled' = tmp[t] - 1
    /\ Goto(t, "leave")
    /\ UNCHANGED <<lck, act, c_waiting, tmp, time, rounds>>

(* Is still counted after the wait. *)
BugLeaveCounted(t) == Move(t, "leave", IF t \in TimedWaiters THEN "returned" ELSE "test")

(* c->c_waiting--, and the wait returns with the lock held. *)
LeaveWait(t) ==
    /\ pc[t] = "leave"
    /\ c_waiting' = c_waiting - 1
    /\ Goto(t, IF t \in TimedWaiters THEN "returned" ELSE "test")
    /\ UNCHANGED <<lck, act, c_signaled, tmp, time, rounds>>

-----------------------------------------------------------------------------
(* condition_timedwait(c, m, abstime) *)

(* gettimeofday and the conversion of abstime keep whole microseconds. *)
Sec(ns)  == ns \div (NsPerUs * UsPerSec)
Usec(ns) == (ns \div NsPerUs) % UsPerSec

(* Compares the seconds strictly. *)
BugBefore(x, d) ==
    Sec(x) < Sec(d) \/ (Sec(x) = Sec(d) /\ Usec(x) < Usec(d))

(* The time part of the loop's condition: x is not past d. *)
Before(x, d) ==
    Sec(x) <= Sec(d) \/ (Sec(x) = Sec(d) /\ Usec(x) < Usec(d))

Tick == now < MaxTime /\ now' = now + 1
        /\ UNCHANGED <<lck, act, c_waiting, c_signaled, pc, tmp, deadline, tv, expired, rounds>>

(* The caller takes the lock. *)
BeginTimedWait(t, d) ==
    /\ t \in TimedWaiters
    /\ lck = NULL /\ lck' = t
    /\ Begin(t, "waiting")
    /\ deadline' = [deadline EXCEPT ![t] = d]
    /\ UNCHANGED <<act, c_waiting, c_signaled, tmp, now, tv, expired>>

(* The first gettimeofday, and the test before the loop, which only looks  *)
(* for a signal: without one the body runs once, whatever the time is.     *)
TimedFirst(t) ==
    /\ pc[t] = "timed_first"
    /\ tv' = [tv EXCEPT ![t] = now]
    /\ \/ c_signaled = 0 /\ Goto(t, "progress") /\ lck' = NULL
       \/ c_signaled # 0 /\ Goto(t, "timed_end") /\ UNCHANGED lck
    /\ UNCHANGED <<act, c_waiting, c_signaled, tmp, now, deadline, expired, rounds>>

(* The end of the loop's body, with the time read before the lock was      *)
(* taken: no signal and time is left, so drop the lock and progress.       *)
TimedUnlock(t) ==
    c_signaled = 0 /\ Before(tv[t], deadline[t]) /\ Unlock(t, "timed", "progress")

(* Keeps the time of the first call. *)
BugTimedReadOnce(t) == Move(t, "progress", "poll")

(* gettimeofday after progress() *)
TimedRead(t) ==
    /\ pc[t] = "progress"
    /\ tv' = [tv EXCEPT ![t] = now]
    /\ Goto(t, "poll")
    /\ UNCHANGED <<lck, act, c_waiting, c_signaled, tmp, now, deadline, expired, rounds>>

TimedEnd(t) ==
    (c_signaled # 0 \/ ~Before(tv[t], deadline[t])) /\ Move(t, "timed", "timed_end")

(* if (0 != c->c_signaled) *)
TimedConsume(t) ==
    /\ pc[t] = "timed_end"
    /\ expired' = [expired EXCEPT ![t] = (c_signaled = 0)]
    /\ Goto(t, IF c_signaled # 0 THEN "consume" ELSE "leave")
    /\ UNCHANGED <<lck, act, c_waiting, c_signaled, tmp, now, deadline, tv, rounds>>

(* A caller that holds the lock across its call releases it. *)
CallerUnlocks(t) == Unlock(t, "returned", "idle")

-----------------------------------------------------------------------------
(* The owner of the flag may give the lock back while it works. *)
WorkUnlocked(t) == Unlock(t, "owner", "work")
WorkDone(t)     == Lock(t, "work", "finish")

(* Does not wake anybody. *)
BugReleaseSilently(t) ==
    /\ pc[t] \in {"owner", "finish"}
    /\ act' = FALSE /\ lck' = NULL
    /\ Goto(t, "idle")
    /\ UNCHANGED <<c_waiting, c_signaled, tmp, time, rounds>>

(* RELEASE_THREAD with condition_broadcast, under the lock. *)
ReleaseThread(t) ==
    /\ pc[t] \in {"owner", "finish"}
    /\ act' = FALSE /\ lck' = NULL
    /\ c_signaled' = c_waiting
    /\ Goto(t, "idle")
    /\ UNCHANGED <<c_waiting, tmp, time, rounds>>

(* condition_signal by a caller that holds the lock. *)
SignalLock(t) ==
    /\ t \in Signallers
    /\ lck = NULL /\ lck' = t
    /\ Begin(t, IF c_waiting # 0 THEN "signal" ELSE "returned")
    /\ UNCHANGED <<act, c_waiting, c_signaled, tmp, time>>

SignalRead(t) ==
    /\ pc[t] = "signal"
    /\ tmp' = [tmp EXCEPT ![t] = c_signaled]
    /\ Goto(t, "increment")
    /\ UNCHANGED <<lck, act, c_waiting, c_signaled, time, rounds>>

SignalWrite(t) ==
    /\ pc[t] = "increment"
    /\ c_signaled' = tmp[t] + 1
    /\ Goto(t, "returned")
    /\ UNCHANGED <<lck, act, c_waiting, tmp, time, rounds>>

(* WAKEUP_THREAD: the flag, and a broadcast that reads one counter and     *)
(* writes the other, all without the lock.                                 *)
WakeupThread(t) ==
    /\ t \in Wakers
    /\ Begin(t, "wake_read")
    /\ act' = FALSE
    /\ UNCHANGED <<lck, c_waiting, c_signaled, tmp, time>>

WakeupRead(t) ==
    /\ pc[t] = "wake_read"
    /\ tmp' = [tmp EXCEPT ![t] = c_waiting]
    /\ Goto(t, "wake_write")
    /\ UNCHANGED <<lck, act, c_waiting, c_signaled, time, rounds>>

WakeupWrite(t) ==
    /\ pc[t] = "wake_write"
    /\ c_signaled' = tmp[t]
    /\ Goto(t, "idle")
    /\ UNCHANGED <<lck, act, c_waiting, tmp, time, rounds>>

-----------------------------------------------------------------------------

(* The steps that wait for the lock, and the other ones of a call. *)
LockStep(t) == AcquireLock(t) \/ RelockAndReturn(t) \/ PollLock(t) \/ WorkDone(t)

CallStep(t) ==
    \/ AcquireTest(t) \/ EnterWait(t) \/ EarlyReturn(t) \/ NoSignalYet(t)
    \/ PollUnlock(t) \/ PollEnd(t) \/ ReadSignaled(t) \/ WriteSignaled(t) \/ LeaveWait(t)
    \/ TimedFirst(t) \/ TimedUnlock(t) \/ TimedRead(t) \/ TimedEnd(t) \/ TimedConsume(t) \/ CallerUnlocks(t)
    \/ ReleaseThread(t) \/ SignalRead(t) \/ SignalWrite(t)
    \/ WakeupRead(t) \/ WakeupWrite(t)

BeginStep(t) ==
    \/ BeginAcquire(t) \/ WorkUnlocked(t)
    \/ \E d \in Deadlines : BeginTimedWait(t, d)
    \/ SignalLock(t) \/ WakeupThread(t)

(* All threads have made their calls: the bounded program stops. *)
Finished ==
    /\ \A t \in Threads : pc[t] = "idle" /\ rounds[t] = MaxRounds
    /\ UNCHANGED vars

Next ==
    \/ Tick \/ Finished
    \/ \E t \in Threads : LockStep(t) \/ CallStep(t) \/ BeginStep(t)

Spec == Init /\ [][Next]_vars

(* Time passes, threads are scheduled, and the lock is given to everyone   *)
(* who keeps asking for it.                                                *)
Fairness ==
    /\ WF_vars(Tick)
    /\ \A t \in Threads : WF_vars(CallStep(t)) /\ SF_vars(LockStep(t))

FairSpec == Spec /\ Fairness

-----------------------------------------------------------------------------
(* Properties *)

(* The program points where the thread holds the lock, and the others. *)
Holding ==
    {"test", "waiting", "first", "loop", "consume", "decrement", "leave",
     "timed_first", "timed", "timed_end", "returned", "owner", "finish",
     "signal", "increment"}
NotHolding ==
    {"idle", "acquire", "back", "poll", "progress", "work", "wake_read", "wake_write"}

(* Types; and the lock is held exactly by the thread whose program point   *)
(* says so, on every path through the polling loops and their early        *)
(* returns.                                                                *)
TypeOK ==
    /\ lck \in Threads \cup {NULL} /\ act \in BOOLEAN
    /\ c_waiting \in Int /\ c_signaled \in Int
    /\ pc \in [Threads -> Holding \cup NotHolding]
    /\ tmp \in [Threads -> Int]
    /\ now \in 0..MaxTime
    /\ deadline \in [Threads -> Deadlines \cup {0}]
    /\ tv \in [Threads -> 0..MaxTime]
    /\ expired \in [Threads -> BOOLEAN]
    /\ rounds \in [Threads -> 0..MaxRounds]
    /\ \A t \in Threads : pc[t] \in Holding <=> lck = t

(* The points between the increment and the decrement of c_waiting. *)
InWait ==
    {"first", "loop", "poll", "consume", "decrement", "leave",
     "timed_first", "timed", "progress", "timed_end"}

(* c_waiting counts exactly the threads inside a wait, whatever the        *)
(* Wakers do: the early return, the timeout and the normal end each take   *)
(* off what the entry has added.                                           *)
WaitersCounted == c_waiting = Cardinality({t \in Threads : pc[t] \in InWait})

(* At most one thread is between ACQUIRE_THREAD and RELEASE_THREAD,        *)
(* although condition_wait may return without a signal and the owner may   *)
(* release the lock while it works.  This is until somebody runs           *)
(* WAKEUP_THREAD, which takes the flag away from its owner.                *)
MutualExclusion ==
    (\A k \in Wakers : rounds[k] = 0)
        => \A t, u \in Acquirers :
            {pc[t], pc[u]} \subseteq {"owner", "work", "finish"} => t = u

(* As long as all wakeups are broadcasts under the lock, no signal         *)
(* outlives the waiters it was sent to: a later condition_wait finds one,  *)
(* and returns early, only while a waiter has yet to take its own.         *)
NoStaleSignal ==
    (\A t \in Signallers \cup Wakers : rounds[t] = 0) /\ lck = NULL
        => c_signaled <= c_waiting

(* condition_timedwait ends without a signal only when its deadline has    *)
(* passed, although it tests a time that it read before it had the lock    *)
(* and although both times are cut to microseconds.  This is until         *)
(* somebody runs WAKEUP_THREAD, whose broadcast without the lock can take  *)
(* a signal away from the waiter that it has brought out of its loop.      *)
NoEarlyTimeout ==
    (\A k \in Wakers : rounds[k] = 0)
        => \A t \in TimedWaiters : pc[t] = "returned" /\ expired[t] => now >= deadline[t]

(* ACQUIRE_THREAD always gets the flag in the end: no broadcast of         *)
(* RELEASE_THREAD is lost between the test of the flag and the poll.       *)
EveryAcquireSucceeds == \A t \in Acquirers : pc[t] = "acquire" ~> pc[t] = "owner"

(* Every timed wait ends, signalled or not, and takes itself off c_waiting. *)
EveryTimedWaitEnds == \A t \in TimedWaiters : pc[t] = "waiting" ~> pc[t] = "returned"

=============================================================================
